------------------------ MODULE SchedCorrelationProofs ------------------------
(***************************************************************************)
(* Conservation of wakeups and optimality of the greedy search in          *)
(* SchedCorrelation, for every set of tasks, CPUs, timestamps and windows  *)
(* and for any number of calls in any order.                               *)
(*                                                                         *)
(* Conservation is not inductive by itself: counting the waiting records   *)
(* needs them to be finitely many and told apart by their arrival number.  *)
(*                                                                         *)
(* Optimality is carried by a certificate kept beside the matching: a set  *)
(* of as many calls as are matched, among which every pair that could be   *)
(* matched has one.  A switch that finds a record adds its own call to the *)
(* cover; one that finds none trades, among the calls of its task and CPU, *)
(* switches already spent for the wakeups they were spent on.  That this   *)
(* leaves no pair uncovered is where first in, first matched is needed.    *)
(***************************************************************************)
EXTENDS SchedCorrelation, FiniteSetTheorems, TLAPS

\* Arrival numbers tell the records apart and none is ahead of wakeups_.
Numbered ==
  /\ \A w \in pending : w.id <= wakeups
  /\ \A w, x \in pending : w.id = x.id => w = x

Inv == TypeOK /\ IsFiniteSet(pending) /\ Numbered /\ Conservation

\* The invariant holds for a collector that has seen nothing.
LEMMA InvInit == Init => Inv
<1>. SUFFICES ASSUME Init PROVE Inv
  OBVIOUS
<1>1. TypeOK /\ Numbered
  BY DEF Init, TypeOK, Numbered
<1>2. IsFiniteSet(pending)
  BY FS_EmptySet DEF Init
<1>3. Cardinality(Unmatched(pending)) = 0
  <2>1. Unmatched(pending) = {}
    BY DEF Init, Unmatched
  <2>. QED  BY <2>1, FS_EmptySet
<1>4. Conservation
  BY <1>3 DEF Init, Conservation
<1>. QED  BY <1>1, <1>2, <1>4 DEF Inv

\* record_wakeup(): what it adds to `unnecessary' is what it takes from the
\* waiting records, the new one included.
LEMMA InvWakeup ==
  ASSUME Inv, NEW ts \in Times, NEW pid \in Pids, NEW cpu \in Cpus,
         record_wakeup(ts, pid, cpu)
  PROVE  Inv'
<1>. DEFINE new == [id |-> wakeups + 1, ts |-> ts, pid |-> pid, cpu |-> cpu,
                    matched |-> FALSE]
            waiting == Unmatched(pending \cup {new})
            expired == {w \in waiting : w.ts < Cutoff(ts)}
<1>1. /\ wakeups' = wakeups + 1 /\ pending' = waiting \ expired
      /\ unnecessary' = unnecessary + Cardinality(expired)
      /\ log' = Append(log, [op |-> "wakeup", ts |-> ts, pid |-> pid, cpu |-> cpu])
      /\ window' = window /\ correlated' = correlated
  BY DEF record_wakeup
<1>2. new \in Wakeup /\ new.id = wakeups + 1 /\ ~new.matched /\ new \notin pending
  BY DEF Inv, TypeOK, Numbered, Wakeup
<1>3. waiting = Unmatched(pending) \cup {new} /\ new \notin Unmatched(pending)
  BY <1>2 DEF Unmatched
<1>4. /\ IsFiniteSet(Unmatched(pending)) /\ IsFiniteSet(waiting)
      /\ Cardinality(waiting) = Cardinality(Unmatched(pending)) + 1
  <2>1. IsFiniteSet(Unmatched(pending))
    BY FS_Subset DEF Inv, Unmatched
  <2>. QED  BY <1>3, <2>1, FS_AddElement
<1>5. /\ IsFiniteSet(expired) /\ IsFiniteSet(waiting \ expired)
      /\ Cardinality(expired) \in Nat /\ Cardinality(waiting) \in Nat
      /\ Cardinality(waiting \ expired) = Cardinality(waiting) - Cardinality(expired)
  <2>1. IsFiniteSet(expired) /\ IsFiniteSet(waiting \ expired)
    BY <1>4, FS_Subset
  <2>2. waiting \cap expired = expired
    OBVIOUS
  <2>3. Cardinality(waiting \ expired) = Cardinality(waiting) - Cardinality(waiting \cap expired)
    BY <1>4, FS_Difference
  <2>. QED  BY <1>4, <2>1, <2>2, <2>3, FS_CardinalityType
<1>6. Unmatched(pending') = waiting \ expired
  BY <1>1 DEF Unmatched
<1>7. Cardinality(Unmatched(pending)) \in Nat
  BY <1>4, FS_CardinalityType
<1>. HIDE DEF new, waiting, expired
<1>8. TypeOK'
  <2>1. waiting \subseteq Wakeup
    BY <1>2, <1>3 DEF Inv, TypeOK, Unmatched
  <2>2. log' \in Seq(Call)
    BY <1>1 DEF Inv, TypeOK, Call
  <2>. QED  BY <1>1, <1>5, <2>1, <2>2 DEF Inv, TypeOK
<1>9. Numbered'
  <2>1. pending' \subseteq pending \cup {new}
    BY <1>1, <1>3 DEF Unmatched
  <2>2. wakeups \in Nat /\ \A w \in pending : w.id \in Nat
    BY DEF Inv, TypeOK, Wakeup
  <2>3. \A w \in pending' : w.id <= wakeups'
    BY <1>1, <1>2, <2>1, <2>2 DEF Inv, Numbered
  <2>4. \A w, x \in pending' : w.id = x.id => w = x
    BY <1>2, <2>1, <2>2 DEF Inv, Numbered
  <2>. QED  BY <2>3, <2>4 DEF Numbered
<1>10. Conservation'
  <2>1. Cardinality(Unmatched(pending')) = Cardinality(Unmatched(pending)) + 1 - Cardinality(expired)
    <3>1. Cardinality(Unmatched(pending')) = Cardinality(waiting \ expired)
      BY <1>6, Zenon
    <3>. QED  BY <1>4, <1>5, <1>7, <3>1
  <2>2. /\ wakeups = correlated + unnecessary + Cardinality(Unmatched(pending))
        /\ wakeups \in Nat /\ correlated \in Nat /\ unnecessary \in Nat
        /\ Cardinality(expired) \in Nat
    BY <1>5 DEF Inv, TypeOK, Conservation
  <2>3. wakeups' = correlated' + unnecessary' + Cardinality(Unmatched(pending'))
    BY <1>1, <1>7, <2>1, <2>2, SMTT(30)
  <2>. QED  BY <2>3 DEF Conservation
<1>. QED  BY <1>1, <1>5, <1>8, <1>9, <1>10 DEF Inv

\* record_switch(): marking one record moves one wakeup from waiting to
\* correlated.
LEMMA InvSwitch ==
  ASSUME Inv, NEW ts \in Times, NEW pid \in Pids, NEW cpu \in Cpus,
         record_switch(ts, cpu, pid)
  PROVE  Inv'
<1>1. /\ window' = window /\ wakeups' = wakeups /\ unnecessary' = unnecessary
      /\ log' = Append(log, [op |-> "switch", ts |-> ts, pid |-> pid, cpu |-> cpu])
  BY DEF record_switch
<1>2. log' \in Seq(Call)
  BY <1>1 DEF Inv, TypeOK, Call
<1>3. CASE UNCHANGED <<pending, correlated>>
  <2>1. Unmatched(pending') = Unmatched(pending)
    BY <1>3
  <2>. QED  BY <1>1, <1>2, <1>3, <2>1 DEF Inv, TypeOK, Numbered, Conservation
<1>4. ASSUME NEW w \in pending, ~w.matched,
             pending' = MarkMatched(pending, w), correlated' = correlated + 1
      PROVE  Inv'
  <2>. DEFINE m == [w EXCEPT !.matched = TRUE]
  <2>1. /\ w \in Wakeup /\ m \in Wakeup /\ m.matched /\ m.id = w.id
    BY DEF Inv, TypeOK, Wakeup
  <2>2. pending' = (pending \ {w}) \cup {m}
    BY <1>4 DEF MarkMatched
  <2>. HIDE DEF m
  <2>3. Unmatched(pending') = Unmatched(pending) \ {w} /\ w \in Unmatched(pending)
    BY <1>4, <2>1, <2>2 DEF Unmatched
  <2>4. /\ IsFiniteSet(pending')
        /\ IsFiniteSet(Unmatched(pending))
        /\ Cardinality(Unmatched(pending)) \in Nat
        /\ Cardinality(Unmatched(pending')) = Cardinality(Unmatched(pending)) - 1
    <3>1. IsFiniteSet(Unmatched(pending)) /\ IsFiniteSet(pending \ {w})
      BY FS_Subset DEF Inv, Unmatched
    <3>2. IsFiniteSet(pending')
      BY <2>2, <3>1, FS_AddElement
    <3>3. Cardinality(Unmatched(pending)) \in Nat
      BY <3>1, FS_CardinalityType
    <3>4. Cardinality(Unmatched(pending) \ {w}) = Cardinality(Unmatched(pending)) - 1
      BY <2>3, <3>1, FS_RemoveElement
    <3>. QED  BY <2>3, <3>1, <3>2, <3>3, <3>4, Zenon
  <2>5. Conservation'
    BY <1>1, <1>4, <2>4 DEF Inv, TypeOK, Conservation
  <2>6. Numbered'
    BY <1>1, <2>1, <2>2 DEF Inv, Numbered
  <2>7. TypeOK'
    BY <1>1, <1>2, <1>4, <2>1, <2>2 DEF Inv, TypeOK
  <2>. QED  BY <2>4, <2>5, <2>6, <2>7 DEF Inv
<1>. QED  BY <1>3, <1>4 DEF record_switch, Matches

\* Every call of the collector keeps the invariant.
LEMMA InvNext == Inv /\ [Next]_vars => Inv'
<1>. SUFFICES ASSUME Inv, [Next]_vars PROVE Inv'
  OBVIOUS
<1>1. ASSUME NEW w \in Windows, set_correlation_window_ns(w) PROVE Inv'
  <2>1. log' \in Seq(Call)
    BY <1>1 DEF Inv, TypeOK, Call, set_correlation_window_ns
  <2>2. Unmatched(pending') = Unmatched(pending)
    BY <1>1 DEF set_correlation_window_ns
  <2>. QED
    BY <1>1, <2>1, <2>2 DEF Inv, TypeOK, Numbered, Conservation, set_correlation_window_ns
<1>2. CASE UNCHANGED vars
  <2>1. Unmatched(pending') = Unmatched(pending)
    BY <1>2 DEF vars
  <2>. QED  BY <1>2, <2>1 DEF Inv, TypeOK, Numbered, Conservation, vars
<1>. QED  BY <1>1, <1>2, InvWakeup, InvSwitch DEF Next

\* The invariant holds after any sequence of calls of the collector.
THEOREM CorrelationInvariant == Spec => []Inv
BY InvInit, InvNext, PTL DEF Spec

\* The counters and records of the collector keep their types.
THEOREM CorrelationTypeOK == Spec => []TypeOK
<1>1. Inv => TypeOK
  BY DEF Inv
<1>. QED  BY <1>1, CorrelationInvariant, PTL

\* Every wakeup is matched, counted as unnecessary or still waiting, and only
\* one of these, after any sequence of record_wakeup(), record_switch() and
\* set_correlation_window_ns() calls with any timestamps.
THEOREM WakeupsConserved == Spec => []Conservation
<1>1. Inv => Conservation
  BY DEF Inv
<1>. QED  BY <1>1, CorrelationInvariant, PTL
-----------------------------------------------------------------------------
(* The greedy search is optimal.  The operators below are about a log l of *)
(* calls, a window v and the matching the collector has built so far: the  *)
(* wakeups D it has matched and the switch G[i] it gave to each.           *)

Wk(l) == {i \in DOMAIN l : l[i].op = "wakeup"}
Sw(l) == {i \in DOMAIN l : l[i].op = "switch"}

SameKey(l, i, j) == l[i].pid = l[j].pid /\ l[i].cpu = l[j].cpu

\* Answers, of a given log and window.
Can(l, v, i, j) ==
  i < j /\ SameKey(l, i, j) /\ l[j].ts \in l[i].ts .. l[i].ts + v

\* RegularFeed, of a given log.
Regular(l) ==
  /\ \A i \in DOMAIN l : l[i].ts \in Nat /\ l[i].op # "window"
  /\ \A i, j \in DOMAIN l : i < j => l[i].ts <= l[j].ts

\* G gives every wakeup of D a switch of its own.
Pairing(l, v, D, G) ==
  /\ D \subseteq Wk(l)
  /\ G \in [D -> Sw(l)]
  /\ \A i \in D : Can(l, v, i, G[i])
  /\ \A i, k \in D : G[i] = G[k] => i = k

\* The certificate of optimality: every pair that could be matched has its
\* wakeup in A or its switch spent on a matched wakeup outside A.  A cover of
\* Cardinality(D) calls leaves no room for a larger matching.
Covered(l, v, D, G, A) ==
  /\ A \subseteq D
  /\ \A i \in Wk(l), j \in Sw(l) :
       Can(l, v, i, j) => i \in A \/ \E k \in D \ A : G[k] = j

\* First in, first matched: a switch was not given past an older wakeup of its
\* task and CPU that it could have answered.
Fifo(l, v, D, G) ==
  \A i \in D, u \in Wk(l) \ D :
    u < i /\ SameKey(l, u, i) => ~Can(l, v, u, G[i])

\* No later switch can answer the wakeup of call u.
Late(l, v, u) == \E k \in DOMAIN l : l[u].ts + v < l[k].ts

\* at[w.id] is the call that made the waiting record w.  The waiting records
\* are the unmatched wakeups, in order, but for the late ones.
Listed(l, v, D, P, at) ==
  /\ at \in [Nat -> Nat]
  /\ \A w \in P : /\ w.id \in Nat
                  /\ at[w.id] \in Wk(l) \ D
                  /\ l[at[w.id]].ts = w.ts
                  /\ l[at[w.id]].pid = w.pid /\ l[at[w.id]].cpu = w.cpu
  /\ \A w, x \in P : w.id < x.id => at[w.id] < at[x.id]
  /\ \A u \in Wk(l) \ D : Late(l, v, u) \/ \E w \in P : at[w.id] = u

\* The log m is l and one more call.
Grows(l, m, n) ==
  /\ n \in Nat
  /\ DOMAIN l = 1 .. n /\ DOMAIN m = 1 .. n + 1
  /\ \A i \in 1 .. n : m[i] = l[i]

\* What a longer log says of the calls of a shorter one.
LEMMA GrowsKeeps ==
  ASSUME NEW l, NEW m, NEW n, Grows(l, m, n)
  PROVE  /\ n \in Nat /\ n + 1 \in DOMAIN m /\ n + 1 \notin DOMAIN l
         /\ DOMAIN l \subseteq Nat /\ DOMAIN l \subseteq DOMAIN m
         /\ \A i \in DOMAIN m : i \in DOMAIN l \/ i = n + 1
         /\ \A i \in DOMAIN l : m[i] = l[i] /\ i < n + 1 /\ ~(n + 1 < i)
         /\ Wk(l) \subseteq Wk(m) /\ Sw(l) \subseteq Sw(m)
         /\ Wk(l) \subseteq DOMAIN l /\ Sw(l) \subseteq DOMAIN l
         /\ \A i \in Wk(m) : i \in Wk(l) \/ i = n + 1
         /\ \A i \in Sw(m) : i \in Sw(l) \/ i = n + 1
<1>1. /\ n \in Nat /\ n + 1 \in DOMAIN m /\ n + 1 \notin DOMAIN l
      /\ DOMAIN l \subseteq Nat /\ DOMAIN l \subseteq DOMAIN m
      /\ \A i \in DOMAIN m : i \in DOMAIN l \/ i = n + 1
      /\ \A i \in DOMAIN l : m[i] = l[i] /\ i < n + 1 /\ ~(n + 1 < i)
  BY DEF Grows
<1>2. /\ Wk(l) \subseteq Wk(m) /\ Sw(l) \subseteq Sw(m)
      /\ Wk(l) \subseteq DOMAIN l /\ Sw(l) \subseteq DOMAIN l
      /\ \A i \in Wk(m) : i \in Wk(l) \/ i = n + 1
      /\ \A i \in Sw(m) : i \in Sw(l) \/ i = n + 1
  BY ONLY <1>1 DEF Wk, Sw
<1>. QED  BY ONLY <1>1, <1>2

\* What could answer what does not depend on later calls.
LEMMA GrowsCan ==
  ASSUME NEW l, NEW m, NEW n, Grows(l, m, n),
         NEW v, NEW i \in DOMAIN l, NEW j \in DOMAIN l
  PROVE  /\ Can(m, v, i, j) <=> Can(l, v, i, j)
         /\ SameKey(m, i, j) <=> SameKey(l, i, j)
<1>1. m[i] = l[i] /\ m[j] = l[j]
  BY GrowsKeeps
<1>. QED  BY ONLY <1>1 DEF Can, SameKey

\* The calls before the last of a regular log are regular.
LEMMA RegularPrefix ==
  ASSUME NEW l, NEW m, NEW n, Grows(l, m, n), Regular(m)
  PROVE  Regular(l)
BY DEF Grows, Regular

\* What was matched stays matched when another call is made.
LEMMA PairingKept ==
  ASSUME NEW l, NEW m, NEW n, NEW v, NEW D, NEW G,
         Grows(l, m, n), Pairing(l, v, D, G)
  PROVE  Pairing(m, v, D, G)
<1>1. \A i \in D : i \in DOMAIN l /\ G[i] \in DOMAIN l
  BY GrowsKeeps DEF Pairing
<1>2. \A i \in D : Can(m, v, i, G[i])
  BY <1>1, GrowsCan DEF Pairing
<1>3. D \subseteq Wk(m) /\ G \in [D -> Sw(m)]
  BY GrowsKeeps DEF Pairing
<1>. QED  BY <1>2, <1>3 DEF Pairing

\* A wakeup that is late stays late.
LEMMA LateKept ==
  ASSUME NEW l, NEW m, NEW n, NEW v, NEW u \in DOMAIN l,
         Grows(l, m, n), Late(l, v, u)
  PROVE  Late(m, v, u)
BY GrowsKeeps DEF Late

\* A late wakeup is beyond the reach of the last call of a regular log.
LEMMA LateBeyond ==
  ASSUME NEW l, NEW m, NEW n, NEW v \in Nat, NEW u \in DOMAIN l,
         Grows(l, m, n), Regular(m), Late(l, v, u)
  PROVE  ~Can(m, v, u, n + 1)
<1>1. PICK k \in DOMAIN l : l[u].ts + v < l[k].ts
  BY DEF Late
<1>2. m[u] = l[u] /\ m[k] = l[k] /\ k < n + 1 /\ k \in DOMAIN m /\ u \in DOMAIN m /\ n + 1 \in DOMAIN m
  BY GrowsKeeps
<1>3. m[k].ts <= m[n + 1].ts /\ m[k].ts \in Nat /\ m[u].ts \in Nat /\ m[n + 1].ts \in Nat
  BY <1>2 DEF Regular
<1>4. ~(m[n + 1].ts <= m[u].ts + v)
  BY <1>1, <1>2, <1>3
<1>. QED  BY <1>3, <1>4 DEF Can

\* In a regular log a wakeup between a call and the switch that can answer it,
\* of the same task and CPU, can have the switch instead.
LEMMA LaterWakeupReached ==
  ASSUME NEW l, NEW v \in Nat, Regular(l), DOMAIN l \subseteq Nat,
         NEW i \in DOMAIN l, NEW u \in DOMAIN l, NEW j \in DOMAIN l,
         Can(l, v, i, j), i <= u, u < j, SameKey(l, i, u)
  PROVE  Can(l, v, u, j)
<1>1. i \in Nat /\ u \in Nat /\ j \in Nat
  OBVIOUS
<1>2. l[i].ts \in Nat /\ l[u].ts \in Nat /\ l[j].ts \in Nat
  BY DEF Regular
<1>3. l[i].ts <= l[u].ts
  <2>1. CASE i = u
    BY <1>2, <2>1
  <2>2. CASE i < u
    BY <2>2 DEF Regular
  <2>. QED  BY <1>1, <2>1, <2>2
<1>4. l[u].ts <= l[j].ts
  BY DEF Regular
<1>5. l[j].ts <= l[i].ts + v
  BY <1>2 DEF Can
<1>6. l[j].ts \in l[u].ts .. l[u].ts + v
  BY ONLY v \in Nat, <1>2, <1>3, <1>4, <1>5
<1>. QED  BY <1>6 DEF Can, SameKey

\* A new call is no older wakeup than a matched one.
LEMMA FifoKept ==
  ASSUME NEW l, NEW m, NEW n, NEW v, NEW D, NEW G,
         Grows(l, m, n), Pairing(l, v, D, G), Fifo(l, v, D, G)
  PROVE  Fifo(m, v, D, G)
<1>1. ASSUME NEW i \in D, NEW u \in Wk(m) \ D, u < i, SameKey(m, u, i)
      PROVE  ~Can(m, v, u, G[i])
  <2>1. i \in DOMAIN l /\ G[i] \in DOMAIN l
    BY GrowsKeeps DEF Pairing
  <2>2. u \in Wk(l) \ D /\ u \in DOMAIN l
    BY <1>1, <2>1, GrowsKeeps
  <2>3. SameKey(l, u, i)
    BY <1>1, <2>1, <2>2, GrowsCan
  <2>4. ~Can(l, v, u, G[i])
    BY <1>1, <2>2, <2>3 DEF Fifo
  <2>. QED  BY <2>1, <2>2, <2>4, GrowsCan
<1>. QED  BY <1>1 DEF Fifo

\* record_wakeup(): the new wakeup can have no switch yet.
LEMMA CoveredWakeup ==
  ASSUME NEW l, NEW m, NEW n, NEW v, NEW D, NEW G, NEW A,
         Grows(l, m, n), n + 1 \notin Sw(m), Covered(l, v, D, G, A)
  PROVE  Covered(m, v, D, G, A)
<1>1. Sw(m) = Sw(l)
  <2>1. Sw(l) \subseteq Sw(m) /\ \A i \in Sw(m) : i \in Sw(l) \/ i = n + 1
    BY GrowsKeeps
  <2>. QED  BY ONLY <2>1, n + 1 \notin Sw(m)
<1>2. ASSUME NEW i \in Wk(m), NEW j \in Sw(m), Can(m, v, i, j)
      PROVE  i \in A \/ \E k \in D \ A : G[k] = j
  <2>1. j \in DOMAIN l /\ i < j
    BY <1>1, <1>2, GrowsKeeps DEF Can
  <2>2. i \in Wk(l)
    BY <2>1, GrowsKeeps
  <2>3. Can(l, v, i, j)
    BY <1>2, <2>1, <2>2, GrowsKeeps, GrowsCan
  <2>. QED  BY <1>1, <2>2, <2>3 DEF Covered
<1>3. A \subseteq D
  BY DEF Covered
<1>. QED  BY <1>2, <1>3 DEF Covered

\* record_wakeup(): the new record is the last, and what the prune
\* takes is late.
LEMMA ListedWakeup ==
  ASSUME NEW l, NEW m, NEW n, NEW v \in Nat, NEW D, NEW P, NEW at, NEW Q, NEW c, NEW k \in Nat,
         Grows(l, m, n), D \subseteq Wk(l), Listed(l, v, D, P, at),
         n + 1 \in Wk(m), c.id = k + 1,
         m[n + 1].ts = c.ts, m[n + 1].pid = c.pid, m[n + 1].cpu = c.cpu,
         \A w \in P : w.id <= k,
         Q \subseteq P \cup {c},
         \A w \in (P \cup {c}) \ Q : w.ts + v < c.ts
  PROVE  Listed(m, v, D, Q, [at EXCEPT ![k + 1] = n + 1])
<1>. DEFINE to == [at EXCEPT ![k + 1] = n + 1]
<1>1. k + 1 \in Nat /\ n + 1 \in Nat
  BY DEF Grows
<1>2. to \in [Nat -> Nat]
  BY <1>1 DEF Listed
<1>3. to[k + 1] = n + 1
  BY <1>1 DEF Listed
<1>4. \A w \in P : w.id \in Nat /\ w.id < k + 1 /\ to[w.id] = at[w.id]
  BY DEF Listed
<1>5. \A w \in P : at[w.id] \in Wk(l) /\ at[w.id] \in DOMAIN l
  BY GrowsKeeps DEF Listed
<1>. HIDE DEF to
<1>6. ASSUME NEW w \in Q
      PROVE  /\ w.id \in Nat
             /\ to[w.id] \in Wk(m) \ D
             /\ m[to[w.id]].ts = w.ts
             /\ m[to[w.id]].pid = w.pid /\ m[to[w.id]].cpu = w.cpu
  <2>1. CASE w \in P
    <3>1. to[w.id] \in Wk(m) \ D
      BY <1>4, <1>5, <2>1, GrowsKeeps DEF Listed
    <3>2. m[to[w.id]] = l[at[w.id]]
      BY <1>4, <1>5, <2>1, GrowsKeeps
    <3>. QED  BY <1>4, <2>1, <3>1, <3>2 DEF Listed
  <2>2. CASE w = c
    <3>1. n + 1 \notin D
      BY GrowsKeeps
    <3>. QED  BY <1>1, <1>3, <2>2, <3>1
  <2>. QED  BY <2>1, <2>2
<1>7. ASSUME NEW w \in Q, NEW x \in Q, w.id < x.id
      PROVE  to[w.id] < to[x.id]
  <2>1. CASE w \in P /\ x \in P
    BY <1>4, <1>7, <2>1 DEF Listed
  <2>2. CASE w \in P /\ x = c
    BY <1>3, <1>4, <1>5, <2>2, GrowsKeeps
  <2>3. CASE w = c
    <3>1. ~(k + 1 < x.id)
      <4>1. CASE x \in P
        BY <1>4, <4>1
      <4>2. CASE x = c
        BY <4>2
      <4>. QED  BY <4>1, <4>2
    <3>. QED  BY <1>7, <2>3, <3>1
  <2>. QED  BY <2>1, <2>2, <2>3
<1>8. ASSUME NEW w \in P \cup {c}, w \notin Q, NEW u \in DOMAIN m, m[u].ts = w.ts
      PROVE  Late(m, v, u)
  <2>1. w.ts + v < c.ts
    BY <1>8
  <2>2. n + 1 \in DOMAIN m
    BY GrowsKeeps
  <2>. QED  BY <1>8, <2>1, <2>2 DEF Late
<1>9. ASSUME NEW u \in Wk(m) \ D
      PROVE  Late(m, v, u) \/ \E w \in Q : to[w.id] = u
  <2>0. u \in DOMAIN m
    BY DEF Wk
  <2>1. CASE u = n + 1
    BY <1>3, <1>8, <2>0, <2>1
  <2>2. CASE u \in Wk(l)
    <3>1. u \in DOMAIN l /\ m[u] = l[u]
      BY <2>2, GrowsKeeps
    <3>2. CASE Late(l, v, u)
      BY <3>1, <3>2, LateKept
    <3>3. CASE \E w \in P : at[w.id] = u
      <4>1. PICK w \in P : at[w.id] = u
        BY <3>3
      <4>2. to[w.id] = u
        BY <1>4, <4>1
      <4>3. m[u].ts = w.ts
        BY <3>1, <4>1 DEF Listed
      <4>. QED  BY <1>8, <2>0, <4>2, <4>3
    <3>. QED  BY <2>2, <3>2, <3>3 DEF Listed
  <2>. QED  BY <2>1, <2>2, GrowsKeeps
<1>10. Listed(m, v, D, Q, to)
  BY <1>2, <1>6, <1>7, <1>9 DEF Listed
<1>. QED  BY <1>10 DEF to

\* record_switch() that marks the record of call b: a wakeup of its own for the
\* switch, and the older ones that still wait cannot be answered by it.
LEMMA SwitchMatched ==
  ASSUME NEW l, NEW m, NEW n, NEW v, NEW D, NEW G, NEW A, NEW b,
         Grows(l, m, n), n + 1 \in Sw(m), n + 1 \notin Wk(m),
         Pairing(l, v, D, G), Covered(l, v, D, G, A), Fifo(l, v, D, G),
         b \in Wk(l) \ D, Can(m, v, b, n + 1),
         \A u \in Wk(l) \ D : u < b => ~Can(m, v, u, n + 1)
  PROVE  \E H : /\ Pairing(m, v, D \cup {b}, H)
                /\ Covered(m, v, D \cup {b}, H, A)
                /\ Fifo(m, v, D \cup {b}, H)
<1>. DEFINE E == D \cup {b}
            H == [i \in E |-> IF i = b THEN n + 1 ELSE G[i]]
<1>1. \A i \in D : H[i] = G[i] /\ i # b
  OBVIOUS
<1>2. H[b] = n + 1
  OBVIOUS
<1>3. \A i \in D : /\ i \in DOMAIN l /\ G[i] \in DOMAIN l /\ G[i] # n + 1
                   /\ G[i] \in Sw(l) /\ G[i] \in Sw(m)
  BY GrowsKeeps DEF Pairing
<1>4. b \in DOMAIN l /\ b \in Wk(m)
  BY GrowsKeeps
<1>5. H \in [E -> Sw(m)]
  BY <1>3
<1>6. \A i \in E : i \in D \/ i = b
  OBVIOUS
<1>. HIDE DEF H
<1>7. Pairing(m, v, E, H)
  <2>1. E \subseteq Wk(m)
    BY <1>4, GrowsKeeps DEF Pairing
  <2>2. ASSUME NEW i \in E PROVE Can(m, v, i, H[i])
    <3>1. CASE i \in D
      <4>1. Can(l, v, i, G[i])
        BY <3>1 DEF Pairing
      <4>. QED  BY <1>1, <1>3, <3>1, <4>1, GrowsCan
    <3>. QED  BY <1>2, <1>6, <3>1
  <2>3. ASSUME NEW i \in E, NEW k \in E, H[i] = H[k] PROVE i = k
    <3>1. CASE i \in D /\ k \in D
      BY <1>1, <2>3, <3>1 DEF Pairing
    <3>. QED  BY <1>1, <1>2, <1>3, <1>6, <2>3, <3>1
  <2>. QED  BY <1>5, <2>1, <2>2, <2>3 DEF Pairing
<1>8. Covered(m, v, E, H, A)
  <2>1. A \subseteq D
    BY DEF Covered
  <2>2. ASSUME NEW i \in Wk(m), NEW j \in Sw(m), Can(m, v, i, j), i \notin A
        PROVE  \E k \in E \ A : H[k] = j
    <3>1. CASE j = n + 1
      <4>1. b \in E \ A
        BY <2>1
      <4>. QED  BY <1>2, <3>1, <4>1
    <3>2. CASE j \in Sw(l)
      <4>1. i \in Wk(l)
        BY GrowsKeeps
      <4>2. i \in DOMAIN l /\ j \in DOMAIN l
        BY <3>2, <4>1, GrowsKeeps
      <4>3. Can(l, v, i, j)
        BY <2>2, <4>2, GrowsCan
      <4>4. PICK k \in D \ A : G[k] = j
        BY <2>2, <3>2, <4>1, <4>3 DEF Covered
      <4>5. k \in E \ A /\ H[k] = j
        BY <1>1, <4>4
      <4>. QED  BY <4>5
    <3>. QED  BY <3>1, <3>2, GrowsKeeps
  <2>. QED  BY <2>1, <2>2 DEF Covered
<1>9. Fifo(m, v, E, H)
  <2>1. ASSUME NEW i \in E, NEW u \in Wk(m) \ E, u < i, SameKey(m, u, i)
        PROVE  ~Can(m, v, u, H[i])
    <3>1. u \in Wk(l) \ D /\ u \in DOMAIN l
      BY GrowsKeeps
    <3>2. CASE i = b
      BY <1>2, <2>1, <3>1, <3>2
    <3>3. CASE i \in D
      <4>1. SameKey(l, u, i)
        BY <1>3, <2>1, <3>1, <3>3, GrowsCan
      <4>2. ~Can(l, v, u, G[i])
        BY <2>1, <3>1, <3>3, <4>1 DEF Fifo
      <4>. QED  BY <1>1, <1>3, <3>1, <3>3, <4>2, GrowsCan
    <3>. QED  BY <1>6, <3>2, <3>3
  <2>. QED  BY <2>1 DEF Fifo
<1>. QED  BY <1>7, <1>8, <1>9

\* record_switch() that finds nothing: the switch had only wakeups to answer
\* that are matched and newer than every one still waiting, so those of its key
\* join the cover in place of their switches.
LEMMA SwitchMissed ==
  ASSUME NEW l, NEW m, NEW n, NEW v \in Nat, NEW D, NEW G, NEW A,
         Grows(l, m, n), Regular(m), n + 1 \notin Wk(m),
         Pairing(l, v, D, G), Covered(l, v, D, G, A), Fifo(l, v, D, G),
         \A u \in Wk(l) \ D : ~Can(m, v, u, n + 1)
  PROVE  \E B : Covered(m, v, D, G, B)
<1>. DEFINE s == n + 1
            Front == {i \in D : /\ SameKey(m, i, s)
                                /\ \A u \in Wk(l) \ D : SameKey(m, u, s) => u < i}
            B == A \cup Front
<1>1. /\ A \subseteq D /\ D \subseteq Wk(l) /\ B \subseteq D
      /\ \A i \in Front : SameKey(m, i, s)
  BY DEF Covered, Pairing
<1>2. /\ DOMAIN m \subseteq Nat /\ s \in DOMAIN m /\ s \in Nat
      /\ \A i \in Wk(m) : i \in Wk(l)
      /\ \A i \in Wk(l) : i \in DOMAIN l /\ i \in DOMAIN m /\ i \in Nat /\ i < s
  <2>1. DOMAIN m \subseteq Nat /\ s \in Nat
    BY DEF Grows
  <2>2. \A i \in Wk(m) : i \in Wk(l)
    BY GrowsKeeps
  <2>. QED  BY <2>1, <2>2, GrowsKeeps
<1>3. ASSUME NEW i \in Wk(l), Can(m, v, i, s)
      PROVE  i \in B
  <2>1. i \in D
    BY <1>3
  <2>2. SameKey(m, i, s)
    BY <1>3 DEF Can
  <2>3. ASSUME NEW u \in Wk(l) \ D, SameKey(m, u, s)
        PROVE  u < i
    <3>1. ~Can(m, v, u, s)
      OBVIOUS
    <3>2. SameKey(m, i, u)
      BY <2>2, <2>3 DEF SameKey
    <3>3. ~(i <= u)
      BY <1>2, <1>3, <3>1, <3>2, LaterWakeupReached
    <3>. QED  BY <1>2, <3>3
  <2>. QED  BY <2>1, <2>2, <2>3
<1>4. ASSUME NEW i \in Wk(l), NEW j \in Sw(l), Can(m, v, i, j), i \notin B
      PROVE  \E k \in D \ B : G[k] = j
  <2>1. i \in DOMAIN l /\ j \in DOMAIN l /\ j \in DOMAIN m
    BY GrowsKeeps
  <2>2. Can(l, v, i, j)
    BY <1>4, <2>1, GrowsCan
  <2>3. PICK k \in D \ A : G[k] = j
    BY <1>4, <2>2 DEF Covered
  <2>4. ASSUME k \in Front PROVE FALSE
    <3>1. SameKey(m, k, s) /\ \A u \in Wk(l) \ D : SameKey(m, u, s) => u < k
      BY <2>4
    <3>2. Can(l, v, k, j) /\ k \in DOMAIN l
      BY <1>1, <1>2, <2>3 DEF Pairing
    <3>3. Can(m, v, k, j)
      BY <2>1, <3>2, GrowsCan
    <3>4. SameKey(m, i, k) /\ SameKey(m, i, s) /\ k < j
      BY <1>4, <3>1, <3>3 DEF Can, SameKey
    <3>5. PICK u \in Wk(l) \ D : SameKey(m, u, s) /\ ~(u < i)
      <4>1. CASE i \in D
        BY <1>4, <3>4, <4>1
      <4>2. CASE i \notin D
        BY <1>2, <3>4, <4>2
      <4>. QED  BY <4>1, <4>2
    <3>6. u < k
      BY <3>1, <3>5
    <3>7. /\ u \in DOMAIN m /\ u \in DOMAIN l /\ i \in DOMAIN m
          /\ i \in Nat /\ u \in Nat /\ k \in Nat /\ j \in Nat
      BY <1>1, <1>2, <2>1, <2>3
    <3>8. i <= u /\ u < j
      BY <3>4, <3>5, <3>6, <3>7
    <3>9. SameKey(m, i, u) /\ SameKey(m, u, k)
      BY <3>1, <3>4, <3>5 DEF SameKey
    <3>10. Can(m, v, u, j)
      BY <1>2, <1>4, <2>1, <3>7, <3>8, <3>9, LaterWakeupReached
    <3>11. Can(l, v, u, j) /\ SameKey(l, u, k)
      BY <2>1, <3>2, <3>7, <3>9, <3>10, GrowsCan
    <3>12. ~Can(l, v, u, G[k])
      BY <2>3, <3>6, <3>11 DEF Fifo
    <3>. QED  BY <2>3, <3>11, <3>12
  <2>. QED  BY <2>3, <2>4
<1>5. ASSUME NEW i \in Wk(m), NEW j \in Sw(m), Can(m, v, i, j), i \notin B
      PROVE  \E k \in D \ B : G[k] = j
  <2>1. i \in Wk(l)
    BY <1>2
  <2>2. j \in Sw(l)
    <3>1. j # s
      BY <1>3, <1>5, <2>1
    <3>. QED  BY <3>1, GrowsKeeps
  <2>. QED  BY <1>4, <1>5, <2>1, <2>2
<1>6. Covered(m, v, D, G, B)
  BY <1>1, <1>5 DEF Covered
<1>. QED  BY <1>6

\* record_switch() takes from the waiting records those it matches and no other.
LEMMA ListedSwitch ==
  ASSUME NEW l, NEW m, NEW n, NEW v, NEW D, NEW P, NEW at, NEW E, NEW Q,
         Grows(l, m, n), n + 1 \notin Wk(m), Listed(l, v, D, P, at),
         D \subseteq E, Q \subseteq P,
         \A x \in Q : at[x.id] \notin E,
         \A x \in P \ Q : at[x.id] \in E
  PROVE  Listed(m, v, E, Q, at)
<1>1. at \in [Nat -> Nat]
  BY DEF Listed
<1>2. ASSUME NEW w \in Q
      PROVE  /\ w.id \in Nat
             /\ at[w.id] \in Wk(m) \ E
             /\ m[at[w.id]].ts = w.ts
             /\ m[at[w.id]].pid = w.pid /\ m[at[w.id]].cpu = w.cpu
  <2>1. w \in P /\ at[w.id] \in Wk(l) /\ at[w.id] \notin E
    BY DEF Listed
  <2>2. at[w.id] \in Wk(m) /\ m[at[w.id]] = l[at[w.id]]
    BY <2>1, GrowsKeeps
  <2>. QED  BY <2>1, <2>2 DEF Listed
<1>3. \A w, x \in Q : w.id < x.id => at[w.id] < at[x.id]
  BY DEF Listed
<1>4. ASSUME NEW u \in Wk(m) \ E
      PROVE  Late(m, v, u) \/ \E w \in Q : at[w.id] = u
  <2>1. u \in Wk(l) \ D /\ u \in DOMAIN l
    BY GrowsKeeps
  <2>2. CASE Late(l, v, u)
    BY <2>1, <2>2, LateKept
  <2>3. CASE \E w \in P : at[w.id] = u
    BY <2>3
  <2>. QED  BY <2>1, <2>2, <2>3 DEF Listed
<1>. QED  BY <1>1, <1>2, <1>3, <1>4 DEF Listed

\* A cover of Cardinality(D) calls bounds every matching: a wakeup of A stands
\* for itself, another one for the wakeup its switch was given to.
LEMMA CoverBounds ==
  ASSUME NEW l, NEW v, NEW D, NEW G, NEW A, NEW S, NEW f,
         IsFiniteSet(D), Covered(l, v, D, G, A),
         S \subseteq Wk(l), f \in [S -> Sw(l)],
         \A i \in S : Can(l, v, i, f[i]),
         \A i, k \in S : f[i] = f[k] => i = k
  PROVE  Cardinality(S) <= Cardinality(D)
<1>. DEFINE h == [i \in S |-> IF i \in A THEN i
                              ELSE CHOOSE k \in D \ A : G[k] = f[i]]
<1>1. A \subseteq D
  BY DEF Covered
<1>2. \A i \in S : i \notin A => \E k \in D \ A : G[k] = f[i]
  BY DEF Covered
<1>3. \A i \in S : i \in A => h[i] = i
  OBVIOUS
<1>4. ASSUME NEW i \in S, i \notin A
      PROVE  h[i] \in D \ A /\ G[h[i]] = f[i]
  <2>1. h[i] = CHOOSE k \in D \ A : G[k] = f[i]
    BY <1>4
  <2>2. \E k \in D \ A : G[k] = f[i]
    BY <1>2, <1>4
  <2>. HIDE DEF h
  <2>. QED  BY <2>1, <2>2
<1>5. DOMAIN h = S /\ h = [i \in S |-> h[i]]
  OBVIOUS
<1>. HIDE DEF h
<1>6. \A i \in S : h[i] \in D
  BY <1>1, <1>3, <1>4
<1>7. h \in [S -> D]
  BY <1>5, <1>6
<1>8. ASSUME NEW i \in S, NEW k \in S, h[i] = h[k] PROVE i = k
  <2>1. CASE i \in A
    BY <1>3, <1>4, <1>8, <2>1
  <2>2. CASE i \notin A
    <3>1. k \notin A
      BY <1>3, <1>4, <1>8, <2>2
    <3>2. f[i] = f[k]
      BY <1>4, <1>8, <2>2, <3>1
    <3>. QED  BY <3>2
  <2>. QED  BY <2>1, <2>2
<1>9. h \in Injection(S, D)
  BY <1>7, <1>8 DEF Injection, IsInjective
<1>. QED  BY <1>9, FS_Injection

\* What the collector has done with the log l: c wakeups matched, those of P
\* waiting.
Accounts(l, v, P, c) ==
  \E D, G, A, at :
    /\ IsFiniteSet(D) /\ Cardinality(D) = c
    /\ Pairing(l, v, D, G)
    /\ Covered(l, v, D, G, A)
    /\ Fifo(l, v, D, G)
    /\ Listed(l, v, D, P, at)

\* A regular feed: the records are of the last window, the matching optimal.
Greedy ==
  Regular(log) =>
    /\ \A w \in pending, i \in Wk(log) : w.ts + window >= log[i].ts
    /\ Accounts(log, window, Unmatched(pending), correlated)

\* A regular feed in the words of the invariant.
LEMMA FeedIsRegular ==
  ASSUME TypeOK
  PROVE  RegularFeed => Regular(log)
<1>. SUFFICES ASSUME RegularFeed PROVE Regular(log)
  OBVIOUS
<1>1. \A i \in DOMAIN log : log[i].op # "window"
  BY DEF RegularFeed, Calls
<1>2. \A i \in DOMAIN log : log[i] \in Call
  BY DEF TypeOK
<1>3. \A c \in Call : c.op # "window" => c.ts \in Nat
  BY CorrelationAssumption DEF Call
<1>. QED  BY <1>1, <1>2, <1>3 DEF Regular, RegularFeed

\* What was to be shown: a matching of that size exists and none is larger.
LEMMA GreedyOptimal ==
  ASSUME TypeOK, Greedy
  PROVE  GreedyIsOptimal
<1>. SUFFICES ASSUME RegularFeed
              PROVE  /\ Matchable(correlated) /\ ~Matchable(correlated + 1)
                     /\ \A w \in pending, i \in Calls("wakeup") : w.ts + window >= log[i].ts
  BY DEF GreedyIsOptimal
<1>1. Regular(log)
  BY FeedIsRegular
<1>2. Calls("wakeup") = Wk(log) /\ Calls("switch") = Sw(log)
  BY DEF Calls, Wk, Sw
<1>3. \A i, j : Answers(i, j) <=> Can(log, window, i, j)
  BY DEF Answers, Can, SameKey
<1>4. PICK D, G, A, at : /\ IsFiniteSet(D) /\ Cardinality(D) = correlated
                         /\ Pairing(log, window, D, G)
                         /\ Covered(log, window, D, G, A)
  BY <1>1 DEF Greedy, Accounts
<1>5. Matchable(correlated)
  <2>1. D \in SUBSET Wk(log) /\ G \in [D -> Sw(log)]
    BY <1>4 DEF Pairing
  <2>2. \A i \in D : Answers(i, G[i])
    BY <1>3, <1>4 DEF Pairing
  <2>3. \A i, k \in D : G[i] = G[k] => i = k
    BY <1>4 DEF Pairing
  <2>. QED  BY <1>2, <1>4, <2>1, <2>2, <2>3 DEF Matchable
<1>6. ASSUME Matchable(correlated + 1) PROVE FALSE
  <2>1. PICK S \in SUBSET Calls("wakeup") :
          /\ Cardinality(S) = correlated + 1
          /\ \E f \in [S -> Calls("switch")] :
               /\ \A i \in S : Answers(i, f[i])
               /\ \A i, k \in S : f[i] = f[k] => i = k
    BY <1>6 DEF Matchable
  <2>2. PICK f \in [S -> Calls("switch")] :
          /\ \A i \in S : Answers(i, f[i])
          /\ \A i, k \in S : f[i] = f[k] => i = k
    BY <2>1
  <2>3. /\ S \subseteq Wk(log) /\ f \in [S -> Sw(log)]
        /\ \A i \in S : Can(log, window, i, f[i])
    BY <1>2, <1>3, <2>2
  <2>4. Cardinality(S) <= Cardinality(D)
    BY <1>4, <2>2, <2>3, CoverBounds
  <2>. QED  BY <1>4, <2>1, <2>4 DEF TypeOK
<1>. QED  BY <1>1, <1>2, <1>5, <1>6 DEF Greedy

\* An appended call, in the terms of Grows.
LEMMA LogGrows ==
  ASSUME TypeOK, NEW c \in Call, log' = Append(log, c)
  PROVE  Grows(log, log', Len(log)) /\ log'[Len(log) + 1] = c
BY DEF TypeOK, Grows

\* A collector that has seen nothing has nothing to match.
LEMMA GreedyInit == Init => Greedy
<1>. SUFFICES ASSUME Init PROVE Greedy
  OBVIOUS
<1>. DEFINE at == [i \in Nat |-> 0]
            G == [i \in {} |-> 0]
<1>1. Wk(log) = {} /\ Sw(log) = {} /\ Unmatched(pending) = {} /\ pending = {}
  BY DEF Init, Wk, Sw, Unmatched
<1>2. IsFiniteSet({}) /\ Cardinality({}) = correlated
  BY FS_EmptySet DEF Init
<1>3. at \in [Nat -> Nat] /\ G \in [{} -> Sw(log)]
  OBVIOUS
<1>. HIDE DEF at, G
<1>4. Pairing(log, window, {}, G) /\ Covered(log, window, {}, G, {}) /\ Fifo(log, window, {}, G)
  BY <1>1, <1>3 DEF Pairing, Covered, Fifo
<1>5. Listed(log, window, {}, Unmatched(pending), at)
  BY <1>1, <1>3 DEF Listed
<1>6. Accounts(log, window, Unmatched(pending), correlated)
  BY <1>2, <1>4, <1>5 DEF Accounts
<1>. QED  BY <1>1, <1>6 DEF Greedy

\* record_wakeup() keeps the matching and prunes only what is late.
LEMMA GreedyWakeup ==
  ASSUME Inv, Greedy, NEW ts \in Times, NEW pid \in Pids, NEW cpu \in Cpus,
         record_wakeup(ts, pid, cpu)
  PROVE  Greedy'
<1>. SUFFICES ASSUME Regular(log')
              PROVE  /\ \A w \in pending', i \in Wk(log') : w.ts + window' >= log'[i].ts
                     /\ Accounts(log', window', Unmatched(pending'), correlated')
  BY DEF Greedy
<1>. DEFINE c == [id |-> wakeups + 1, ts |-> ts, pid |-> pid, cpu |-> cpu,
                  matched |-> FALSE]
            call == [op |-> "wakeup", ts |-> ts, pid |-> pid, cpu |-> cpu]
            waiting == Unmatched(pending \cup {c})
            expired == {w \in waiting : w.ts < Cutoff(ts)}
            n == Len(log)
            P == Unmatched(pending)
            Q == Unmatched(pending')
<1>1. /\ pending' = waiting \ expired /\ window' = window /\ correlated' = correlated
      /\ log' = Append(log, call)
  BY DEF record_wakeup
<1>2. /\ call \in Call /\ call.op = "wakeup" /\ call.ts = ts
      /\ call.pid = pid /\ call.cpu = cpu
  BY DEF Call
<1>3. Grows(log, log', n) /\ log'[n + 1] = call
  BY <1>1, <1>2, LogGrows DEF Inv
<1>4. Regular(log)
  BY <1>3, RegularPrefix
<1>5. /\ c.id = wakeups + 1 /\ c.ts = ts /\ c.pid = pid /\ c.cpu = cpu /\ ~c.matched
  OBVIOUS
<1>6. window \in Nat /\ ts \in Nat /\ wakeups \in Nat
  BY CorrelationAssumption DEF Inv, TypeOK
<1>7. n + 1 \in Wk(log') /\ n + 1 \notin Sw(log')
  BY <1>2, <1>3, GrowsKeeps DEF Wk, Sw
<1>8. \A w \in pending \cup {c} : w.ts \in Nat
  BY <1>5, <1>6, CorrelationAssumption DEF Inv, TypeOK, Wakeup
<1>9. waiting = P \cup {c} /\ waiting \subseteq pending \cup {c} /\ Q = waiting \ expired
  BY <1>1, <1>5 DEF Unmatched
<1>10. \A w \in expired : w \in waiting /\ w.ts < Cutoff(ts)
  OBVIOUS
<1>11. \A w \in waiting \ expired : ~(w.ts < Cutoff(ts))
  OBVIOUS
<1>. HIDE DEF c, call, waiting, expired
<1>12. \A w \in expired : w.ts + window < ts
  <2>. SUFFICES ASSUME NEW w \in expired PROVE w.ts + window < ts
    OBVIOUS
  <2>1. w.ts \in Nat /\ w.ts < Cutoff(ts)
    BY <1>8, <1>9, <1>10
  <2>. QED  BY <1>6, <2>1 DEF Cutoff
<1>13. \A w \in pending', i \in Wk(log') : w.ts + window' >= log'[i].ts
  <2>. SUFFICES ASSUME NEW w \in pending', NEW i \in Wk(log')
                PROVE  w.ts + window >= log'[i].ts
    BY <1>1
  <2>1. w.ts \in Nat /\ ~(w.ts < Cutoff(ts))
    BY <1>1, <1>8, <1>9, <1>11
  <2>2. w.ts + window >= ts
    BY <1>6, <2>1 DEF Cutoff
  <2>3. i \in DOMAIN log' /\ (i = n + 1 \/ i < n + 1) /\ n + 1 \in DOMAIN log'
    BY <1>3, GrowsKeeps DEF Wk
  <2>4. log'[i].ts \in Nat /\ log'[i].ts <= ts
    BY <1>2, <1>3, <1>6, <2>3 DEF Regular
  <2>. QED  BY <1>6, <2>1, <2>2, <2>4
<1>14. PICK D, G, A, at : /\ IsFiniteSet(D) /\ Cardinality(D) = correlated
                          /\ Pairing(log, window, D, G)
                          /\ Covered(log, window, D, G, A)
                          /\ Fifo(log, window, D, G)
                          /\ Listed(log, window, D, P, at)
  BY <1>4 DEF Greedy, Accounts
<1>15. Pairing(log', window, D, G)
  BY <1>3, <1>14, PairingKept
<1>16. Covered(log', window, D, G, A)
  BY <1>3, <1>7, <1>14, CoveredWakeup
<1>17. Fifo(log', window, D, G)
  BY <1>3, <1>14, FifoKept
<1>18. Listed(log', window, D, Q, [at EXCEPT ![wakeups + 1] = n + 1])
  <2>1. D \subseteq Wk(log)
    BY <1>14 DEF Pairing
  <2>2. log'[n + 1].ts = c.ts /\ log'[n + 1].pid = c.pid /\ log'[n + 1].cpu = c.cpu
    BY <1>2, <1>3, <1>5
  <2>3. \A w \in P : w.id <= wakeups
    BY DEF Inv, Numbered, Unmatched
  <2>4. Q \subseteq P \cup {c}
    BY <1>9
  <2>5. \A w \in (P \cup {c}) \ Q : w.ts + window < c.ts
    BY <1>5, <1>9, <1>12
  <2>. HIDE DEF P, Q, n
  <2>. QED  BY <1>3, <1>5, <1>6, <1>7, <1>14, <2>1, <2>2, <2>3, <2>4, <2>5, ListedWakeup
<1>19. Accounts(log', window', Unmatched(pending'), correlated')
  BY <1>1, <1>14, <1>15, <1>16, <1>17, <1>18 DEF Accounts
<1>. QED  BY <1>13, <1>19

\* Matches, said of the call that made the waiting record x.
LEMMA MatchesIsCan ==
  ASSUME NEW l, NEW m, NEW n, NEW D, NEW P, NEW at, NEW x \in P,
         window \in Nat, NEW ts \in Nat, NEW pid, NEW cpu,
         Grows(l, m, n), Regular(m), Listed(l, window, D, P, at), ~x.matched,
         m[n + 1].ts = ts, m[n + 1].pid = pid, m[n + 1].cpu = cpu
  PROVE  Can(m, window, at[x.id], n + 1) <=> Matches(x, ts, cpu, pid)
<1>. DEFINE b == at[x.id]
<1>1. /\ b \in Wk(l) /\ l[b].ts = x.ts /\ l[b].pid = x.pid /\ l[b].cpu = x.cpu
  BY DEF Listed
<1>. HIDE DEF b
<1>2. /\ m[b] = l[b] /\ b < n + 1 /\ b \in DOMAIN m /\ n + 1 \in DOMAIN m
  BY <1>1, GrowsKeeps
<1>3. x.ts \in Nat /\ x.ts <= ts
  BY <1>1, <1>2 DEF Regular
<1>4. Can(m, window, b, n + 1) <=> /\ x.pid = pid /\ x.cpu = cpu
                                   /\ ts \in x.ts .. x.ts + window
  BY <1>1, <1>2 DEF Can, SameKey
<1>5. ts \in x.ts .. x.ts + window <=> ts >= x.ts /\ ts - x.ts <= window
  BY <1>3
<1>6. Can(m, window, b, n + 1) <=> Matches(x, ts, cpu, pid)
  BY <1>4, <1>5 DEF Matches
<1>. QED  BY <1>6 DEF b

\* record_switch(), matched or not, keeps the matching optimal.
LEMMA GreedySwitch ==
  ASSUME Inv, Greedy, NEW ts \in Times, NEW pid \in Pids, NEW cpu \in Cpus,
         record_switch(ts, cpu, pid)
  PROVE  Greedy'
<1>. SUFFICES ASSUME Regular(log')
              PROVE  /\ \A w \in pending', i \in Wk(log') : w.ts + window' >= log'[i].ts
                     /\ Accounts(log', window', Unmatched(pending'), correlated')
  BY DEF Greedy
<1>. DEFINE call == [op |-> "switch", ts |-> ts, pid |-> pid, cpu |-> cpu]
            n == Len(log)
            P == Unmatched(pending)
            answered == {w \in pending : Matches(w, ts, cpu, pid)}
<1>1. window' = window /\ log' = Append(log, call)
  BY DEF record_switch
<1>2. /\ call \in Call /\ call.op = "switch" /\ call.ts = ts
      /\ call.pid = pid /\ call.cpu = cpu
  BY DEF Call
<1>. HIDE DEF call
<1>3. Grows(log, log', n) /\ log'[n + 1] = call
  BY <1>1, <1>2, LogGrows DEF Inv
<1>. HIDE DEF n
<1>4. Regular(log)
  BY <1>3, RegularPrefix
<1>5. n + 1 \in Sw(log') /\ n + 1 \notin Wk(log')
  BY <1>2, <1>3, GrowsKeeps DEF Wk, Sw
<1>6. window \in Nat /\ ts \in Nat /\ correlated \in Nat
  BY CorrelationAssumption DEF Inv, TypeOK
<1>7. PICK D, G, A, at : /\ IsFiniteSet(D) /\ Cardinality(D) = correlated
                         /\ Pairing(log, window, D, G)
                         /\ Covered(log, window, D, G, A)
                         /\ Fifo(log, window, D, G)
                         /\ Listed(log, window, D, P, at)
  BY <1>4 DEF Greedy, Accounts
<1>8. /\ \A w \in P : w \in pending /\ ~w.matched
      /\ \A w \in pending : ~w.matched => w \in P
  BY DEF Unmatched
<1>. HIDE DEF P
<1>9. ASSUME NEW x \in P
      PROVE  Can(log', window, at[x.id], n + 1) <=> Matches(x, ts, cpu, pid)
  <2>1. log'[n + 1].ts = ts /\ log'[n + 1].pid = pid /\ log'[n + 1].cpu = cpu
    BY <1>2, <1>3
  <2>. QED  BY <1>3, <1>6, <1>7, <1>8, <2>1, MatchesIsCan
<1>10. ASSUME NEW u \in Wk(log) \ D, Can(log', window, u, n + 1)
       PROVE  \E x \in P : at[x.id] = u /\ x \in answered
  <2>1. u \in DOMAIN log
    BY DEF Wk
  <2>2. ~Late(log, window, u)
    BY <1>3, <1>6, <1>10, <2>1, LateBeyond
  <2>3. PICK x \in P : at[x.id] = u
    BY <1>7, <2>2 DEF Listed
  <2>. QED  BY <1>8, <1>9, <1>10, <2>3
<1>11. ASSUME NEW Q, \A w \in Q : \E x \in pending : w.ts = x.ts
       PROVE  \A w \in Q, i \in Wk(log') : w.ts + window' >= log'[i].ts
  <2>. SUFFICES ASSUME NEW w \in Q, NEW i \in Wk(log')
                PROVE  w.ts + window >= log'[i].ts
    BY <1>1
  <2>1. i \in Wk(log)
    BY <1>3, <1>5, GrowsKeeps
  <2>2. log'[i] = log[i]
    BY <1>3, <2>1, GrowsKeeps
  <2>3. PICK x \in pending : w.ts = x.ts
    BY <1>11
  <2>4. x.ts + window >= log[i].ts
    BY <1>4, <2>1 DEF Greedy
  <2>. QED  BY <2>2, <2>3, <2>4
<1>12. CASE answered = {} /\ UNCHANGED <<pending, correlated>>
  <2>1. \A w \in pending', i \in Wk(log') : w.ts + window' >= log'[i].ts
    BY <1>11, <1>12
  <2>2. \A u \in Wk(log) \ D : ~Can(log', window, u, n + 1)
    BY <1>10, <1>12
  <2>3. \E B : Covered(log', window, D, G, B)
    BY <1>3, <1>5, <1>6, <1>7, <2>2, SwitchMissed
  <2>4. Pairing(log', window, D, G) /\ Fifo(log', window, D, G)
    BY <1>3, <1>7, PairingKept, FifoKept
  <2>5. Listed(log', window, D, P, at)
    <3>1. \A x \in P : at[x.id] \notin D
      BY <1>7 DEF Listed
    <3>. QED  BY <1>3, <1>5, <1>7, <3>1, ListedSwitch
  <2>6. Unmatched(pending') = P /\ window' = window /\ correlated' = correlated
    BY <1>1, <1>12 DEF P
  <2>7. Accounts(log', window, P, correlated)
    BY <1>7, <2>3, <2>4, <2>5 DEF Accounts
  <2>. QED  BY <2>1, <2>6, <2>7
<1>13. ASSUME NEW w \in answered, First(w, answered),
              pending' = MarkMatched(pending, w), correlated' = correlated + 1
       PROVE  /\ \A x \in pending', i \in Wk(log') : x.ts + window' >= log'[i].ts
              /\ Accounts(log', window', Unmatched(pending'), correlated')
  <2>. DEFINE b == at[w.id]
              r == [w EXCEPT !.matched = TRUE]
  <2>1. w \in pending /\ w \in Wakeup /\ Matches(w, ts, cpu, pid) /\ ~w.matched /\ w \in P
    BY <1>8, <1>13 DEF Matches, Inv, TypeOK
  <2>2. r.ts = w.ts /\ r.matched
    BY <2>1 DEF Wakeup
  <2>3. pending' = (pending \ {w}) \cup {r}
    BY <1>13 DEF MarkMatched
  <2>. HIDE DEF r
  <2>4. \A x \in pending', i \in Wk(log') : x.ts + window' >= log'[i].ts
    <3>1. \A x \in pending' : \E y \in pending : x.ts = y.ts
      BY <2>1, <2>2, <2>3
    <3>. QED  BY <1>11, <3>1
  <2>5. Unmatched(pending') = P \ {w}
    BY <2>2, <2>3 DEF Unmatched, P
  <2>6. b \in Wk(log) \ D /\ Can(log', window, b, n + 1)
    BY <1>7, <1>9, <2>1 DEF Listed
  <2>7. \A x \in P : x # w => at[x.id] # b /\ x.id \in Nat /\ (x \in answered => b < at[x.id])
    <3>. SUFFICES ASSUME NEW x \in P, x # w
                  PROVE  at[x.id] # b /\ x.id \in Nat /\ (x \in answered => b < at[x.id])
      OBVIOUS
    <3>1. x.id \in Nat /\ w.id \in Nat /\ at[x.id] \in Nat /\ at[w.id] \in Nat
      BY <1>7, <2>1 DEF Listed
    <3>2. x.id # w.id
      BY <1>8, <2>1 DEF Inv, Numbered
    <3>3. w.id < x.id \/ x.id < w.id
      BY <3>1, <3>2
    <3>4. /\ w.id < x.id => at[w.id] < at[x.id]
          /\ x.id < w.id => at[x.id] < at[w.id]
      BY <1>7, <2>1 DEF Listed
    <3>5. x \in answered => w.id <= x.id
      BY <1>13 DEF First
    <3>. QED  BY <3>1, <3>3, <3>4, <3>5
  <2>8. ASSUME NEW u \in Wk(log) \ D, u < b PROVE ~Can(log', window, u, n + 1)
    <3>1. SUFFICES ASSUME Can(log', window, u, n + 1) PROVE FALSE
      OBVIOUS
    <3>2. PICK x \in P : at[x.id] = u /\ x \in answered
      BY <1>10, <3>1
    <3>3. u \in Nat /\ b \in Nat
      BY <1>3, <2>6, GrowsKeeps
    <3>4. x # w
      BY <2>8, <3>2, <3>3
    <3>5. b < u
      BY <2>7, <3>2, <3>4
    <3>. QED  BY <2>8, <3>3, <3>5
  <2>9. PICK H : /\ Pairing(log', window, D \cup {b}, H)
                 /\ Covered(log', window, D \cup {b}, H, A)
                 /\ Fifo(log', window, D \cup {b}, H)
    <3>. HIDE DEF b
    <3>. QED  BY <1>3, <1>5, <1>7, <2>6, <2>8, SwitchMatched
  <2>10. Listed(log', window, D \cup {b}, P \ {w}, at)
    <3>1. \A x \in P \ {w} : at[x.id] \notin D \cup {b}
      BY <1>7, <2>7 DEF Listed
    <3>2. \A x \in P \ (P \ {w}) : at[x.id] \in D \cup {b}
      OBVIOUS
    <3>. HIDE DEF b
    <3>. QED  BY <1>3, <1>5, <1>7, <3>1, <3>2, ListedSwitch
  <2>11. IsFiniteSet(D \cup {b}) /\ Cardinality(D \cup {b}) = correlated + 1
    BY <1>7, <2>6, FS_AddElement
  <2>. HIDE DEF b
  <2>12. Accounts(log', window, P \ {w}, correlated + 1)
    BY <2>9, <2>10, <2>11 DEF Accounts
  <2>. QED  BY <1>1, <1>13, <2>4, <2>5, <2>12
<1>. QED  BY <1>12, <1>13 DEF record_switch

\* Every call of the collector keeps the matching optimal.
LEMMA GreedyNext == Inv /\ Greedy /\ [Next]_vars => Greedy'
<1>. SUFFICES ASSUME Inv, Greedy, [Next]_vars PROVE Greedy'
  OBVIOUS
<1>1. ASSUME NEW w \in Windows, set_correlation_window_ns(w) PROVE Greedy'
  <2>. DEFINE call == [op |-> "window"]
  <2>1. call \in Call /\ call.op = "window" /\ log' = Append(log, call)
    BY <1>1 DEF Call, set_correlation_window_ns
  <2>2. Grows(log, log', Len(log)) /\ log'[Len(log) + 1] = call
    BY <2>1, LogGrows DEF Inv
  <2>3. ~Regular(log')
    BY <2>1, <2>2, GrowsKeeps DEF Regular
  <2>. QED  BY <2>3 DEF Greedy
<1>2. CASE UNCHANGED vars
  <2>1. Unmatched(pending') = Unmatched(pending)
    BY <1>2 DEF vars
  <2>. QED  BY <1>2, <2>1 DEF Greedy, vars
<1>. QED  BY <1>1, <1>2, GreedyWakeup, GreedySwitch DEF Next

\* The first-in-first-matched search of record_switch() correlates as many
\* wakeups as any matching could, and record_wakeup() keeps only those of the
\* last window, on every log whose events come in time order under one window.
THEOREM CorrelationIsOptimal == Spec => []GreedyIsOptimal
<1>1. Init => Inv /\ Greedy
  BY InvInit, GreedyInit
<1>2. Inv /\ Greedy /\ [Next]_vars => (Inv /\ Greedy)'
  BY InvNext, GreedyNext
<1>3. Inv /\ Greedy => GreedyIsOptimal
  BY GreedyOptimal DEF Inv
<1>. QED  BY <1>1, <1>2, <1>3, PTL DEF Spec
=============================================================================
