------------------------------ MODULE SimProofs ------------------------------
(***************************************************************************)
(* Proofs about the scheduler simulator: its single-core engine            *)
(* (SimSingleCore) and its multi-core engine (SimMultiCore), for every set *)
(* of tasks, every task table SimAssumption admits, every policy, quantum, *)
(* number of cores and domain layout.                                      *)
(*                                                                         *)
(* The two inductive invariants, SingleInv and MultiInv, share the account *)
(* of a task's life (TasksOK): what its state says of its phases and of    *)
(* the ticks it has left, and a ledger in which arrival, waiting, running  *)
(* and sleeping add up to the current tick.  To it each engine adds where  *)
(* a task may be (in one queue, or on one core), how long the tasks of a   *)
(* queue can have waited (Waits), and what preemption and selection left   *)
(* behind.  The report follows from the ledger of each task; that an idle  *)
(* core is explained follows from what rebalanceReadyQueues() leaves       *)
(* (RebalancedOK).                                                         *)
(***************************************************************************)
EXTENDS SimSingleCore, SimMultiCore, FiniteSetTheorems, SequenceTheorems, TLAPS


\* The record of a task in runtimes[].
RuntimeTask ==
  [state : {"pending", "ready", "running", "blocked", "complete"},
   remaining : Nat, executed : Nat, blocked_time : Nat, vruntime : Nat,
   first_dispatch : Nat \cup {Null}, completion : Nat \cup {Null},
   wake_tick : Nat \cup {Null}, last_execution : Nat \cup {Null},
   phase_index : Nat, phase_remaining : Nat]

SimTypeOK ==
  /\ spec \in [Tasks -> TaskSpecs]
  /\ \A t \in Tasks : ValidTask(spec[t])
  /\ policy \in Policies
  /\ quantum \in Quanta
  /\ rt \in [Tasks -> RuntimeTask]
  /\ tick \in Nat
  /\ completion_order \in Seq(Tasks)
  /\ waited \in [Tasks -> Nat]
  /\ streak \in [Tasks -> Nat]

Runs == {"pending", "ready", "running"}

\* The cpu ticks after phase i, and the wait ticks up to it.
CpuAfter(s, i) == TicksOf("cpu", s.phases, i + 1, Len(s.phases))

WaitUpTo(s, i) == TicksOf("wait", s.phases, 1, i)

\* Where task record r is in the phases of its specification s.
PhaseOK(r, s) ==
  /\ r.executed + r.remaining = s.burst
  /\ s.phases = <<>> => /\ r.phase_index = 1
                        /\ r.state # "blocked"
                        /\ r.phase_remaining = r.remaining
  /\ s.phases # <<>> => r.phase_index \in 1..Len(s.phases)
  /\ r.state \in Runs => /\ r.phase_remaining > 0
                         /\ s.phases # <<>> =>
                              /\ r.phase_index % 2 = 1
                              /\ r.remaining = r.phase_remaining + CpuAfter(s, r.phase_index)
  /\ r.state = "blocked" => /\ r.phase_index % 2 = 0
                            /\ r.remaining = CpuAfter(s, r.phase_index)
  /\ r.state = "complete" => /\ r.remaining = 0
                             /\ s.phases # <<>> => r.phase_index = Len(s.phases)

\* Where the ticks since its arrival went, `now' being the tick and `seen' the
\* first tick whose wakeups are still to come.
TimeOK(r, s, w, now, seen) ==
  /\ r.state = "pending" => /\ w = 0 /\ r.executed = 0 /\ r.blocked_time = 0
                            /\ s.arrival >= now
  /\ r.state \in {"ready", "running"} =>
       now = s.arrival + r.executed + w + r.blocked_time
  /\ r.state = "blocked" =>
       /\ seen = s.arrival + r.executed + w + r.blocked_time
       /\ r.wake_tick \in Nat
       /\ r.wake_tick >= seen
       /\ r.blocked_time + r.wake_tick - seen = WaitUpTo(s, r.phase_index)
  /\ r.state = "complete" =>
       /\ r.completion \in Nat
       /\ r.completion = s.arrival + r.executed + w + r.blocked_time
       /\ r.completion <= now
  /\ r.state # "blocked" =>
       r.blocked_time = IF s.phases = <<>> THEN 0 ELSE WaitUpTo(s, r.phase_index)
  /\ r.first_dispatch = Null => /\ r.state \in {"pending", "ready"}
                                /\ r.executed = 0
                                /\ r.blocked_time = 0
  /\ r.first_dispatch # Null => r.first_dispatch \in s.arrival .. s.arrival + w
  /\ r.last_execution # Null => r.last_execution < now

Seen == IF pc \in {"wake", "done"} THEN tick ELSE tick + 1

TasksOK ==
  \A t \in Tasks :
    /\ PhaseOK(rt[t], spec[t])
    /\ TimeOK(rt[t], spec[t], waited[t], tick, Seen)
    /\ rt[t].state = "pending" /\ pc \notin {"wake", "arrive"} => spec[t].arrival > tick
    /\ rt[t].state \notin {"ready", "running"} => streak[t] = 0
    /\ rt[t].state = "running" /\ pc # "execute" => streak[t] = 0

\* The completion order lists the completed tasks, each once, by completion time.
CompletionOK ==
  /\ IsInjective(completion_order)
  /\ \A t \in Tasks : rt[t].state = "complete" <=> t \in ToSet(completion_order)
  /\ \A i, j \in DOMAIN completion_order : i < j =>
       rt[completion_order[i]].completion <= rt[completion_order[j]].completion

ReportOK ==
  pc = "done" => /\ Len(completion_order) >= N
                 /\ report = [t \in Tasks |-> TaskMetrics(t)]

SimInv == SimTypeOK /\ TasksOK /\ CompletionOK /\ ReportOK

\* Under Round Robin, with quantum k, the turns left to the tasks ahead in queue q
\* bound the waiting; cur is the task that runs, for cq ticks now.
Waits(q, cur, cq, wait, k) ==
  \A i \in DOMAIN q : /\ wait[q[i]] <= (N - i) * k
                      /\ cur # Null => wait[q[i]] <= (N - 1 - i) * k + cq

\* A queue is in the order of its tasks' waiting.
Ordered(q, wait) == \A i, j \in DOMAIN q : i < j => wait[q[j]] <= wait[q[i]]

SingleTypeOK ==
  /\ pc \in {"wake", "arrive", "preempt", "select", "execute", "done"}
  /\ ready_queue \in Seq(Tasks)
  /\ current \in Tasks \cup {Null}
  /\ current_quantum \in Nat

\* The core runs the running task.
CoreOK ==
  /\ \A t \in Tasks : rt[t].state = "running" <=> current = t
  /\ current # Null /\ pc # "execute" => current_quantum > 0

\* The queue holds the ready tasks, each once and in the order of their waiting.
QueueOK ==
  UsesQueue =>
    /\ IsInjective(ready_queue)
    /\ \A t \in Tasks : rt[t].state = "ready" <=> t \in ToSet(ready_queue)
    /\ Ordered(ready_queue, streak)
    /\ policy = "round_robin" => Waits(ready_queue, current, current_quantum, streak, quantum)

\* What the preemption test leaves for the choice of the next task.
ChoiceOK ==
  /\ policy = "round_robin" /\ pc \in {"select", "execute"} /\ current # Null
       /\ ready_queue # <<>> => current_quantum < quantum
  /\ excluded # Null => pc \notin {"arrive", "preempt"} /\ ~UsesQueue
  /\ pc = "select" =>
       /\ ~UsesQueue /\ current # Null =>
            \A t \in InState("ready") : betterCandidate(current, t)
       /\ excluded # Null => /\ current = Null
                             /\ \E t \in InState("ready") : spec[t].group # excluded

SingleInv == SimInv /\ SingleTypeOK /\ CoreOK /\ QueueOK /\ ChoiceOK /\ PolicyHonoured

MultiTypeOK ==
  /\ pc \in {"wake", "arrive", "preempt", "rebalance", "dispatch", "execute", "done"}
  /\ domains \in Layouts /\ ValidLayout(domains)
  /\ core_queue \in [Cores -> Seq(Tasks)]
  /\ core_current \in [Cores -> Tasks \cup {Null}]
  /\ core_quantum \in [Cores -> Nat]
  /\ assigned_core \in [Tasks -> Cores]

\* Every task is where its state and its assigned core say, once.
PlacesOK ==
  /\ \A c \in Cores : IsInjective(core_queue[c])
  /\ \A c \in Cores : \A t \in Tasks :
       /\ t \in ToSet(core_queue[c]) <=> rt[t].state = "ready" /\ assigned_core[t] = c
       /\ core_current[c] = t <=> rt[t].state = "running" /\ assigned_core[t] = c

\* Each core counts its turns and, past the preemption test, runs no task that one
\* of its queue should run before.
TurnsOK ==
  \A c \in Cores :
    /\ core_current[c] # Null /\ pc # "execute" => core_quantum[c] > 0
    /\ policy = "round_robin" =>
         Waits(core_queue[c], core_current[c], core_quantum[c], streak, quantum)

OrderOK ==
  \A c \in Cores :
    /\ pc \in {"rebalance", "dispatch", "execute"} /\ core_current[c] # Null =>
         \A t \in ToSet(core_queue[c]) :
           /\ ~UsesQueue => betterCandidate(core_current[c], t)
           /\ policy = "round_robin" => core_quantum[c] < quantum
    /\ pc = "execute" /\ core_current[c] = Null => core_queue[c] = <<>>

\* What rebalancing leaves: where core c idles and core d has a task to spare, the
\* donor the search found was a third core with a single task.
RebalancedOK ==
  pc = "dispatch" =>
    \A c, d \in Cores :
      c \in IdleCores /\ core_queue[d] # <<>> /\ coreLoad(d) > 1 =>
        \E e \in Cores \ {c, d} : core_current[e] = Null /\ Len(core_queue[e]) = 1

MultiInv ==
  /\ SimInv /\ MultiTypeOK /\ PlacesOK /\ TurnsOK /\ OrderOK /\ RebalancedOK
  /\ IdleCoreExplained

-----------------------------------------------------------------------------
(* Orders, counting and ticks                                              *)

StrictTotalOrder(R, S) ==
  /\ \A t \in S : <<t, t>> \notin R
  /\ \A t, u \in S : t # u => <<t, u>> \in R \/ <<u, t>> \in R
  /\ \A t, u, v \in S : <<t, u>> \in R /\ <<u, v>> \in R => <<t, v>> \in R

\* On a finite set a strict total order R numbers the elements: each is given by
\* how many come before it, and every number below the size of the set is given.
LEMMA Ranks ==
  ASSUME NEW S, IsFiniteSet(S), NEW R, StrictTotalOrder(R, S)
  PROVE  [t \in S |-> Cardinality({u \in S : <<u, t>> \in R})]
           \in Bijection(S, 0..Cardinality(S) - 1)
<1> USE DEF StrictTotalOrder
<1> DEFINE Ahead(t) == {u \in S : <<u, t>> \in R}
           before == [t \in S |-> Cardinality(Ahead(t))]
           n == Cardinality(S)
<1>n. n \in Nat
  BY FS_CardinalityType
<1>1. ASSUME NEW t \in S
      PROVE  IsFiniteSet(Ahead(t)) /\ Cardinality(Ahead(t)) \in 0..n - 1
  <2>1. Ahead(t) \in SUBSET S /\ Ahead(t) # S
    OBVIOUS
  <2>2. IsFiniteSet(Ahead(t)) /\ Cardinality(Ahead(t)) <= n /\ Cardinality(Ahead(t)) # n
    BY <2>1, FS_Subset, Zenon
  <2>3. Cardinality(Ahead(t)) \in Nat
    BY <2>2, FS_CardinalityType
  <2> QED BY <2>2, <2>3, <1>n
<1>2. ASSUME NEW t \in S, NEW u \in S, <<t, u>> \in R
      PROVE  Cardinality(Ahead(t)) < Cardinality(Ahead(u))
  <2>1. Ahead(t) \in SUBSET Ahead(u) /\ t \in Ahead(u) /\ t \notin Ahead(t)
    BY <1>2
  <2>2. /\ Cardinality(Ahead(t)) <= Cardinality(Ahead(u))
        /\ Cardinality(Ahead(t)) # Cardinality(Ahead(u))
    BY <1>1, <2>1, FS_Subset, Zenon
  <2>3. Cardinality(Ahead(t)) \in Nat /\ Cardinality(Ahead(u)) \in Nat
    BY <1>1, FS_CardinalityType, Zenon
  <2> QED BY <2>2, <2>3
<1>3. before \in [S -> 0..n - 1]
  BY <1>1
<1>4. \A t, u \in S : before[t] = before[u] => t = u
  <2> SUFFICES ASSUME NEW t \in S, NEW u \in S, before[t] = before[u], t # u
               PROVE  FALSE
    OBVIOUS
  <2>1. Cardinality(Ahead(t)) = Cardinality(Ahead(u))
    OBVIOUS
  <2>2. Cardinality(Ahead(t)) \in Nat
    BY <1>1, FS_CardinalityType, Zenon
  <2>3. CASE <<t, u>> \in R
    BY <2>1, <2>2, <2>3, <1>2
  <2>4. CASE <<u, t>> \in R
    BY <2>1, <2>2, <2>4, <1>2
  <2> QED BY <2>3, <2>4
<1>5. before \in Injection(S, 0..n - 1)
  BY <1>3, <1>4 DEF Injection, IsInjective
<1>6. IsFiniteSet(0..n - 1) /\ Cardinality(0..n - 1) = n
  <2>1. 0 \in Int /\ n - 1 \in Int /\ n = (IF 0 > n - 1 THEN 0 ELSE (n - 1) - 0 + 1)
    BY <1>n
  <2> HIDE DEF n
  <2> QED BY <2>1, FS_Interval
<1>7. before \in Surjection(S, 0..n - 1)
  BY <1>5, <1>6, FS_Injection, Zenon
<1> QED BY <1>5, <1>7 DEF Bijection

\* The loops meet the tasks (or the cores) of S each once.
LEMMA InOrderLists ==
  ASSUME NEW S, S \subseteq Nat, IsFiniteSet(S)
  PROVE  /\ InOrder(S) \in Seq(S)
         /\ Len(InOrder(S)) = Cardinality(S)
         /\ DOMAIN InOrder(S) = 1..Cardinality(S)
         /\ IsInjective(InOrder(S))
         /\ ToSet(InOrder(S)) = S
<1> DEFINE R == {p \in Nat \X Nat : p[1] < p[2]}
           before == [t \in S |-> Cardinality({u \in S : <<u, t>> \in R})]
           n == Cardinality(S)
<1>n. n \in Nat
  BY FS_CardinalityType
<1>1. \A t, u \in S : <<t, u>> \in R <=> t < u
  OBVIOUS
<1>2. before \in Bijection(S, 0..n - 1)
  <2> HIDE DEF R
  <2>1. \A t \in S : <<t, t>> \notin R
    BY <1>1
  <2>2. \A t, u \in S : t # u => <<t, u>> \in R \/ <<u, t>> \in R
    BY <1>1
  <2>3. \A t, u, v \in S : <<t, u>> \in R /\ <<u, v>> \in R => <<t, v>> \in R
    BY <1>1
  <2>3a. StrictTotalOrder(R, S)
    BY <2>1, <2>2, <2>3 DEF StrictTotalOrder
  <2> HIDE DEF n
  <2>4. before \in Bijection(S, 0..Cardinality(S) - 1)
    BY <2>3a, Ranks
  <2> QED BY <2>4 DEF n
<1>3. \A t \in S : before[t] = Cardinality({u \in S : u < t})
  <2> SUFFICES ASSUME NEW t \in S PROVE before[t] = Cardinality({u \in S : u < t})
    OBVIOUS
  <2>1. {u \in S : <<u, t>> \in R} = {u \in S : u < t}
    BY <1>1
  <2> QED BY <2>1
<1> HIDE DEF before, R
<1>4. \A i \in 1..n : /\ InOrder(S)[i] \in S
                      /\ before[InOrder(S)[i]] = i - 1
  <2> SUFFICES ASSUME NEW i \in 1..n
               PROVE  InOrder(S)[i] \in S /\ before[InOrder(S)[i]] = i - 1
    OBVIOUS
  <2>1. i - 1 \in 0..n - 1
    BY <1>n
  <2>2. PICK t \in S : before[t] = i - 1
    BY <1>2, <2>1 DEF Bijection, Surjection
  <2>3. \E v \in S : Cardinality({u \in S : u < v}) = i - 1
    BY <2>2, <1>3
  <2>4. InOrder(S)[i] = CHOOSE v \in S : Cardinality({u \in S : u < v}) = i - 1
    <3>1. i \in 1..Cardinality(S)
      OBVIOUS
    <3> HIDE DEF n
    <3> QED BY <3>1, Zenon DEF InOrder
  <2> QED BY <2>3, <2>4, <1>3
<1>5. DOMAIN InOrder(S) = 1..n
  BY DEF InOrder
<1>6. InOrder(S) \in [1..n -> S]
  <2> DEFINE pick(i) == CHOOSE v \in S : Cardinality({u \in S : u < v}) = i - 1
  <2>1. InOrder(S) = [i \in 1..n |-> pick(i)]
    BY Zenon DEF InOrder
  <2> HIDE DEF pick, n
  <2>2. \A i \in 1..n : pick(i) = InOrder(S)[i]
    BY <2>1
  <2> QED BY <2>1, <2>2, <1>4
<1>7. InOrder(S) \in Seq(S) /\ Len(InOrder(S)) = n
  BY <1>5, <1>6, <1>n, IsASeq, LenProperties
<1>8. IsInjective(InOrder(S))
  BY <1>4, <1>5, <1>n DEF IsInjective
<1>9. ToSet(InOrder(S)) = S
  <2>1. ASSUME NEW t \in S PROVE t \in ToSet(InOrder(S))
    <3>1. before[t] \in 0..n - 1
      BY <1>2 DEF Bijection, Injection
    <3>2. before[t] + 1 \in 1..n /\ (before[t] + 1) - 1 = before[t]
      BY <3>1, <1>n
    <3>3. /\ InOrder(S)[before[t] + 1] \in S
          /\ before[InOrder(S)[before[t] + 1]] = before[t]
      BY <3>2, <1>4
    <3>4. InOrder(S)[before[t] + 1] = t
      BY <3>3, <1>2 DEF Bijection, Injection, IsInjective
    <3> QED BY <3>2, <3>4, <1>5 DEF ToSet
  <2> QED BY <2>1, <1>4, <1>5 DEF ToSet
<1> QED BY <1>5, <1>7, <1>8, <1>9

\* A sequence without repetition is no longer than the set it is drawn from, and
\* lists all of it when it is as long.
LEMMA InjectiveLength ==
  ASSUME NEW S, IsFiniteSet(S), NEW q \in Seq(S), IsInjective(q)
  PROVE  /\ Len(q) <= Cardinality(S)
         /\ Len(q) = Cardinality(S) => ToSet(q) = S
         /\ Len(q) = Cardinality(ToSet(q))
<1>1. Len(q) \in Nat /\ DOMAIN q = 1..Len(q) /\ q \in [1..Len(q) -> S]
  BY LenProperties
<1>2. q \in Injection(1..Len(q), S)
  BY <1>1 DEF Injection
<1>3. IsFiniteSet(1..Len(q)) /\ Cardinality(1..Len(q)) = Len(q)
  <2>1. 1 \in Int /\ Len(q) \in Int /\ Len(q) = (IF 1 > Len(q) THEN 0 ELSE Len(q) - 1 + 1)
    BY <1>1
  <2> QED BY <2>1, FS_Interval
<1>4. /\ Len(q) <= Cardinality(S)
      /\ Len(q) = Cardinality(S) => q \in Surjection(1..Len(q), S)
  BY <1>2, <1>3, FS_Injection
<1>5. q \in Surjection(1..Len(q), S) => ToSet(q) = S
  BY <1>1 DEF Surjection, ToSet
<1>6. q \in Surjection(1..Len(q), ToSet(q)) /\ q \in Injection(1..Len(q), ToSet(q))
  BY <1>1 DEF Surjection, Injection, ToSet
<1>7. Cardinality(ToSet(q)) = Len(q)
  BY <1>3, <1>6, FS_Surjection
<1> QED BY <1>4, <1>5, <1>7

LEMMA TasksFinite == IsFiniteSet(Tasks) /\ Cardinality(Tasks) = N /\ Tasks \subseteq Nat
<1>1. N \in Nat \ {0}
  BY SimAssumption
<1>2. 1 \in Int /\ N \in Int /\ N = (IF 1 > N THEN 0 ELSE N - 1 + 1) /\ 1..N \subseteq Nat
  BY <1>1
<1> QED BY <1>2, FS_Interval DEF Tasks

\* betterCandidate() of a choosing policy is a strict total order on the tasks.
LEMMA BetterIsOrder ==
  ASSUME SimTypeOK
  PROVE  StrictTotalOrder({p \in Tasks \X Tasks : betterCandidate(p[1], p[2])}, Tasks)
<1> DEFINE R == {p \in Tasks \X Tasks : betterCandidate(p[1], p[2])}
<1>1. \A t, u \in Tasks : <<t, u>> \in R <=> betterCandidate(t, u)
  OBVIOUS
<1> HIDE DEF R
<1>2. \A t \in Tasks : rt[t].vruntime \in Nat
  BY DEF SimTypeOK, RuntimeTask
<1>3. \A t \in Tasks : spec[t].deadline \in Nat \cup {Null}
  BY SimAssumption DEF SimTypeOK, TaskSpec
<1>4. Null \notin Nat
  BY SimAssumption
<1>5. Tasks \subseteq Nat
  BY TasksFinite
<1>6. \A t \in Tasks : ~ betterCandidate(t, t)
  BY <1>2, <1>3, <1>4, <1>5 DEF betterCandidate, EarlierDeadline
<1>7. \A t, u \in Tasks : t # u => betterCandidate(t, u) \/ betterCandidate(u, t)
  BY <1>2, <1>3, <1>4, <1>5 DEF betterCandidate, EarlierDeadline
<1>8. \A t, u, v \in Tasks :
        betterCandidate(t, u) /\ betterCandidate(u, v) => betterCandidate(t, v)
  <2> SUFFICES ASSUME NEW t \in Tasks, NEW u \in Tasks, NEW v \in Tasks,
                      betterCandidate(t, u), betterCandidate(u, v)
               PROVE  betterCandidate(t, v)
    OBVIOUS
  <2>1. CASE policy = "cfs_like"
    BY <2>1, <1>2, <1>5 DEF betterCandidate
  <2>2. CASE policy # "cfs_like"
    BY <2>2, <1>3, <1>4, <1>5 DEF betterCandidate, EarlierDeadline
  <2> QED BY <2>1, <2>2
<1> QED BY <1>1, <1>6, <1>7, <1>8 DEF StrictTotalOrder, R

\* Of finitely many, one is first.
LEMMA Least ==
  ASSUME NEW S, IsFiniteSet(S), S # {}, NEW R, StrictTotalOrder(R, S)
  PROVE  \E t \in S : \A u \in S \ {t} : <<t, u>> \in R
<1> DEFINE before == [t \in S |-> Cardinality({u \in S : <<u, t>> \in R})]
<1>1. Cardinality(S) \in Nat /\ Cardinality(S) # 0
  BY FS_CardinalityType, FS_EmptySet
<1>2. before \in Bijection(S, 0..Cardinality(S) - 1)
  BY Ranks
<1>3. 0 \in 0..Cardinality(S) - 1
  BY <1>1
<1>4. PICK t \in S : before[t] = 0
  BY <1>2, <1>3 DEF Bijection, Surjection
<1>5. IsFiniteSet({u \in S : <<u, t>> \in R})
  BY FS_Subset
<1>6. {u \in S : <<u, t>> \in R} = {}
  BY <1>4, <1>5, FS_EmptySet
<1> QED BY <1>6 DEF StrictTotalOrder

\* The scan of a choosing policy keeps a task of S that is better than the rest.
LEMMA BestIsBest ==
  ASSUME SimTypeOK, NEW S, S \subseteq Tasks, S # {}
  PROVE  /\ Best(S) \in S
         /\ \A u \in S \ {Best(S)} : betterCandidate(Best(S), u)
<1> DEFINE R == {p \in Tasks \X Tasks : betterCandidate(p[1], p[2])}
<1>1. \A t, u \in S : <<t, u>> \in R <=> betterCandidate(t, u)
  OBVIOUS
<1>2. StrictTotalOrder(R, S)
  BY BetterIsOrder DEF StrictTotalOrder
<1> HIDE DEF R
<1>3. IsFiniteSet(S)
  BY TasksFinite, FS_Subset
<1>4. PICK t \in S : \A u \in S \ {t} : <<t, u>> \in R
  BY <1>2, <1>3, Least
<1>5. \A u \in S \ {t} : betterCandidate(t, u)
  BY <1>1, <1>4
<1> QED BY <1>5 DEF Best

\* The smallest number of a finite set.
LEMMA LeastNumber ==
  ASSUME NEW S, S \subseteq Nat, IsFiniteSet(S), S # {}
  PROVE  \E x \in S : \A y \in S : x <= y
<1> DEFINE R == {p \in S \X S : p[1] < p[2]}
<1>1. \A x, y \in S : <<x, y>> \in R <=> x < y
  OBVIOUS
<1> HIDE DEF R
<1>2. StrictTotalOrder(R, S)
  BY <1>1 DEF StrictTotalOrder, R
<1>3. PICK x \in S : \A y \in S \ {x} : <<x, y>> \in R
  BY <1>2, Least
<1>4. ASSUME NEW y \in S PROVE x <= y
  <2>1. y = x \/ x < y
    BY <1>1, <1>3
  <2>2. x \in Nat /\ y \in Nat
    OBVIOUS
  <2> QED BY <2>1, <2>2
<1> QED BY <1>4

\* The place with the least entry in `load', the first of equals.
LEMMA LeastLoad ==
  ASSUME NEW S, S \subseteq Nat, IsFiniteSet(S), S # {}, NEW load \in [S -> Int]
  PROVE  \E i \in S : \A j \in S : load[i] < load[j] \/ (load[i] = load[j] /\ i <= j)
<1> DEFINE R == {p \in S \X S : load[p[1]] < load[p[2]]
                                 \/ (load[p[1]] = load[p[2]] /\ p[1] < p[2])}
<1>1. \A i, j \in S : <<i, j>> \in R <=> (load[i] < load[j] \/ (load[i] = load[j] /\ i < j))
  OBVIOUS
<1> HIDE DEF R
<1>2. StrictTotalOrder(R, S)
  <2>1. \A i \in S : load[i] \in Int /\ i \in Nat
    OBVIOUS
  <2>2. R \subseteq S \X S
    BY DEF R
  <2> QED BY <1>1, <2>1, <2>2 DEF StrictTotalOrder
<1>3. PICK i \in S : \A j \in S \ {i} : <<i, j>> \in R
  <2>1. IsFiniteSet(S) /\ S # {}
    OBVIOUS
  <2>2. \E t \in S : \A u \in S \ {t} : <<t, u>> \in R
    BY ONLY <1>2, <2>1, Least
  <2> QED BY <2>2
<1>4. ASSUME NEW j \in S PROVE load[i] < load[j] \/ (load[i] = load[j] /\ i <= j)
  <2>1. i = j \/ load[i] < load[j] \/ (load[i] = load[j] /\ i < j)
    BY <1>1, <1>3, Zenon
  <2>2. i \in Nat /\ j \in Nat
    OBVIOUS
  <2> QED BY <2>1, <2>2
<1> QED BY <1>4

\* Sums of ticks: they are numbers, of one phase, of none, and of adjacent parts.
LEMMA TicksNumber ==
  ASSUME NEW kind, NEW phases, NEW first \in Int, NEW last \in Int,
         \A i \in first..last : phases[i].ticks \in Nat
  PROVE  /\ IsFiniteSet(TicksIn(kind, phases, first, last))
         /\ TicksOf(kind, phases, first, last) \in Nat
<1> DEFINE D == {j \in first..last : phases[j].kind = kind}
           part == [i \in D |-> {i} \X (1..phases[i].ticks)]
           parts == { {i} \X (1..phases[i].ticks) : i \in D }
<1>1. IsFiniteSet(D)
  <2>1. IsFiniteSet(first..last)
    BY FS_Interval
  <2> QED BY <2>1, FS_Subset
<1>2. part \in Surjection(D, parts)
  BY DEF Surjection
<1>3. IsFiniteSet(parts)
  BY <1>1, <1>2, FS_Surjection
<1>4. ASSUME NEW i \in D PROVE IsFiniteSet({i} \X (1..phases[i].ticks))
  <2>1. phases[i].ticks \in Int /\ 1 \in Int
    OBVIOUS
  <2>2. IsFiniteSet(1..phases[i].ticks)
    BY <2>1, FS_Interval
  <2>3. IsFiniteSet({i})
    BY FS_Singleton
  <2> QED BY <2>2, <2>3, FS_Product
<1>5. \A T \in parts : IsFiniteSet(T)
  BY <1>4
<1> HIDE DEF parts
<1>6. IsFiniteSet(UNION parts)
  BY <1>3, <1>5, FS_UNION
<1>7. TicksIn(kind, phases, first, last) = UNION parts
  BY Zenon DEF TicksIn, parts
<1> QED BY <1>6, <1>7, FS_CardinalityType DEF TicksOf

LEMMA TicksNone ==
  ASSUME NEW kind, NEW phases, NEW first \in Int, NEW last \in Int, first > last
  PROVE  TicksOf(kind, phases, first, last) = 0
<1>1. first..last = {}
  OBVIOUS
<1>2. TicksIn(kind, phases, first, last) = {}
  BY <1>1, Zenon DEF TicksIn
<1> QED BY <1>2, FS_EmptySet DEF TicksOf

LEMMA TicksOne ==
  ASSUME NEW kind, NEW phases, NEW i \in Int, phases[i].ticks \in Nat
  PROVE  TicksOf(kind, phases, i, i) = IF phases[i].kind = kind THEN phases[i].ticks ELSE 0
<1> DEFINE one == {i} \X (1..phases[i].ticks)
<1>1. i..i = {i}
  OBVIOUS
<1>2. CASE phases[i].kind = kind
  <2>1. TicksIn(kind, phases, i, i) = one
    <3>1. {j \in {i} : phases[j].kind = kind} = {i}
      BY <1>2
    <3>2. TicksIn(kind, phases, i, i) = UNION { {k} \X (1..phases[k].ticks) : k \in {i} }
      BY <1>1, <3>1, Zenon DEF TicksIn
    <3>3. { {k} \X (1..phases[k].ticks) : k \in {i} } = {one}
      OBVIOUS
    <3> HIDE DEF one
    <3> QED BY <3>2, <3>3
  <2>2. IsFiniteSet({i}) /\ Cardinality({i}) = 1
    BY FS_Singleton
  <2>3. IsFiniteSet(1..phases[i].ticks) /\ Cardinality(1..phases[i].ticks) = phases[i].ticks
    <3>1. /\ 1 \in Int /\ phases[i].ticks \in Int
          /\ phases[i].ticks = IF 1 > phases[i].ticks THEN 0 ELSE phases[i].ticks - 1 + 1
      OBVIOUS
    <3> QED BY <3>1, FS_Interval
  <2>4. Cardinality(one) = 1 * phases[i].ticks
    <3>1. Cardinality(one) = Cardinality({i}) * Cardinality(1..phases[i].ticks)
      BY <2>2, <2>3, FS_Product, Zenon
    <3> HIDE DEF one
    <3> QED BY <3>1, <2>2, <2>3
  <2> QED BY <1>2, <2>1, <2>4 DEF TicksOf
<1>3. CASE phases[i].kind # kind
  <2>1. {j \in {i} : phases[j].kind = kind} = {}
    BY <1>3
  <2>2. TicksIn(kind, phases, i, i) = {}
    BY <1>1, <2>1, Zenon DEF TicksIn
  <2> QED BY <1>3, <2>2, FS_EmptySet DEF TicksOf
<1> QED BY <1>2, <1>3

LEMMA TicksSplit ==
  ASSUME NEW kind, NEW phases, NEW first \in Int, NEW m \in Int, NEW last \in Int,
         first <= m + 1, m <= last,
         \A i \in first..last : phases[i].ticks \in Nat
  PROVE  TicksOf(kind, phases, first, last)
           = TicksOf(kind, phases, first, m) + TicksOf(kind, phases, m + 1, last)
<1> DEFINE A == TicksIn(kind, phases, first, m)
           B == TicksIn(kind, phases, m + 1, last)
           C == TicksIn(kind, phases, first, last)
           D(a, b) == {j \in a..b : phases[j].kind = kind}
           part(i) == {i} \X (1..phases[i].ticks)
<1>1. IsFiniteSet(A) /\ IsFiniteSet(B)
  <2>1. \A i \in first..m : phases[i].ticks \in Nat
    OBVIOUS
  <2>2. \A i \in m + 1..last : phases[i].ticks \in Nat
    OBVIOUS
  <2>3. m + 1 \in Int
    OBVIOUS
  <2> QED BY <2>1, <2>2, <2>3, TicksNumber
<1>2. \A x : x \in A <=> \E i \in D(first, m) : x \in part(i)
  BY Zenon DEF TicksIn
<1>3. \A x : x \in B <=> \E i \in D(m + 1, last) : x \in part(i)
  BY Zenon DEF TicksIn
<1>4. \A x : x \in C <=> \E i \in D(first, last) : x \in part(i)
  BY Zenon DEF TicksIn
<1>5. /\ D(first, last) = D(first, m) \cup D(m + 1, last)
      /\ D(first, m) \cap D(m + 1, last) = {}
  OBVIOUS
<1>6. \A i, j : \A x \in part(i) : x \in part(j) => i = j
  BY Zenon
<1> HIDE DEF A, B, C, D, part
<1>7. C = A \cup B
  BY <1>2, <1>3, <1>4, <1>5
<1>8. A \cap B = {}
  BY <1>2, <1>3, <1>5, <1>6
<1>9. /\ Cardinality(A) \in Nat /\ Cardinality(B) \in Nat
      /\ Cardinality(A \cap B) = 0
      /\ Cardinality(A \cup B) = Cardinality(A) + Cardinality(B) - Cardinality(A \cap B)
  BY <1>1, <1>8, FS_Union, FS_EmptySet, FS_CardinalityType
<1>10. Cardinality(C) = Cardinality(A) + Cardinality(B)
  BY <1>7, <1>9
<1> QED BY <1>10 DEF TicksOf, A, B, C

-----------------------------------------------------------------------------
(* One task                                                                *)

LEMMA Parity ==
  ASSUME NEW i \in Nat
  PROVE  /\ i % 2 = 0 \/ i % 2 = 1
         /\ i % 2 = 1 => (i + 1) % 2 = 0 /\ (i + 2) % 2 = 1
         /\ i % 2 = 0 => (i + 1) % 2 = 1
OBVIOUS

\* What validation says of a task with phases: they alternate and end with cpu.
LEMMA PhaseFacts ==
  ASSUME NEW s \in TaskSpec, ValidTask(s), s.phases # <<>>
  PROVE  /\ Len(s.phases) \in Nat /\ Len(s.phases) >= 1 /\ Len(s.phases) % 2 = 1
         /\ DOMAIN s.phases = 1..Len(s.phases)
         /\ \A i \in 1..Len(s.phases) :
              /\ s.phases[i].ticks \in Nat
              /\ s.phases[i].ticks > 0
              /\ i % 2 = 1 => s.phases[i].kind = "cpu"
              /\ i % 2 # 1 => s.phases[i].kind = "wait"
         /\ TicksOf("cpu", s.phases, 1, Len(s.phases)) = s.burst
<1>1. s.phases \in Seq([kind : {"cpu", "wait"}, ticks : Nat])
  BY DEF TaskSpec
<1>2. ValidPhases(s)
  BY DEF ValidTask
<1>3. Len(s.phases) \in Nat /\ DOMAIN s.phases = 1..Len(s.phases) /\ Len(s.phases) # 0
  BY <1>1, LenProperties, EmptySeq
<1>4. \A i \in 1..Len(s.phases) : s.phases[i] \in [kind : {"cpu", "wait"}, ticks : Nat]
  BY <1>1, ElementOfSeq
<1>5. ASSUME NEW i \in 1..Len(s.phases)
      PROVE  /\ s.phases[i].ticks \in Nat
             /\ s.phases[i].ticks > 0
             /\ i % 2 = 1 => s.phases[i].kind = "cpu"
             /\ i % 2 # 1 => s.phases[i].kind = "wait"
  BY <1>2, <1>3, <1>4 DEF ValidPhases
<1>6. Len(s.phases) >= 1
  BY <1>3
<1>7. Len(s.phases) % 2 = 1 /\ TicksOf("cpu", s.phases, 1, Len(s.phases)) = s.burst
  BY <1>2 DEF ValidPhases
<1> QED BY <1>3, <1>5, <1>6, <1>7

LEMMA TickFacts ==
  ASSUME NEW s \in TaskSpec, ValidTask(s), s.phases # <<>>, NEW i \in 1..Len(s.phases)
  PROVE  /\ CpuAfter(s, i) \in Nat
         /\ WaitUpTo(s, i) \in Nat
         /\ i = Len(s.phases) => CpuAfter(s, i) = 0
         /\ i = 1 => /\ WaitUpTo(s, i) = 0
                     /\ s.burst = s.phases[1].ticks + CpuAfter(s, 1)
         /\ i < Len(s.phases) /\ i % 2 = 1 =>
              /\ CpuAfter(s, i) = CpuAfter(s, i + 1)
              /\ CpuAfter(s, i) > 0
              /\ WaitUpTo(s, i + 1) = WaitUpTo(s, i) + s.phases[i + 1].ticks
         /\ i % 2 = 0 =>
              /\ i < Len(s.phases)
              /\ CpuAfter(s, i) = s.phases[i + 1].ticks + CpuAfter(s, i + 1)
              /\ WaitUpTo(s, i + 1) = WaitUpTo(s, i)
<1> DEFINE L == Len(s.phases)
<1>1. /\ L \in Nat /\ L >= 1 /\ L % 2 = 1
      /\ \A j \in 1..L : /\ s.phases[j].ticks \in Nat
                         /\ s.phases[j].ticks > 0
                         /\ j % 2 = 1 => s.phases[j].kind = "cpu"
                         /\ j % 2 # 1 => s.phases[j].kind = "wait"
      /\ TicksOf("cpu", s.phases, 1, L) = s.burst
  BY PhaseFacts
<1> HIDE DEF L
<1>2. ASSUME NEW kind, NEW a \in 1..L + 1, NEW b \in 0..L
      PROVE  TicksOf(kind, s.phases, a, b) \in Nat
  <2>1. a \in Int /\ b \in Int /\ \A j \in a..b : s.phases[j].ticks \in Nat
    BY <1>1
  <2> QED BY <2>1, TicksNumber
<1>3. ASSUME NEW kind, NEW a \in 1..L, NEW b \in 0..L, a <= b
      PROVE  TicksOf(kind, s.phases, a, b)
               = TicksOf(kind, s.phases, a, a) + TicksOf(kind, s.phases, a + 1, b)
  <2>1. a \in Int /\ b \in Int /\ a <= a + 1 /\ \A j \in a..b : s.phases[j].ticks \in Nat
    BY <1>1
  <2> QED BY <1>3, <2>1, TicksSplit
<1>4. ASSUME NEW kind, NEW b \in 1..L
      PROVE  TicksOf(kind, s.phases, 1, b)
               = TicksOf(kind, s.phases, 1, b - 1) + TicksOf(kind, s.phases, b, b)
  <2>1. /\ 1 \in Int /\ b \in Int /\ b - 1 \in Int /\ 1 <= (b - 1) + 1 /\ b - 1 <= b
        /\ (b - 1) + 1 = b
        /\ \A j \in 1..b : s.phases[j].ticks \in Nat
    BY <1>1
  <2> QED BY <2>1, TicksSplit
<1>5. ASSUME NEW kind, NEW a \in 1..L
      PROVE  TicksOf(kind, s.phases, a, a)
               = IF s.phases[a].kind = kind THEN s.phases[a].ticks ELSE 0
  <2>1. a \in Int /\ s.phases[a].ticks \in Nat
    BY <1>1
  <2> QED BY <2>1, TicksOne
<1>6. CpuAfter(s, i) = TicksOf("cpu", s.phases, i + 1, L) /\ WaitUpTo(s, i) = TicksOf("wait", s.phases, 1, i)
  BY DEF CpuAfter, WaitUpTo, L
<1>i. i \in 1..L
  BY DEF L
<1>7. CpuAfter(s, i) \in Nat /\ WaitUpTo(s, i) \in Nat
  BY <1>1, <1>2, <1>6, <1>i
<1>8. i = L => CpuAfter(s, i) = 0
  BY <1>1, <1>6, TicksNone
<1>9. ASSUME i = 1
      PROVE  WaitUpTo(s, i) = 0 /\ s.burst = s.phases[1].ticks + CpuAfter(s, 1)
  <2>1. TicksOf("cpu", s.phases, 1, L) = TicksOf("cpu", s.phases, 1, 1) + TicksOf("cpu", s.phases, 1 + 1, L)
    BY <1>1, <1>3
  <2>2. 1 \in 1..L /\ 1 % 2 = 1
    BY <1>1
  <2>3. TicksOf("cpu", s.phases, 1, 1) = s.phases[1].ticks /\ TicksOf("wait", s.phases, 1, 1) = 0
    BY <2>2, <1>1, <1>5
  <2> QED BY <1>9, <2>1, <2>3, <1>1, <1>6
<1>10. ASSUME NEW j \in 1..L, j % 2 = 1
       PROVE  /\ TicksOf("cpu", s.phases, j, j) = s.phases[j].ticks
              /\ TicksOf("wait", s.phases, j, j) = 0
  BY <1>10, <1>1, <1>5
<1>11. ASSUME NEW j \in 1..L, j % 2 # 1
       PROVE  /\ TicksOf("cpu", s.phases, j, j) = 0
              /\ TicksOf("wait", s.phases, j, j) = s.phases[j].ticks
  BY <1>11, <1>1, <1>5
<1>12. ASSUME i < L
       PROVE  /\ i + 1 \in 1..L
              /\ CpuAfter(s, i) = TicksOf("cpu", s.phases, i + 1, i + 1) + CpuAfter(s, i + 1)
              /\ WaitUpTo(s, i + 1) = WaitUpTo(s, i) + TicksOf("wait", s.phases, i + 1, i + 1)
              /\ CpuAfter(s, i + 1) \in Nat
  <2>1. i + 1 \in 1..L /\ L \in 0..L /\ i + 1 <= L /\ (i + 1) - 1 = i /\ (i + 1) + 1 \in 1..L + 1
    BY <1>12, <1>i, <1>1
  <2>2. TicksOf("cpu", s.phases, i + 1, L)
          = TicksOf("cpu", s.phases, i + 1, i + 1) + TicksOf("cpu", s.phases, (i + 1) + 1, L)
    BY <2>1, <1>3
  <2>3. TicksOf("wait", s.phases, 1, i + 1)
          = TicksOf("wait", s.phases, 1, i) + TicksOf("wait", s.phases, i + 1, i + 1)
    BY <2>1, <1>4
  <2>4. TicksOf("cpu", s.phases, (i + 1) + 1, L) \in Nat
    BY <2>1, <1>2
  <2> QED BY <2>1, <2>2, <2>3, <2>4 DEF CpuAfter, WaitUpTo, L
<1>13. ASSUME i < L, i % 2 = 1
       PROVE  /\ CpuAfter(s, i) = CpuAfter(s, i + 1)
              /\ CpuAfter(s, i) > 0
              /\ WaitUpTo(s, i + 1) = WaitUpTo(s, i) + s.phases[i + 1].ticks
  <2>1. (i + 1) % 2 # 1
    BY <1>13, <1>i, <1>1
  <2>2. /\ CpuAfter(s, i) = CpuAfter(s, i + 1)
        /\ WaitUpTo(s, i + 1) = WaitUpTo(s, i) + s.phases[i + 1].ticks
    BY <1>13, <2>1, <1>11, <1>12, <1>7
  <2>3. i + 2 \in 1..L /\ (i + 2) % 2 = 1 /\ L \in 0..L /\ i + 2 <= L
    <3>1. i \in Nat /\ (i + 1) % 2 = 0 /\ (i + 2) % 2 = 1
      BY <1>13, <1>i, <1>1, Parity
    <3>2. L # i + 1
      BY <3>1, <1>1
    <3> QED BY <3>1, <3>2, <1>13, <1>i, <1>1
  <2>4. TicksOf("cpu", s.phases, i + 2, L)
          = TicksOf("cpu", s.phases, i + 2, i + 2) + TicksOf("cpu", s.phases, (i + 2) + 1, L)
    BY <2>3, <1>3
  <2>5. TicksOf("cpu", s.phases, (i + 2) + 1, L) \in Nat
    <3>1. (i + 2) + 1 \in 1..L + 1
      BY <2>3, <1>1
    <3> QED BY <2>3, <3>1, <1>2
  <2>6. TicksOf("cpu", s.phases, i + 2, i + 2) = s.phases[i + 2].ticks
    BY <2>3, <1>10
  <2>7. CpuAfter(s, i + 1) = TicksOf("cpu", s.phases, i + 2, L)
    <3>1. (i + 1) + 1 = i + 2
      BY <1>i, <1>1
    <3> QED BY <3>1 DEF CpuAfter, L
  <2> QED BY <2>2, <2>3, <2>4, <2>5, <2>6, <2>7, <1>1
<1>14. ASSUME i % 2 = 0
       PROVE  /\ i < L
              /\ CpuAfter(s, i) = s.phases[i + 1].ticks + CpuAfter(s, i + 1)
              /\ WaitUpTo(s, i + 1) = WaitUpTo(s, i)
  <2>1. i < L /\ (i + 1) % 2 = 1
    <3>1. i \in Nat /\ (i + 1) % 2 = 1
      BY <1>14, <1>i, <1>1, Parity
    <3>2. i # L
      BY <1>14, <1>1
    <3> QED BY <3>1, <3>2, <1>i, <1>1
  <2>2. i + 1 \in 1..L
    BY <2>1, <1>12
  <2> QED BY <2>1, <2>2, <1>10, <1>12, <1>7
<1> QED BY <1>7, <1>8, <1>9, <1>13, <1>14 DEF L

LEMMA SpecFacts ==
  ASSUME NEW s \in TaskSpec, ValidTask(s)
  PROVE  s.arrival \in Nat /\ s.burst \in Nat /\ s.burst > 0
BY DEF TaskSpec, ValidTask

LEMMA StartTask ==
  ASSUME NEW s \in TaskSpec, ValidTask(s)
  PROVE  /\ initRuntime(s) \in RuntimeTask
         /\ PhaseOK(initRuntime(s), s)
         /\ TimeOK(initRuntime(s), s, 0, 0, 0)
         /\ initRuntime(s).state = "pending"
<1> DEFINE r == initRuntime(s)
<1>1. s.arrival \in Nat /\ s.burst \in Nat /\ s.burst > 0
  BY SpecFacts
<1>2. CASE s.phases = <<>>
  <2>1. r \in RuntimeTask /\ r.state = "pending"
    BY <1>1, <1>2 DEF initRuntime, RuntimeTask
  <2>2. PhaseOK(r, s)
    BY <1>1, <1>2 DEF initRuntime, PhaseOK
  <2>3. TimeOK(r, s, 0, 0, 0)
    BY <1>1, <1>2 DEF initRuntime, TimeOK
  <2> QED BY <2>1, <2>2, <2>3
<1>3. CASE s.phases # <<>>
  <2>1. /\ Len(s.phases) \in Nat /\ 1 \in 1..Len(s.phases)
        /\ s.phases[1].ticks \in Nat /\ s.phases[1].ticks > 0
    <3>1. Len(s.phases) \in Nat /\ 1 \in 1..Len(s.phases)
      BY <1>3, PhaseFacts
    <3> QED BY <1>3, <3>1, PhaseFacts
  <2>2. /\ WaitUpTo(s, 1) = 0
        /\ s.burst = s.phases[1].ticks + CpuAfter(s, 1)
    BY <1>3, <2>1, TickFacts
  <2>3. r \in RuntimeTask /\ r.state = "pending"
    BY <1>1, <1>3, <2>1 DEF initRuntime, RuntimeTask
  <2>4. PhaseOK(r, s)
    BY <1>1, <1>3, <2>1, <2>2 DEF initRuntime, PhaseOK
  <2>5. TimeOK(r, s, 0, 0, 0)
    BY <1>1, <1>3, <2>2 DEF initRuntime, TimeOK
  <2> QED BY <2>3, <2>4, <2>5
<1> QED BY <1>2, <1>3

\* What AfterWakeups makes of a task that is due.
Awake(r, s) == [advancePhaseAfterWake(r, s) EXCEPT !.state = "ready", !.wake_tick = Null]

\* A due wakeup: the next phase is a cpu phase, and the wait is all accounted.
LEMMA WakeTask ==
  ASSUME NEW s \in TaskSpec, ValidTask(s), NEW r \in RuntimeTask,
         NEW w \in Nat, NEW now \in Nat,
         r.state = "blocked", r.wake_tick = now, PhaseOK(r, s), TimeOK(r, s, w, now, now)
  PROVE  /\ s.phases # <<>>
         /\ r.phase_index + 1 \in 1..Len(s.phases)
         /\ s.phases[r.phase_index + 1].kind = "cpu"
         /\ Awake(r, s) \in RuntimeTask /\ Awake(r, s).state = "ready"
         /\ PhaseOK(Awake(r, s), s)
         /\ TimeOK(Awake(r, s), s, w, now, now + 1)
<1> DEFINE i == r.phase_index
           a == Awake(r, s)
<1>1. s.phases # <<>> /\ i \in 1..Len(s.phases) /\ i % 2 = 0 /\ r.remaining = CpuAfter(s, i)
  BY DEF PhaseOK
<1>2. /\ i < Len(s.phases)
      /\ CpuAfter(s, i) = s.phases[i + 1].ticks + CpuAfter(s, i + 1)
      /\ WaitUpTo(s, i + 1) = WaitUpTo(s, i)
  BY <1>1, TickFacts
<1>3. /\ Len(s.phases) \in Nat
      /\ i + 1 \in 1..Len(s.phases) /\ (i + 1) % 2 = 1
  BY <1>1, <1>2, PhaseFacts, Parity
<1>4. s.phases[i + 1].ticks \in Nat /\ s.phases[i + 1].ticks > 0 /\ s.phases[i + 1].kind = "cpu"
  BY <1>1, <1>3, PhaseFacts
<1>5. a = [r EXCEPT !.phase_index = i + 1, !.phase_remaining = s.phases[i + 1].ticks,
                    !.state = "ready", !.wake_tick = Null]
  BY <1>1 DEF Awake, advancePhaseAfterWake, RuntimeTask
<1> HIDE DEF a
<1>6. a \in RuntimeTask /\ a.state = "ready"
  <2>1. i + 1 \in Nat /\ s.phases[i + 1].ticks \in Nat
    BY <1>4 DEF RuntimeTask
  <2> QED BY <1>5, <2>1 DEF RuntimeTask
<1>7. /\ a.phase_index = i + 1 /\ a.phase_remaining = s.phases[i + 1].ticks
      /\ a.remaining = r.remaining /\ a.executed = r.executed
      /\ a.blocked_time = r.blocked_time /\ a.first_dispatch = r.first_dispatch
      /\ a.last_execution = r.last_execution
  BY <1>5 DEF RuntimeTask
<1>8. PhaseOK(a, s)
  BY <1>1, <1>2, <1>3, <1>4, <1>6, <1>7 DEF PhaseOK, Runs
<1>9. r.blocked_time \in Nat /\ WaitUpTo(s, i) \in Nat
  BY <1>1, TickFacts DEF RuntimeTask
<1>10. TimeOK(a, s, w, now, now + 1)
  BY <1>1, <1>2, <1>6, <1>7, <1>9 DEF TimeOK
<1> QED BY <1>1, <1>3, <1>4, <1>6, <1>8, <1>10 DEF a

\* A wakeup that is not due: one more tick is spent blocked.
LEMMA StayTask ==
  ASSUME NEW s \in TaskSpec, ValidTask(s), NEW r \in RuntimeTask,
         NEW w \in Nat, NEW now \in Nat,
         r.state = "blocked", r.wake_tick # now, PhaseOK(r, s), TimeOK(r, s, w, now, now),
         NEW a, a = [r EXCEPT !.blocked_time = @ + 1]
  PROVE  /\ a \in RuntimeTask /\ a.state = "blocked"
         /\ PhaseOK(a, s)
         /\ TimeOK(a, s, w, now, now + 1)
<1>1. a \in RuntimeTask /\ a.state = "blocked"
  BY DEF RuntimeTask
<1>2. /\ a.phase_index = r.phase_index /\ a.phase_remaining = r.phase_remaining
      /\ a.remaining = r.remaining /\ a.executed = r.executed /\ a.wake_tick = r.wake_tick
      /\ a.blocked_time = r.blocked_time + 1 /\ a.first_dispatch = r.first_dispatch
      /\ a.last_execution = r.last_execution
  BY DEF RuntimeTask
<1>3. PhaseOK(a, s)
  BY <1>1, <1>2 DEF PhaseOK
<1>4. s.phases # <<>> /\ r.phase_index \in 1..Len(s.phases)
  BY DEF PhaseOK
<1>5. WaitUpTo(s, r.phase_index) \in Nat /\ s.arrival \in Nat
  BY <1>4, TickFacts, SpecFacts
<1>6. r.blocked_time \in Nat /\ r.executed \in Nat
  BY DEF RuntimeTask
<1>7. /\ now = s.arrival + r.executed + w + r.blocked_time
      /\ r.wake_tick \in Nat /\ r.wake_tick >= now
      /\ r.blocked_time + r.wake_tick - now = WaitUpTo(s, r.phase_index)
      /\ r.first_dispatch # Null /\ r.first_dispatch \in s.arrival .. s.arrival + w
      /\ r.last_execution # Null => r.last_execution < now
  BY DEF TimeOK
<1>8. /\ now + 1 = s.arrival + a.executed + w + a.blocked_time
      /\ a.wake_tick >= now + 1
      /\ a.blocked_time + a.wake_tick - (now + 1) = WaitUpTo(s, a.phase_index)
  <2> DEFINE b == r.blocked_time
             k == r.wake_tick
             x == WaitUpTo(s, r.phase_index)
  <2>1. b \in Nat /\ k \in Nat /\ x \in Nat /\ k >= now /\ k # now /\ b + k - now = x
    BY <1>5, <1>6, <1>7
  <2> HIDE DEF b, k, x
  <2>2. k >= now + 1 /\ (b + 1) + k - (now + 1) = x
    BY <2>1
  <2>3. now + 1 = s.arrival + r.executed + w + (r.blocked_time + 1)
    BY <1>5, <1>6, <1>7
  <2> QED BY <1>2, <2>2, <2>3 DEF b, k, x
<1>9. TimeOK(a, s, w, now, now + 1)
  BY <1>1, <1>2, <1>7, <1>8 DEF TimeOK
<1> QED BY <1>1, <1>3, <1>9

\* A task that arrives or is preempted becomes ready; a ready one is dispatched.
LEMMA ReadyTask ==
  ASSUME NEW s \in TaskSpec, ValidTask(s), NEW r \in RuntimeTask,
         NEW w \in Nat, NEW now \in Nat, NEW seen \in Nat,
         r.state = "running" \/ (r.state = "pending" /\ s.arrival = now),
         PhaseOK(r, s), TimeOK(r, s, w, now, seen),
         NEW a, a = [r EXCEPT !.state = "ready"]
  PROVE  /\ a \in RuntimeTask /\ a.state = "ready"
         /\ PhaseOK(a, s)
         /\ TimeOK(a, s, w, now, seen)
<1>1. a \in RuntimeTask /\ a.state = "ready"
  BY DEF RuntimeTask
<1>2. /\ a.phase_index = r.phase_index /\ a.phase_remaining = r.phase_remaining
      /\ a.remaining = r.remaining /\ a.executed = r.executed
      /\ a.blocked_time = r.blocked_time /\ a.first_dispatch = r.first_dispatch
      /\ a.last_execution = r.last_execution
  BY DEF RuntimeTask
<1>3. PhaseOK(a, s)
  BY <1>1, <1>2 DEF PhaseOK, Runs
<1>4. TimeOK(a, s, w, now, seen)
  BY <1>1, <1>2, SpecFacts DEF TimeOK
<1> QED BY <1>1, <1>3, <1>4

LEMMA DispatchTask ==
  ASSUME NEW s \in TaskSpec, ValidTask(s), NEW r \in RuntimeTask,
         NEW w \in Nat, tick \in Nat, NEW seen \in Nat, r.state = "ready",
         PhaseOK(r, s), TimeOK(r, s, w, tick, seen)
  PROVE  /\ Dispatched(r) \in RuntimeTask /\ Dispatched(r).state = "running"
         /\ PhaseOK(Dispatched(r), s)
         /\ TimeOK(Dispatched(r), s, w, tick, seen)
         /\ Dispatched(r).vruntime = r.vruntime
<1> DEFINE a == Dispatched(r)
<1>1. a \in RuntimeTask /\ a.state = "running" /\ a.vruntime = r.vruntime
  BY DEF RuntimeTask, Dispatched
<1>2. /\ a.phase_index = r.phase_index /\ a.phase_remaining = r.phase_remaining
      /\ a.remaining = r.remaining /\ a.executed = r.executed
      /\ a.blocked_time = r.blocked_time
      /\ a.first_dispatch = (IF r.first_dispatch = Null THEN tick ELSE r.first_dispatch)
      /\ a.last_execution = r.last_execution
  BY DEF RuntimeTask, Dispatched
<1>3. r.executed \in Nat /\ r.blocked_time \in Nat /\ s.arrival \in Nat /\ tick # Null
  BY SimAssumption, SpecFacts DEF RuntimeTask
<1> HIDE DEF a
<1>4. PhaseOK(a, s)
  BY <1>1, <1>2 DEF PhaseOK, Runs
<1>5. TimeOK(a, s, w, tick, seen)
  BY <1>1, <1>2, <1>3 DEF TimeOK
<1> QED BY <1>1, <1>4, <1>5 DEF a

LEMMA VruntimeNumber ==
  ASSUME NEW s \in TaskSpec, ValidTask(s)
  PROVE  vruntimeDelta(combineWeight(s.weight, GroupWeight(s))) \in Nat
<1>1. /\ default_weight \in Nat /\ default_weight > 0
      /\ max_task_weight \in Nat /\ max_task_weight > 0
      /\ vruntime_scale \in Nat
  BY SMT DEF default_weight, max_task_weight, vruntime_scale
<1>2. s.weight \in Nat
  BY DEF TaskSpec
<1>3. GroupWeight(s) \in Nat
  <2>1. s.group # Null => s.group \in DOMAIN Groups
    BY DEF ValidTask
  <2>2. \A g \in DOMAIN Groups : Groups[g].weight \in Nat
    BY SimAssumption, <1>1
  <2> QED BY <1>1, <2>1, <2>2 DEF GroupWeight
<1> DEFINE combined == (s.weight * GroupWeight(s)) \div default_weight
<1>4. combined \in Int
  BY <1>1, <1>2, <1>3
<1>5. combineWeight(s.weight, GroupWeight(s)) \in Nat \ {0}
  <2>1. combineWeight(s.weight, GroupWeight(s)) =
          CASE combined < 1 -> 1
            [] combined > max_task_weight -> max_task_weight
            [] OTHER -> combined
    BY DEF combineWeight
  <2> HIDE DEF combined
  <2> QED BY <1>1, <1>4, <2>1
<1>6. ASSUME NEW w \in Nat \ {0} PROVE vruntimeDelta(w) \in Nat
  BY <1>1 DEF vruntimeDelta
<1> QED BY <1>5, <1>6

\* The record of a task after one tick of execution, before it completes or blocks.
LEMMA TickedFields ==
  ASSUME NEW s \in TaskSpec, ValidTask(s), NEW r \in RuntimeTask, tick \in Nat,
         r.remaining > 0, r.phase_remaining > 0
  PROVE  /\ Ticked(r, s) \in RuntimeTask
         /\ Ticked(r, s).state = r.state
         /\ Ticked(r, s).remaining = r.remaining - 1
         /\ Ticked(r, s).executed = r.executed + 1
         /\ Ticked(r, s).phase_remaining = r.phase_remaining - 1
         /\ Ticked(r, s).phase_index = r.phase_index
         /\ Ticked(r, s).blocked_time = r.blocked_time
         /\ Ticked(r, s).first_dispatch = r.first_dispatch
         /\ Ticked(r, s).last_execution = tick
<1> DEFINE b == [r EXCEPT !.remaining = @ - 1, !.executed = @ + 1,
                          !.phase_remaining = @ - 1, !.last_execution = tick]
<1>0. /\ r.remaining - 1 \in Nat /\ r.executed + 1 \in Nat /\ r.phase_remaining - 1 \in Nat
      /\ r.vruntime \in Nat
  BY DEF RuntimeTask
<1>1. b \in RuntimeTask /\ b.state = r.state /\ b.vruntime = r.vruntime
  BY <1>0 DEF RuntimeTask
<1>2. /\ b.remaining = r.remaining - 1
      /\ b.executed = r.executed + 1
      /\ b.phase_remaining = r.phase_remaining - 1
      /\ b.phase_index = r.phase_index
      /\ b.blocked_time = r.blocked_time
      /\ b.first_dispatch = r.first_dispatch
      /\ b.last_execution = tick
  BY DEF RuntimeTask
<1>3. Ticked(r, s) = onTaskTick(b, s)
  BY DEF Ticked
<1> HIDE DEF b
<1>4. CASE policy # "cfs_like"
  BY <1>1, <1>2, <1>3, <1>4 DEF onTaskTick
<1>5. CASE policy = "cfs_like"
  <2>1. PICK d \in Nat : Ticked(r, s) = [b EXCEPT !.vruntime = b.vruntime + d]
    BY <1>3, <1>5, VruntimeNumber DEF onTaskTick
  <2>2. b.vruntime + d \in Nat
    BY <1>0, <1>1
  <2> QED BY <1>1, <1>2, <2>1, <2>2 DEF RuntimeTask
<1> QED BY <1>4, <1>5

\* One tick of execution goes on, blocks or completes, with no error.
LEMMA ExecuteTask ==
  ASSUME NEW t \in Tasks, spec[t] \in TaskSpec, ValidTask(spec[t]), rt[t] \in RuntimeTask,
         waited[t] \in Nat, tick \in Nat, rt[t].state = "running",
         PhaseOK(rt[t], spec[t]), TimeOK(rt[t], spec[t], waited[t], tick, tick + 1)
  PROVE  /\ Executed(t) \in RuntimeTask
         /\ Executed(t).state \in {"running", "blocked", "complete"}
         /\ Executed(t).state = "complete" => Executed(t).completion = tick + 1
         /\ PhaseOK(Executed(t), spec[t])
         /\ TimeOK(Executed(t), spec[t], waited[t], tick + 1, tick + 1)
         /\ ~BadExecution(t)
<1> DEFINE r == rt[t]
           s == spec[t]
           w == waited[t]
           i == r.phase_index
           b == Ticked(r, s)
           e == Executed(t)
<1>1. r.remaining > 0 /\ r.phase_remaining > 0
  <2>1. s.phases = <<>> => r.phase_remaining = r.remaining
    BY DEF PhaseOK
  <2>2. s.phases # <<>> => /\ i \in 1..Len(s.phases)
                           /\ r.remaining = r.phase_remaining + CpuAfter(s, i)
    BY DEF PhaseOK, Runs
  <2>3. s.phases # <<>> => CpuAfter(s, i) \in Nat
    BY <2>2, TickFacts
  <2>4. r.phase_remaining > 0 /\ r.phase_remaining \in Nat
    BY DEF PhaseOK, Runs, RuntimeTask
  <2> QED BY <2>1, <2>2, <2>3, <2>4
<1>2. /\ b \in RuntimeTask
      /\ b.state = "running"
      /\ b.remaining = r.remaining - 1
      /\ b.executed = r.executed + 1
      /\ b.phase_remaining = r.phase_remaining - 1
      /\ b.phase_index = i
      /\ b.blocked_time = r.blocked_time
      /\ b.first_dispatch = r.first_dispatch
      /\ b.last_execution = tick
  BY <1>1, TickedFields
<1>3. e = IF b.remaining = 0 THEN Completed(b)
          ELSE IF shouldBlockAfterExecution(b, s) THEN Blocked(b, s.phases[b.phase_index + 1])
          ELSE b
  BY DEF Executed
<1>4. r.last_execution # tick
  BY SimAssumption DEF TimeOK, RuntimeTask
<1>5. BadExecution(t) => /\ shouldBlockAfterExecution(b, s)
                         /\ b.remaining # 0
                         /\ s.phases[b.phase_index + 1].kind # "wait"
  BY <1>4 DEF BadExecution
<1>6. /\ r.remaining \in Nat /\ r.executed \in Nat /\ r.phase_remaining \in Nat
      /\ r.blocked_time \in Nat /\ i \in Nat
  BY DEF RuntimeTask
<1>7. s.arrival \in Nat /\ s.burst \in Nat /\ w \in Nat
  BY SpecFacts
<1>8. /\ r.executed + r.remaining = s.burst
      /\ s.phases = <<>> => i = 1 /\ r.phase_remaining = r.remaining
      /\ s.phases # <<>> => /\ i \in 1..Len(s.phases) /\ i % 2 = 1
                            /\ r.remaining = r.phase_remaining + CpuAfter(s, i)
  BY DEF PhaseOK, Runs
<1>9. /\ tick = s.arrival + r.executed + w + r.blocked_time
      /\ r.blocked_time = IF s.phases = <<>> THEN 0 ELSE WaitUpTo(s, i)
      /\ r.first_dispatch # Null /\ r.first_dispatch \in s.arrival .. s.arrival + w
  BY DEF TimeOK
<1>10. s.phases # <<>> =>
         /\ CpuAfter(s, i) \in Nat /\ WaitUpTo(s, i) \in Nat
         /\ i = Len(s.phases) => CpuAfter(s, i) = 0
         /\ i < Len(s.phases) =>
              /\ CpuAfter(s, i) = CpuAfter(s, i + 1)
              /\ CpuAfter(s, i) > 0
              /\ WaitUpTo(s, i + 1) = WaitUpTo(s, i) + s.phases[i + 1].ticks
  BY <1>8, TickFacts
<1>11. s.phases # <<>> =>
         /\ Len(s.phases) \in Nat
         /\ \A j \in 1..Len(s.phases) :
              /\ s.phases[j].ticks \in Nat /\ s.phases[j].ticks > 0
              /\ j % 2 # 1 => s.phases[j].kind = "wait"
  BY PhaseFacts
<1> HIDE DEF b, e, r, s, w, i
<1>12. tick + 1 = s.arrival + b.executed + w + b.blocked_time
  BY <1>2, <1>6, <1>7, <1>9, SMTT(30)
<1>13. b.executed + b.remaining = s.burst
  BY <1>2, <1>6, <1>8
<1>14. CASE b.remaining = 0
  <2>1. e = [b EXCEPT !.state = "complete", !.completion = tick + 1]
    BY <1>3, <1>14 DEF Completed
  <2>2. /\ e \in RuntimeTask /\ e.state = "complete" /\ e.completion = tick + 1
        /\ e.remaining = 0 /\ e.executed = b.executed /\ e.phase_index = i
        /\ e.phase_remaining = b.phase_remaining /\ e.blocked_time = b.blocked_time
        /\ e.first_dispatch = r.first_dispatch /\ e.last_execution = tick
    <3>1. tick + 1 \in Nat
      OBVIOUS
    <3> QED BY <2>1, <1>2, <1>14, <3>1 DEF RuntimeTask
  <2>3. s.phases # <<>> => i = Len(s.phases)
    BY <1>1, <1>2, <1>6, <1>8, <1>10, <1>11, <1>14, SMTT(30)
  <2>4. s.phases = <<>> => b.phase_remaining = 0
    BY <1>2, <1>6, <1>8, <1>14
  <2>5. PhaseOK(e, s)
    BY <2>2, <2>3, <2>4, <1>8, <1>13, <1>14 DEF PhaseOK, Runs
  <2>6. TimeOK(e, s, w, tick + 1, tick + 1)
    BY <2>2, <1>2, <1>9, <1>12 DEF TimeOK
  <2> QED BY <2>2, <2>5, <2>6, <1>5, <1>14 DEF e, s, w
<1>15. CASE b.remaining # 0 /\ shouldBlockAfterExecution(b, s)
  <2>1. s.phases # <<>> /\ b.phase_remaining = 0 /\ i + 1 <= Len(s.phases)
    BY <1>15, <1>2 DEF shouldBlockAfterExecution
  <2>2. /\ i \in Nat /\ i + 1 \in 1..Len(s.phases) /\ i < Len(s.phases)
        /\ (i + 1) % 2 = 0 /\ (i + 1) % 2 # 1
    BY <2>1, <1>6, <1>8, <1>11, Parity
  <2>3. /\ s.phases[i + 1].ticks \in Nat /\ s.phases[i + 1].ticks > 0
        /\ s.phases[i + 1].kind = "wait"
    BY <2>1, <2>2, <1>11
  <2>4. e = [b EXCEPT !.state = "blocked", !.phase_index = i + 1,
                      !.phase_remaining = s.phases[i + 1].ticks,
                      !.wake_tick = tick + 1 + s.phases[i + 1].ticks]
    BY <1>2, <1>3, <1>15 DEF Blocked, RuntimeTask
  <2>5. i + 1 \in Nat /\ tick + 1 + s.phases[i + 1].ticks \in Nat
    BY <2>2, <2>3
  <2>6. /\ e \in RuntimeTask /\ e.state = "blocked"
        /\ e.remaining = b.remaining /\ e.executed = b.executed /\ e.phase_index = i + 1
        /\ e.blocked_time = b.blocked_time
        /\ e.wake_tick = tick + 1 + s.phases[i + 1].ticks
        /\ e.first_dispatch = r.first_dispatch /\ e.last_execution = tick
    BY <2>3, <2>4, <2>5, <1>2, ZenonT(30) DEF RuntimeTask
  <2>7. b.remaining = CpuAfter(s, i + 1)
    <3>1. CpuAfter(s, i) = CpuAfter(s, i + 1) /\ CpuAfter(s, i) \in Nat
      BY <2>1, <2>2, <1>10
    <3>2. r.remaining = r.phase_remaining + CpuAfter(s, i)
      BY <2>1, <1>8
    <3>3. r.remaining - 1 = CpuAfter(s, i)
      BY <3>1, <3>2, <2>1, <1>2, <1>6, SMTT(30)
    <3> QED BY <3>1, <3>3, <1>2
  <2>8. PhaseOK(e, s)
    BY <2>1, <2>2, <2>6, <2>7, <1>13 DEF PhaseOK, Runs
  <2>9. e.blocked_time + e.wake_tick - (tick + 1) = WaitUpTo(s, e.phase_index)
    <3>1. r.blocked_time = WaitUpTo(s, i) /\ WaitUpTo(s, i) \in Nat
      BY <2>1, <1>9, <1>10
    <3>2. WaitUpTo(s, i + 1) = WaitUpTo(s, i) + s.phases[i + 1].ticks
      BY <2>1, <2>2, <1>10
    <3> QED BY <3>1, <3>2, <2>3, <2>6, <1>2
  <2>10. e.wake_tick \in Nat /\ e.wake_tick >= tick + 1
    BY <2>3, <2>6
  <2>11. TimeOK(e, s, w, tick + 1, tick + 1)
    BY <2>6, <2>9, <2>10, <1>2, <1>9, <1>12 DEF TimeOK
  <2> QED BY <2>3, <2>6, <2>8, <2>11, <1>2, <1>5 DEF e, s, w
<1>16. CASE b.remaining # 0 /\ ~shouldBlockAfterExecution(b, s)
  <2>1. e = b
    BY <1>3, <1>16
  <2>2. b.phase_remaining > 0
    <3>1. CASE s.phases = <<>>
      BY <3>1, <1>2, <1>6, <1>8, <1>16, <1>1
    <3>2. CASE s.phases # <<>>
      BY <3>2, <1>2, <1>6, <1>8, <1>10, <1>11, <1>16, <1>1 DEF shouldBlockAfterExecution
    <3> QED BY <3>1, <3>2
  <2>3. PhaseOK(b, s)
    <3>1. s.phases # <<>> => b.remaining = b.phase_remaining + CpuAfter(s, i)
      BY <1>2, <1>6, <1>8, <1>10
    <3>2. s.phases = <<>> => b.remaining = b.phase_remaining
      BY <1>2, <1>8
    <3> QED BY <2>2, <3>1, <3>2, <1>2, <1>8, <1>13 DEF PhaseOK, Runs
  <2>4. TimeOK(b, s, w, tick + 1, tick + 1)
    BY <1>2, <1>9, <1>12 DEF TimeOK
  <2> QED BY <2>1, <2>3, <2>4, <1>2, <1>5, <1>16 DEF e, s, w
<1> QED BY <1>14, <1>15, <1>16

\* A tick of execution of the others: a ready task waits, the rest let it pass.
LEMMA WaitTask ==
  ASSUME NEW s \in TaskSpec, ValidTask(s), NEW r \in RuntimeTask,
         NEW w \in Nat, NEW now \in Nat, r.state # "running",
         r.state = "pending" => s.arrival > now,
         TimeOK(r, s, w, now, now + 1)
  PROVE  TimeOK(r, s, IF r.state = "ready" THEN w + 1 ELSE w, now + 1, now + 1)
<1>1. s.arrival \in Nat
  BY SpecFacts
<1>2. /\ r.executed \in Nat /\ r.blocked_time \in Nat /\ r.last_execution \in Nat \cup {Null}
      /\ r.first_dispatch \in Nat \cup {Null}
      /\ r.state \in {"pending", "ready", "running", "blocked", "complete"}
  BY DEF RuntimeTask
<1>3. r.last_execution # Null => r.last_execution < now + 1
  BY <1>2 DEF TimeOK
<1>4. CASE r.state = "ready"
  <2>1. now + 1 = s.arrival + r.executed + (w + 1) + r.blocked_time
    BY <1>1, <1>2, <1>4, SMTT(30) DEF TimeOK
  <2>2. r.first_dispatch # Null => r.first_dispatch \in s.arrival .. s.arrival + (w + 1)
    BY <1>1, <1>2 DEF TimeOK
  <2> QED BY <2>1, <2>2, <1>3, <1>4 DEF TimeOK
<1>5. CASE r.state # "ready"
  BY <1>1, <1>2, <1>3, <1>5 DEF TimeOK
<1> QED BY <1>4, <1>5

-----------------------------------------------------------------------------
(* The steps of a tick, as both loops take them                            *)

Fixed == UNCHANGED <<spec, policy, quantum, tick, completion_order, report, waited, streak>>

LEMMA TaskTypes ==
  ASSUME SimTypeOK, NEW t \in Tasks
  PROVE  /\ spec[t] \in TaskSpec /\ ValidTask(spec[t]) /\ spec[t].arrival \in Nat
         /\ rt[t] \in RuntimeTask
         /\ rt[t].state \in {"pending", "ready", "running", "blocked", "complete"}
         /\ waited[t] \in Nat /\ streak[t] \in Nat /\ tick \in Nat
<1>1. spec[t] \in TaskSpec /\ ValidTask(spec[t])
  BY SimAssumption DEF SimTypeOK
<1>2. rt[t] \in RuntimeTask
  BY DEF SimTypeOK
<1>3. rt[t].state \in {"pending", "ready", "running", "blocked", "complete"}
  BY <1>2 DEF RuntimeTask
<1> QED BY <1>1, <1>2, <1>3, SpecFacts DEF SimTypeOK

LEMMA SimStart == SimInit => SimInv
<1> SUFFICES ASSUME SimInit PROVE SimInv
  OBVIOUS
<1>1. spec \in [Tasks -> TaskSpecs] /\ \A t \in Tasks : ValidTask(spec[t])
  BY DEF SimInit
<1>2. \A t \in Tasks : spec[t] \in TaskSpec
  BY <1>1, SimAssumption
<1>3. \A t \in Tasks : rt[t] = initRuntime(spec[t]) /\ waited[t] = 0 /\ streak[t] = 0
  BY DEF SimInit
<1>4. \A t \in Tasks : /\ rt[t] \in RuntimeTask
                       /\ PhaseOK(rt[t], spec[t])
                       /\ TimeOK(rt[t], spec[t], 0, 0, 0)
                       /\ rt[t].state = "pending"
  BY <1>1, <1>2, <1>3, StartTask
<1>5. tick = 0 /\ pc = "wake" /\ completion_order = <<>>
  BY DEF SimInit
<1>6. SimTypeOK
  <2>1. rt \in [Tasks -> RuntimeTask]
    BY <1>4 DEF SimInit
  <2>2. waited \in [Tasks -> Nat] /\ streak \in [Tasks -> Nat] /\ completion_order \in Seq(Tasks)
    BY DEF SimInit
  <2> QED BY <1>1, <1>5, <2>1, <2>2 DEF SimInit, SimTypeOK
<1>7. TasksOK
  BY <1>3, <1>4, <1>5 DEF TasksOK, Seen
<1>8. CompletionOK
  BY <1>4, <1>5 DEF CompletionOK, IsInjective, ToSet
<1> QED BY <1>5, <1>6, <1>7, <1>8 DEF SimInv, ReportOK

LEMMA CompletionKept ==
  ASSUME SimTypeOK, CompletionOK, completion_order' = completion_order,
         \A t \in Tasks : /\ rt'[t].state = "complete" <=> rt[t].state = "complete"
                          /\ rt[t].state = "complete" => rt'[t].completion = rt[t].completion
  PROVE  CompletionOK'
<1>1. \A i \in DOMAIN completion_order :
        completion_order[i] \in Tasks /\ rt[completion_order[i]].state = "complete"
  BY ElementOfSeq, LenProperties DEF SimTypeOK, CompletionOK, ToSet
<1> QED BY <1>1 DEF CompletionOK, SimTypeOK

\* The loop over the blocked tasks meets no error.
LEMMA WakesWell ==
  ASSUME SimInv, pc = "wake", NEW t \in Woken
  PROVE  ~BadWake(t)
<1>1. SimTypeOK /\ TasksOK /\ Seen = tick
  BY DEF SimInv, Seen
<1>2. t \in Tasks /\ rt[t].state = "blocked" /\ rt[t].wake_tick = tick
  BY DEF Woken, InState
<1>3. PhaseOK(rt[t], spec[t]) /\ TimeOK(rt[t], spec[t], waited[t], tick, tick)
  BY <1>1, <1>2 DEF TasksOK
<1>4. /\ spec[t] \in TaskSpec /\ ValidTask(spec[t]) /\ rt[t] \in RuntimeTask
      /\ waited[t] \in Nat /\ tick \in Nat
  BY <1>1, <1>2, TaskTypes
<1>5. /\ rt[t].phase_index + 1 \in 1..Len(spec[t].phases)
      /\ spec[t].phases[rt[t].phase_index + 1].kind = "cpu"
      /\ spec[t].phases # <<>>
  BY <1>2, <1>3, <1>4, WakeTask
<1>6. Len(spec[t].phases) \in Nat
  BY <1>4, <1>5, PhaseFacts
<1> QED BY <1>5, <1>6 DEF BadWake

\* It makes the due tasks ready and leaves the others blocked.
LEMMA WakeStep ==
  ASSUME SimInv, pc = "wake", rt' = AfterWakeups, Fixed, pc' = "arrive"
  PROVE  /\ SimInv'
         /\ \A t \in Tasks :
              rt'[t].state = IF t \in Woken THEN "ready" ELSE rt[t].state
<1> USE DEF SimInv, Fixed
<1>0. SimTypeOK /\ TasksOK /\ CompletionOK /\ Seen = tick /\ Seen' = tick + 1
  BY DEF Seen
<1>1. ASSUME NEW t \in Tasks, t \in Woken
      PROVE  /\ rt'[t] \in RuntimeTask /\ rt'[t].state = "ready"
             /\ PhaseOK(rt'[t], spec[t])
             /\ TimeOK(rt'[t], spec[t], waited[t], tick, tick + 1)
  <2>1. rt[t].state = "blocked" /\ rt[t].wake_tick = tick
    BY <1>1 DEF Woken, InState
  <2>2. rt'[t] = Awake(rt[t], spec[t])
    BY <1>1 DEF AfterWakeups, Awake
  <2>3. PhaseOK(rt[t], spec[t]) /\ TimeOK(rt[t], spec[t], waited[t], tick, tick)
    BY <1>0 DEF TasksOK
  <2>4. /\ rt'[t] \in RuntimeTask /\ rt'[t].state = "ready"
        /\ PhaseOK(rt'[t], spec[t])
        /\ TimeOK(rt'[t], spec[t], waited[t], tick, tick + 1)
    <3>1. /\ spec[t] \in TaskSpec /\ ValidTask(spec[t]) /\ rt[t] \in RuntimeTask
          /\ waited[t] \in Nat /\ tick \in Nat
      BY <1>0, TaskTypes
    <3> QED BY <3>1, <2>1, <2>2, <2>3, WakeTask
  <2> QED BY <2>4
<1>2. ASSUME NEW t \in Tasks, t \notin Woken, rt[t].state = "blocked"
      PROVE  /\ rt'[t] \in RuntimeTask /\ rt'[t].state = "blocked"
             /\ PhaseOK(rt'[t], spec[t])
             /\ TimeOK(rt'[t], spec[t], waited[t], tick, tick + 1)
  <2>1. rt[t].wake_tick # tick
    BY <1>2 DEF Woken, InState
  <2>2. rt'[t] = [rt[t] EXCEPT !.blocked_time = @ + 1]
    BY <1>2 DEF AfterWakeups
  <2>3. PhaseOK(rt[t], spec[t]) /\ TimeOK(rt[t], spec[t], waited[t], tick, tick)
    BY <1>0 DEF TasksOK
  <2> QED BY <1>0, <1>2, <2>1, <2>2, <2>3, TaskTypes, StayTask
<1>3. ASSUME NEW t \in Tasks, rt[t].state # "blocked"
      PROVE  /\ rt'[t] = rt[t]
             /\ t \notin Woken
             /\ TimeOK(rt'[t], spec[t], waited[t], tick, tick + 1)
  <2>1. rt'[t] = rt[t] /\ t \notin Woken
    BY <1>3 DEF AfterWakeups, Woken, InState
  <2> QED BY <1>0, <1>3, <2>1 DEF TasksOK, TimeOK
<1>4. \A t \in Tasks : rt'[t] \in RuntimeTask
  BY <1>0, <1>1, <1>2, <1>3, TaskTypes
<1>5. SimTypeOK'
  <2>1. rt' \in [Tasks -> RuntimeTask]
    BY <1>4 DEF AfterWakeups
  <2> QED BY <1>0, <2>1 DEF SimTypeOK
<1>6. TasksOK'
  <2> SUFFICES ASSUME NEW t \in Tasks
               PROVE  /\ PhaseOK(rt'[t], spec[t])
                      /\ TimeOK(rt'[t], spec[t], waited[t], tick, tick + 1)
                      /\ rt'[t].state \notin {"ready", "running"} => streak[t] = 0
                      /\ rt'[t].state = "running" => streak[t] = 0
    BY <1>0 DEF TasksOK
  <2>1. CASE t \in Woken
    BY <2>1, <1>1
  <2>2. CASE t \notin Woken /\ rt[t].state = "blocked"
    BY <2>2, <1>0, <1>2 DEF TasksOK
  <2>3. CASE rt[t].state # "blocked"
    BY <2>3, <1>0, <1>3 DEF TasksOK
  <2> QED BY <2>1, <2>2, <2>3
<1>7. \A t \in Woken : t \in Tasks /\ rt[t].state = "blocked"
  BY DEF Woken, InState
<1>8. CompletionOK'
  <2>1. ASSUME NEW t \in Tasks
        PROVE  /\ rt'[t].state = "complete" <=> rt[t].state = "complete"
               /\ rt[t].state = "complete" => rt'[t].completion = rt[t].completion
    BY <1>1, <1>2, <1>3, <1>7
  <2> QED BY <1>0, <2>1, CompletionKept
<1>9. ReportOK'
  BY DEF ReportOK
<1> QED BY <1>1, <1>2, <1>3, <1>5, <1>6, <1>7, <1>8, <1>9

\* Arrivals and preemptions make the tasks of S ready.
LEMMA ReadyStep ==
  ASSUME SimInv, NEW S, S \subseteq Tasks,
         \A t \in S : rt[t].state = "running" \/ t \in Arriving,
         rt' = [t \in Tasks |-> IF t \in S THEN [rt[t] EXCEPT !.state = "ready"] ELSE rt[t]],
         Fixed, pc \notin {"wake", "execute", "done"}, pc' \notin {"wake", "done"},
         pc' = pc \/ pc # "arrive" \/ Arriving \subseteq S
  PROVE  /\ SimInv'
         /\ \A t \in Tasks : /\ rt'[t].state = IF t \in S THEN "ready" ELSE rt[t].state
                             /\ rt'[t].vruntime = rt[t].vruntime
<1> USE DEF SimInv, Fixed
<1>0. SimTypeOK /\ TasksOK /\ CompletionOK /\ Seen = tick + 1 /\ Seen' = tick + 1
  BY DEF Seen
<1>1. ASSUME NEW t \in Tasks, t \in S
      PROVE  /\ rt'[t] \in RuntimeTask /\ rt'[t].state = "ready"
             /\ PhaseOK(rt'[t], spec[t])
             /\ TimeOK(rt'[t], spec[t], waited[t], tick, tick + 1)
             /\ rt'[t].vruntime = rt[t].vruntime
             /\ rt[t].state # "complete"
  <2>1. rt[t].state = "running" \/ (rt[t].state = "pending" /\ spec[t].arrival = tick)
    BY <1>1 DEF Arriving, InState
  <2>2. rt'[t] = [rt[t] EXCEPT !.state = "ready"]
    BY <1>1
  <2>3. PhaseOK(rt[t], spec[t]) /\ TimeOK(rt[t], spec[t], waited[t], tick, tick + 1)
    BY <1>0 DEF TasksOK
  <2>4. tick + 1 \in Nat
    BY <1>0 DEF SimTypeOK
  <2>5. /\ rt'[t] \in RuntimeTask /\ rt'[t].state = "ready"
        /\ PhaseOK(rt'[t], spec[t])
        /\ TimeOK(rt'[t], spec[t], waited[t], tick, tick + 1)
    BY <1>0, <2>1, <2>2, <2>3, <2>4, TaskTypes, ReadyTask
  <2>6. rt[t] \in RuntimeTask
    BY <1>0, TaskTypes
  <2> QED BY <2>1, <2>2, <2>5, <2>6 DEF RuntimeTask
<1>2. ASSUME NEW t \in Tasks, t \notin S PROVE rt'[t] = rt[t]
  BY <1>2
<1>3. \A t \in Tasks : rt'[t] \in RuntimeTask
  BY <1>0, <1>1, <1>2, TaskTypes
<1>4. SimTypeOK'
  <2>1. rt' \in [Tasks -> RuntimeTask]
    BY <1>3
  <2> QED BY <1>0, <2>1 DEF SimTypeOK
<1>5. TasksOK'
  <2> SUFFICES ASSUME NEW t \in Tasks
               PROVE  /\ PhaseOK(rt'[t], spec[t])
                      /\ TimeOK(rt'[t], spec[t], waited[t], tick, tick + 1)
                      /\ rt'[t].state = "pending" /\ pc' \notin {"wake", "arrive"}
                           => spec[t].arrival > tick
                      /\ rt'[t].state \notin {"ready", "running"} => streak[t] = 0
                      /\ rt'[t].state = "running" /\ pc' # "execute" => streak[t] = 0
    BY <1>0 DEF TasksOK
  <2>1. CASE t \in S
    BY <2>1, <1>1
  <2>2. CASE t \notin S
    <3>1. /\ PhaseOK(rt'[t], spec[t])
          /\ TimeOK(rt'[t], spec[t], waited[t], tick, tick + 1)
          /\ rt'[t].state \notin {"ready", "running"} => streak[t] = 0
          /\ rt'[t].state = "running" => streak[t] = 0
      BY <2>2, <1>0, <1>2 DEF TasksOK
    <3>2. ASSUME rt[t].state = "pending", pc' \notin {"wake", "arrive"}
          PROVE  spec[t].arrival > tick
      <4>1. CASE pc # "arrive"
        BY <4>1, <3>2, <1>0 DEF TasksOK
      <4>2. CASE pc = "arrive"
        <5>1. t \notin Arriving
          BY <4>2, <3>2, <2>2
        <5>2. spec[t].arrival # tick /\ spec[t].arrival >= tick
          BY <5>1, <3>2, <1>0 DEF Arriving, InState, TasksOK, TimeOK
        <5> QED BY <5>2, <1>0, TaskTypes
      <4> QED BY <4>1, <4>2
    <3> QED BY <3>1, <3>2, <2>2, <1>2
  <2> QED BY <2>1, <2>2
<1>6. CompletionOK'
  <2>1. ASSUME NEW t \in Tasks
        PROVE  /\ rt'[t].state = "complete" <=> rt[t].state = "complete"
               /\ rt[t].state = "complete" => rt'[t].completion = rt[t].completion
    BY <1>1, <1>2
  <2> QED BY <1>0, <2>1, CompletionKept
<1>7. ReportOK'
  BY DEF ReportOK
<1> QED BY <1>1, <1>2, <1>4, <1>5, <1>6, <1>7

\* A stage that changes no task.
LEMMA PassStep ==
  ASSUME SimInv, UNCHANGED rt, Fixed, pc \notin {"wake", "arrive", "execute", "done"},
         pc' \notin {"wake", "done"}
  PROVE  SimInv'
<1>1. Seen = tick + 1 /\ Seen' = tick + 1
  BY DEF Seen, Fixed
<1>2. SimTypeOK'
  BY DEF SimInv, SimTypeOK, Fixed
<1>3. TasksOK'
  BY <1>1 DEF SimInv, TasksOK, Fixed
<1>4. CompletionOK'
  BY CompletionKept DEF SimInv, Fixed
<1> QED BY <1>2, <1>3, <1>4 DEF SimInv, ReportOK

\* Dispatch starts the tasks of S.
LEMMA DispatchStep ==
  ASSUME SimInv, NEW S, S \subseteq InState("ready"),
         rt' = [t \in Tasks |-> IF t \in S THEN Dispatched(rt[t]) ELSE rt[t]],
         Fixed, pc \notin {"wake", "arrive", "execute", "done"}, pc' = "execute"
  PROVE  /\ SimInv'
         /\ \A t \in Tasks : /\ rt'[t].state = IF t \in S THEN "running" ELSE rt[t].state
                             /\ rt'[t].vruntime = rt[t].vruntime
<1> USE DEF SimInv, Fixed
<1>0. SimTypeOK /\ TasksOK /\ CompletionOK /\ Seen = tick + 1 /\ Seen' = tick + 1
  BY DEF Seen
<1>1. ASSUME NEW t \in Tasks, t \in S
      PROVE  /\ rt'[t] \in RuntimeTask /\ rt'[t].state = "running"
             /\ PhaseOK(rt'[t], spec[t])
             /\ TimeOK(rt'[t], spec[t], waited[t], tick, tick + 1)
             /\ rt'[t].vruntime = rt[t].vruntime
             /\ rt[t].state = "ready"
  <2>1. rt[t].state = "ready" /\ rt'[t] = Dispatched(rt[t])
    BY <1>1 DEF InState
  <2>2. PhaseOK(rt[t], spec[t]) /\ TimeOK(rt[t], spec[t], waited[t], tick, tick + 1)
    BY <1>0 DEF TasksOK
  <2>3. /\ spec[t] \in TaskSpec /\ ValidTask(spec[t]) /\ rt[t] \in RuntimeTask
        /\ waited[t] \in Nat /\ tick \in Nat /\ tick + 1 \in Nat
    BY <1>0, TaskTypes
  <2> QED BY <2>1, <2>2, <2>3, DispatchTask
<1>2. ASSUME NEW t \in Tasks, t \notin S PROVE rt'[t] = rt[t]
  BY <1>2
<1>3. \A t \in Tasks : rt'[t] \in RuntimeTask
  BY <1>0, <1>1, <1>2, TaskTypes
<1>4. SimTypeOK'
  <2>1. rt' \in [Tasks -> RuntimeTask]
    BY <1>3
  <2> QED BY <1>0, <2>1 DEF SimTypeOK
<1>5. TasksOK'
  <2> SUFFICES ASSUME NEW t \in Tasks
               PROVE  /\ PhaseOK(rt'[t], spec[t])
                      /\ TimeOK(rt'[t], spec[t], waited[t], tick, tick + 1)
                      /\ rt'[t].state = "pending" => spec[t].arrival > tick
                      /\ rt'[t].state \notin {"ready", "running"} => streak[t] = 0
    BY <1>0 DEF TasksOK
  <2>1. CASE t \in S
    BY <2>1, <1>1
  <2>2. CASE t \notin S
    BY <2>2, <1>0, <1>2 DEF TasksOK
  <2> QED BY <2>1, <2>2
<1>6. CompletionOK'
  <2>1. ASSUME NEW t \in Tasks
        PROVE  /\ rt'[t].state = "complete" <=> rt[t].state = "complete"
               /\ rt[t].state = "complete" => rt'[t].completion = rt[t].completion
    BY <1>1, <1>2
  <2> QED BY <1>0, <2>1, CompletionKept
<1>7. ReportOK'
  BY DEF ReportOK
<1> QED BY <1>1, <1>2, <1>4, <1>5, <1>6, <1>7

\* A tick of execution meets no error.
LEMMA ExecutesWell ==
  ASSUME SimInv, pc = "execute", NEW t \in Tasks, rt[t].state = "running"
  PROVE  /\ ~BadExecution(t)
         /\ Executed(t).state \in {"running", "blocked", "complete"}
<1>1. SimTypeOK /\ TasksOK /\ Seen = tick + 1 /\ tick \in Nat
  BY DEF SimInv, Seen, SimTypeOK
<1>2. PhaseOK(rt[t], spec[t]) /\ TimeOK(rt[t], spec[t], waited[t], tick, tick + 1)
  BY <1>1 DEF TasksOK
<1>3. /\ spec[t] \in TaskSpec /\ ValidTask(spec[t]) /\ rt[t] \in RuntimeTask
      /\ waited[t] \in Nat
  BY <1>1, TaskTypes
<1> QED BY <1>1, <1>2, <1>3, ExecuteTask

\* The running tasks S execute for one tick, and `finished' lists those that complete.
LEMMA ExecuteStep ==
  ASSUME SimInv, pc = "execute", pc' = "wake",
         NEW S, S = InState("running"),
         rt' = [t \in Tasks |-> IF t \in S THEN Executed(t) ELSE rt[t]],
         CountWaiting, tick' = tick + 1,
         NEW finished \in Seq(Tasks), IsInjective(finished),
         ToSet(finished) = {t \in S : Executed(t).state = "complete"},
         completion_order' = completion_order \o finished,
         UNCHANGED <<spec, policy, quantum, report>>
  PROVE  /\ SimInv'
         /\ \A t \in S : rt'[t].state \in {"running", "blocked", "complete"}
         /\ \A t \in Tasks \ S : rt'[t] = rt[t]
         /\ \A t \in Tasks : streak'[t] = IF rt[t].state = "ready" THEN streak[t] + 1 ELSE 0
<1> USE DEF SimInv
<1>0. SimTypeOK /\ TasksOK /\ CompletionOK /\ Seen = tick + 1 /\ Seen' = tick + 1 /\ tick \in Nat
  BY DEF Seen, SimTypeOK
<1>s. /\ S \subseteq Tasks
      /\ \A t \in Tasks : t \in S <=> rt[t].state = "running"
  BY DEF InState
<1>1. ASSUME NEW t \in S
      PROVE  /\ rt'[t] = Executed(t)
             /\ Executed(t) \in RuntimeTask
             /\ Executed(t).state \in {"running", "blocked", "complete"}
             /\ Executed(t).state = "complete" => Executed(t).completion = tick + 1
             /\ PhaseOK(Executed(t), spec[t])
             /\ TimeOK(Executed(t), spec[t], waited[t], tick + 1, tick + 1)
  <2>1. t \in Tasks /\ rt[t].state = "running" /\ rt'[t] = Executed(t)
    BY <1>1, <1>s
  <2>2. PhaseOK(rt[t], spec[t]) /\ TimeOK(rt[t], spec[t], waited[t], tick, tick + 1)
    BY <1>0, <2>1 DEF TasksOK
  <2>3. /\ spec[t] \in TaskSpec /\ ValidTask(spec[t]) /\ rt[t] \in RuntimeTask
        /\ waited[t] \in Nat
    BY <1>0, <2>1, TaskTypes
  <2> QED BY <1>0, <2>1, <2>2, <2>3, ExecuteTask
<1>2. ASSUME NEW t \in Tasks, t \notin S
      PROVE  /\ rt'[t] = rt[t] /\ rt[t].state # "running"
             /\ TimeOK(rt[t], spec[t], IF rt[t].state = "ready" THEN waited[t] + 1 ELSE waited[t],
                       tick + 1, tick + 1)
  <2>1. rt'[t] = rt[t] /\ rt[t].state # "running"
    BY <1>2, <1>s
  <2>2. /\ TimeOK(rt[t], spec[t], waited[t], tick, tick + 1)
        /\ rt[t].state = "pending" => spec[t].arrival > tick
    BY <1>0 DEF TasksOK
  <2>3. /\ spec[t] \in TaskSpec /\ ValidTask(spec[t]) /\ rt[t] \in RuntimeTask
        /\ waited[t] \in Nat
    BY <1>0, TaskTypes
  <2> QED BY <1>0, <2>1, <2>2, <2>3, WaitTask
<1>3. /\ waited' \in [Tasks -> Nat] /\ streak' \in [Tasks -> Nat]
      /\ \A t \in Tasks :
           /\ waited'[t] = IF rt[t].state = "ready" THEN waited[t] + 1 ELSE waited[t]
           /\ streak'[t] = IF rt[t].state = "ready" THEN streak[t] + 1 ELSE 0
  BY <1>0 DEF CountWaiting, SimTypeOK
<1>4. /\ completion_order \in Seq(Tasks)
      /\ completion_order' \in Seq(Tasks)
      /\ Len(completion_order) \in Nat /\ Len(finished) \in Nat
      /\ DOMAIN completion_order = 1..Len(completion_order)
      /\ DOMAIN finished = 1..Len(finished)
      /\ Len(completion_order') = Len(completion_order) + Len(finished)
      /\ DOMAIN completion_order' = 1..Len(completion_order) + Len(finished)
      /\ \A i \in 1..Len(completion_order) + Len(finished) :
           completion_order'[i] = IF i <= Len(completion_order) THEN completion_order[i]
                                  ELSE finished[i - Len(completion_order)]
  BY <1>0, ConcatProperties, LenProperties DEF SimTypeOK
<1>5. SimTypeOK'
  <2>1. rt' \in [Tasks -> RuntimeTask]
    <3>1. \A t \in Tasks : rt'[t] \in RuntimeTask
      BY <1>0, <1>1, <1>2, TaskTypes
    <3> QED BY <3>1
  <2> QED BY <1>0, <1>3, <1>4, <2>1 DEF SimTypeOK
<1>6. TasksOK'
  <2> SUFFICES ASSUME NEW t \in Tasks
               PROVE  /\ PhaseOK(rt'[t], spec[t])
                      /\ TimeOK(rt'[t], spec[t], waited'[t], tick + 1, tick + 1)
                      /\ rt'[t].state \notin {"ready", "running"} => streak'[t] = 0
                      /\ rt'[t].state = "running" => streak'[t] = 0
    BY <1>0 DEF TasksOK
  <2>1. CASE t \in S
    BY <2>1, <1>1, <1>3, <1>s
  <2>2. CASE t \notin S
    BY <2>2, <1>0, <1>2, <1>3 DEF TasksOK
  <2> QED BY <2>1, <2>2
<1>7. \A i \in DOMAIN completion_order :
        /\ completion_order[i] \in Tasks
        /\ rt[completion_order[i]].state = "complete"
        /\ completion_order[i] \notin S
        /\ rt'[completion_order[i]] = rt[completion_order[i]]
        /\ rt[completion_order[i]].completion \in Nat
        /\ rt[completion_order[i]].completion <= tick
  <2> SUFFICES ASSUME NEW i \in DOMAIN completion_order,
                      NEW t, t = completion_order[i]
               PROVE  /\ t \in Tasks /\ rt[t].state = "complete" /\ t \notin S /\ rt'[t] = rt[t]
                      /\ rt[t].completion \in Nat /\ rt[t].completion <= tick
    OBVIOUS
  <2>1. t \in Tasks
    BY <1>4, ElementOfSeq
  <2>2. rt[t].state = "complete"
    BY <1>0, <2>1 DEF CompletionOK, ToSet
  <2>3. t \notin S /\ rt'[t] = rt[t]
    BY <2>1, <2>2, <1>2, <1>s
  <2>4. TimeOK(rt[t], spec[t], waited[t], tick, tick + 1)
    BY <1>0, <2>1 DEF TasksOK
  <2> QED BY <2>1, <2>2, <2>3, <2>4 DEF TimeOK
<1>8. \A i \in DOMAIN finished :
        /\ finished[i] \in S
        /\ rt'[finished[i]].state = "complete"
        /\ rt'[finished[i]].completion = tick + 1
  <2>1. \A i \in DOMAIN finished : finished[i] \in S /\ Executed(finished[i]).state = "complete"
    BY DEF ToSet
  <2> QED BY <2>1, <1>1
<1>9. CompletionOK'
  <2> DEFINE n == Len(completion_order)
             co == completion_order'
  <2>1. ASSUME NEW i \in DOMAIN co, NEW j \in DOMAIN co, co[i] = co[j]
        PROVE  i = j
    <3>1. CASE i <= n /\ j <= n
      BY <3>1, <2>1, <1>0, <1>4 DEF CompletionOK, IsInjective
    <3>2. CASE i > n /\ j > n
      <4>1. i - n \in DOMAIN finished /\ j - n \in DOMAIN finished
            /\ finished[i - n] = finished[j - n]
        BY <3>2, <2>1, <1>4
      <4>2. i - n = j - n
        BY <4>1 DEF IsInjective
      <4> QED BY <4>2, <1>4
    <3>3. ASSUME NEW k \in DOMAIN co, NEW l \in DOMAIN co, k <= n, l > n
          PROVE  co[k] # co[l]
      <4>1. k \in DOMAIN completion_order /\ co[k] = completion_order[k]
        BY <3>3, <1>4
      <4>2. l - n \in DOMAIN finished /\ co[l] = finished[l - n]
        BY <3>3, <1>4
      <4> QED BY <4>1, <4>2, <1>7, <1>8, ZenonT(30)
    <3>4. i \in Int /\ j \in Int /\ n \in Int
      BY <1>4
    <3> HIDE DEF co, n
    <3> QED BY <3>1, <3>2, <3>3, <3>4, <2>1
  <2>2. ASSUME NEW t \in Tasks PROVE rt'[t].state = "complete" <=> t \in ToSet(co)
    <3>1. t \in ToSet(co) <=> t \in ToSet(completion_order) \/ t \in ToSet(finished)
      <4>1. ASSUME NEW i \in DOMAIN co
            PROVE  co[i] \in ToSet(completion_order) \/ co[i] \in ToSet(finished)
        <5>1. CASE i <= n
          <6>1. i \in DOMAIN completion_order /\ co[i] = completion_order[i]
            BY <5>1, <1>4
          <6> QED BY <6>1 DEF ToSet
        <5>2. CASE i > n
          <6>1. i - n \in DOMAIN finished /\ co[i] = finished[i - n]
            BY <5>2, <1>4
          <6> QED BY <6>1 DEF ToSet
        <5> QED BY <5>1, <5>2, <1>4
      <4>2. ASSUME NEW i \in DOMAIN completion_order
            PROVE  i \in DOMAIN co /\ co[i] = completion_order[i]
        BY <1>4
      <4>3. ASSUME NEW i \in DOMAIN finished
            PROVE  i + n \in DOMAIN co /\ co[i + n] = finished[i]
        BY <1>4
      <4> HIDE DEF co, n
      <4> QED BY <4>1, <4>2, <4>3 DEF ToSet
    <3>2. CASE t \in S
      BY <3>1, <3>2, <1>0, <1>1, <1>s DEF CompletionOK
    <3>3. CASE t \notin S
      BY <3>1, <3>3, <1>0, <1>2, <1>s DEF CompletionOK
    <3> QED BY <3>2, <3>3
  <2>3. ASSUME NEW i \in DOMAIN co, NEW j \in DOMAIN co, i < j
        PROVE  rt'[co[i]].completion <= rt'[co[j]].completion
    <3>1. CASE j <= n
      <4>1. i \in DOMAIN completion_order /\ j \in DOMAIN completion_order
            /\ co[i] = completion_order[i] /\ co[j] = completion_order[j]
        BY <3>1, <2>3, <1>4
      <4> QED BY <4>1, <2>3, <1>0, <1>7 DEF CompletionOK
    <3>2. CASE i <= n /\ j > n
      <4>1. i \in DOMAIN completion_order /\ j - n \in DOMAIN finished
            /\ co[i] = completion_order[i] /\ co[j] = finished[j - n]
        BY <3>2, <1>4
      <4>2. rt'[co[i]].completion <= tick /\ rt'[co[i]].completion \in Nat
            /\ rt'[co[j]].completion = tick + 1
        BY <4>1, <1>7, <1>8, ZenonT(30)
      <4> DEFINE x == rt'[co[i]].completion
                 y == rt'[co[j]].completion
      <4>3. x <= tick /\ x \in Nat /\ y = tick + 1 /\ tick \in Nat
        BY <4>2, <1>0
      <4> HIDE DEF x, y
      <4>4. x <= y
        BY <4>3
      <4> QED BY <4>4 DEF x, y
    <3>3. CASE i > n
      <4>1. i - n \in DOMAIN finished /\ j - n \in DOMAIN finished
            /\ co[i] = finished[i - n] /\ co[j] = finished[j - n]
        BY <3>3, <2>3, <1>4
      <4>2. rt'[co[i]].completion = tick + 1 /\ rt'[co[j]].completion = tick + 1
        BY <4>1, <1>8
      <4> QED BY <4>2, <1>0
    <3> QED BY <3>1, <3>2, <3>3, <1>4, SMTT(30)
  <2> QED BY <2>1, <2>2, <2>3 DEF CompletionOK, IsInjective
<1>10. ReportOK'
  BY DEF ReportOK
<1> QED BY <1>1, <1>2, <1>3, <1>5, <1>6, <1>9, <1>10

\* The end of the loop: every task has completed.
LEMMA FinalizeStep ==
  ASSUME SimInv, Finalize
  PROVE  SimInv' /\ pc' = "done"
<1>1. Seen = tick /\ Seen' = tick /\ pc = "wake" /\ pc' = "done"
  BY DEF Seen, Finalize
<1>2. UNCHANGED <<spec, policy, quantum, rt, tick, completion_order, waited, streak>>
  BY DEF Finalize
<1>3. SimTypeOK'
  BY <1>2 DEF SimInv, SimTypeOK
<1>4. CompletionOK'
  BY <1>2, CompletionKept DEF SimInv
<1>5. \A t \in Tasks : rt[t].state = "complete"
  <2>1. completion_order \in Seq(Tasks) /\ IsInjective(completion_order)
    BY DEF SimInv, SimTypeOK, CompletionOK
  <2>2. Len(completion_order) <= N /\ (Len(completion_order) = N => ToSet(completion_order) = Tasks)
    BY <2>1, TasksFinite, InjectiveLength
  <2>3. Len(completion_order) >= N /\ Len(completion_order) \in Nat /\ N \in Nat
    BY <2>1, LenProperties, SimAssumption DEF Finalize
  <2>4. ToSet(completion_order) = Tasks
    BY <2>2, <2>3
  <2> QED BY <2>4 DEF SimInv, CompletionOK
<1>6. TasksOK'
  BY <1>1, <1>2, <1>5 DEF SimInv, TasksOK
<1>7. ReportOK'
  <2>1. report' = [t \in Tasks |-> TaskMetrics(t)] /\ Len(completion_order) >= N
    BY DEF Finalize
  <2>2. (\A t \in Tasks : TaskMetrics(t)' = TaskMetrics(t))
    BY <1>2 DEF TaskMetrics
  <2> QED BY <1>2, <2>1, <2>2 DEF ReportOK
<1> QED BY <1>1, <1>3, <1>4, <1>6, <1>7 DEF SimInv

LEMMA SimStutter ==
  ASSUME SimInv,
         UNCHANGED <<spec, policy, quantum, rt, tick, completion_order, report, pc, waited, streak>>
  PROVE  SimInv'
<1>1. SimTypeOK'
  BY DEF SimInv, SimTypeOK
<1>2. TasksOK'
  BY DEF SimInv, TasksOK, Seen
<1>3. CompletionOK' /\ ReportOK'
  BY DEF SimInv, CompletionOK, ReportOK, TaskMetrics
<1> QED BY <1>1, <1>2, <1>3 DEF SimInv

\* The report follows from the accounts.
LEMMA ReportFollows ==
  ASSUME SimInv
  PROVE  ReportIsTrue
<1> SUFFICES ASSUME pc = "done" PROVE ReportIsTrue
  BY DEF ReportIsTrue
<1>1. completion_order \in Seq(Tasks) /\ IsInjective(completion_order)
  BY DEF SimInv, SimTypeOK, CompletionOK
<1>2. Len(completion_order) <= N /\ (Len(completion_order) = N => ToSet(completion_order) = Tasks)
  BY <1>1, TasksFinite, InjectiveLength
<1>3. /\ Len(completion_order) \in Nat /\ N \in Nat
      /\ DOMAIN completion_order = 1..Len(completion_order)
  BY <1>1, LenProperties, SimAssumption
<1>4. Len(completion_order) = N /\ ToSet(completion_order) = Tasks
  <2>1. Len(completion_order) >= N
    BY DEF SimInv, ReportOK
  <2> DEFINE n == Len(completion_order)
  <2>2. n <= N /\ n >= N /\ n \in Nat /\ N \in Nat
    BY <1>2, <1>3, <2>1
  <2> HIDE DEF n
  <2>3. n = N
    BY <2>2
  <2> QED BY <1>2, <2>3 DEF n
<1>5. ASSUME NEW i \in Tasks, NEW j \in Tasks, i < j
      PROVE  rt[completion_order[i]].completion <= rt[completion_order[j]].completion
  BY <1>3, <1>4, <1>5 DEF SimInv, CompletionOK, Tasks
<1>6. ASSUME NEW t \in Tasks
      PROVE  /\ report[t].waiting = waited[t]
             /\ report[t].turnaround =
                  spec[t].burst + waited[t] + TicksOf("wait", spec[t].phases, 1, Len(spec[t].phases))
             /\ report[t].response \in 0..waited[t]
             /\ rt[t].executed = spec[t].burst
  <2> DEFINE r == rt[t]  s == spec[t]  w == waited[t]
             waits == TicksOf("wait", s.phases, 1, Len(s.phases))
             turnaround == r.completion - s.arrival
  <2>1. r.state = "complete"
    BY <1>4 DEF SimInv, CompletionOK
  <2>2. s \in TaskSpec /\ ValidTask(s) /\ r \in RuntimeTask /\ w \in Nat
    BY TaskTypes DEF SimInv
  <2>3. PhaseOK(r, s) /\ TimeOK(r, s, w, tick, Seen)
    BY DEF SimInv, TasksOK
  <2>4. report[t] = [turnaround |-> turnaround,
                     waiting    |-> turnaround - s.burst - r.blocked_time,
                     response   |-> r.first_dispatch - s.arrival]
    BY DEF SimInv, ReportOK, TaskMetrics
  <2> HIDE DEF r, s, w
  <2>5. s.arrival \in Nat /\ s.burst \in Nat
    BY <2>2, SpecFacts
  <2>6. r.executed \in Nat /\ r.remaining \in Nat /\ r.blocked_time \in Nat
    BY <2>2 DEF RuntimeTask
  <2>7. r.executed = s.burst
    BY <2>1, <2>3, <2>5, <2>6 DEF PhaseOK
  <2>8. r.blocked_time = waits
    <3>1. CASE s.phases = <<>>
      <4>1. Len(s.phases) = 0
        BY <3>1
      <4>2. waits = 0
        BY <4>1, TicksNone
      <4> QED BY <4>2, <3>1, <2>1, <2>3 DEF TimeOK
    <3>2. CASE s.phases # <<>>
      BY <3>2, <2>1, <2>3 DEF TimeOK, PhaseOK, WaitUpTo
    <3> QED BY <3>1, <3>2
  <2> HIDE DEF waits
  <2>9. r.completion = s.arrival + r.executed + w + r.blocked_time /\ r.completion \in Nat
    BY <2>1, <2>3 DEF TimeOK
  <2>10. r.first_dispatch \in s.arrival .. s.arrival + w
    BY <2>1, <2>3 DEF TimeOK
  <2>11. turnaround = s.burst + w + waits
    BY <2>2, <2>5, <2>6, <2>7, <2>8, <2>9
  <2>12. turnaround - s.burst - r.blocked_time = w
    BY <2>2, <2>5, <2>6, <2>8, <2>11
  <2>13. r.first_dispatch - s.arrival \in 0..w
    BY <2>2, <2>5, <2>10
  <2>14. report[t].waiting = w /\ report[t].turnaround = s.burst + w + waits
         /\ report[t].response \in 0..w
    BY <2>4, <2>11, <2>12, <2>13
  <2> QED BY <2>7, <2>14 DEF r, s, w, waits
<1> QED BY <1>4, <1>5, <1>6 DEF ReportIsTrue

-----------------------------------------------------------------------------
(* Queues                                                                  *)

\* One queue after another.
LEMMA Joined ==
  ASSUME NEW T, NEW q \in Seq(T), NEW f \in Seq(T), IsInjective(q), IsInjective(f),
         ToSet(q) \cap ToSet(f) = {}
  PROVE  /\ q \o f \in Seq(T)
         /\ IsInjective(q \o f)
         /\ ToSet(q \o f) = ToSet(q) \cup ToSet(f)
         /\ DOMAIN (q \o f) = 1..Len(q) + Len(f)
         /\ \A i \in DOMAIN (q \o f) :
              \/ i \in DOMAIN q /\ (q \o f)[i] = q[i]
              \/ i > Len(q) /\ i - Len(q) \in DOMAIN f /\ (q \o f)[i] = f[i - Len(q)]
<1> DEFINE m == Len(q)  n == Len(f)  j == q \o f
<1>1. /\ m \in Nat /\ n \in Nat /\ DOMAIN q = 1..m /\ DOMAIN f = 1..n
      /\ j \in Seq(T) /\ DOMAIN j = 1..m + n
      /\ \A i \in 1..m + n : j[i] = IF i <= m THEN q[i] ELSE f[i - m]
  BY ConcatProperties, LenProperties
<1> HIDE DEF m, n, j
<1>2. \A i \in 1..m : i \in DOMAIN j /\ j[i] = q[i]
  BY <1>1
<1>3. \A i \in 1..n : m + i \in DOMAIN j /\ j[m + i] = f[i]
  BY <1>1
<1>4. \A i \in DOMAIN j : \/ i \in 1..m
                          \/ i > m /\ i - m \in 1..n /\ i = m + (i - m)
  BY <1>1
<1>5. \A i \in DOMAIN j : \/ i \in 1..m /\ j[i] = q[i] /\ q[i] \in ToSet(q)
                          \/ i > m /\ i - m \in 1..n /\ j[i] = f[i - m] /\ f[i - m] \in ToSet(f)
  <2> SUFFICES ASSUME NEW i \in DOMAIN j
               PROVE  \/ i \in 1..m /\ j[i] = q[i] /\ q[i] \in ToSet(q)
                      \/ i > m /\ i - m \in 1..n /\ j[i] = f[i - m] /\ f[i - m] \in ToSet(f)
    OBVIOUS
  <2>1. CASE i \in 1..m
    BY <2>1, <1>1, <1>2 DEF ToSet
  <2>2. CASE i > m /\ i - m \in 1..n /\ i = m + (i - m)
    <3>1. f[i - m] \in ToSet(f)
      BY <2>2, <1>1 DEF ToSet
    <3> QED BY <2>2, <3>1, <1>3
  <2> QED BY <2>1, <2>2, <1>4
<1>6. IsInjective(j)
  <2> SUFFICES ASSUME NEW a \in DOMAIN j, NEW b \in DOMAIN j, j[a] = j[b]
               PROVE  a = b
    BY DEF IsInjective
  <2>1. CASE a \in 1..m /\ b \in 1..m
    BY <2>1, <1>1, <1>2 DEF IsInjective
  <2>2. CASE a > m /\ b > m
    <3>1. a - m \in DOMAIN f /\ b - m \in DOMAIN f /\ f[a - m] = f[b - m]
      BY <2>2, <1>1, <1>5
    <3>2. a - m = b - m
      BY <3>1 DEF IsInjective
    <3> QED BY <3>2, <1>1
  <2>3. ~ (a \in 1..m /\ b > m) /\ ~ (b \in 1..m /\ a > m)
    <3>1. \A i \in DOMAIN j : i > m => j[i] \in ToSet(f)
      BY <1>5, <1>1
    <3>2. \A i \in DOMAIN j : i \in 1..m => j[i] \in ToSet(q)
      BY <1>5, <1>1
    <3> QED BY <3>1, <3>2
  <2> QED BY <2>1, <2>2, <2>3, <1>4
<1>7. ToSet(j) = ToSet(q) \cup ToSet(f)
  <2>1. ToSet(j) \subseteq ToSet(q) \cup ToSet(f)
    BY <1>5 DEF ToSet
  <2>2. ToSet(q) \subseteq ToSet(j)
    BY <1>1, <1>2 DEF ToSet
  <2>3. ToSet(f) \subseteq ToSet(j)
    <3> SUFFICES ASSUME NEW t \in ToSet(f) PROVE t \in ToSet(j)
      OBVIOUS
    <3>1. PICK i \in 1..n : t = f[i]
      BY <1>1 DEF ToSet
    <3>2. m + i \in DOMAIN j /\ j[m + i] = t
      BY ONLY <1>3, <3>1
    <3> QED BY ONLY <3>2 DEF ToSet
  <2> QED BY <2>1, <2>2, <2>3
<1> QED BY <1>1, <1>5, <1>6, <1>7 DEF m, n, j

\* A queue without its k-th task.
LEMMA Removed ==
  ASSUME NEW T, NEW q \in Seq(T), IsInjective(q), NEW k \in DOMAIN q
  PROVE  /\ RemoveAt(q, k) \in Seq(T)
         /\ IsInjective(RemoveAt(q, k))
         /\ ToSet(RemoveAt(q, k)) = ToSet(q) \ {q[k]}
         /\ Len(RemoveAt(q, k)) = Len(q) - 1
         /\ DOMAIN RemoveAt(q, k) = 1..Len(q) - 1
         /\ \A i \in 1..Len(q) - 1 : RemoveAt(q, k)[i] = IF i < k THEN q[i] ELSE q[i + 1]
<1> DEFINE n == Len(q)
           a == SubSeq(q, 1, k - 1)
           b == SubSeq(q, k + 1, n)
           r == RemoveAt(q, k)
<1>1. n \in Nat /\ DOMAIN q = 1..n /\ k \in 1..n /\ q \in [1..n -> T]
  BY LenProperties
<1>2. /\ a \in Seq(T) /\ Len(a) = k - 1
      /\ \A i \in 1..k - 1 : a[i] = q[i]
  BY <1>1, SubSeqProperties
<1>3. /\ b \in Seq(T) /\ Len(b) = n - k
      /\ \A i \in 1..n - k : b[i] = q[k + i]
  <2>1. k + 1 \in Int /\ n \in Int /\ \A i \in k + 1 .. n : q[i] \in T
    BY <1>1
  <2>2. /\ b \in Seq(T) /\ Len(b) = IF k + 1 <= n THEN n - (k + 1) + 1 ELSE 0
        /\ \A i \in 1 .. n - (k + 1) + 1 : b[i] = q[k + 1 + i - 1]
    BY <2>1, SubSeqProperties
  <2> HIDE DEF b, n
  <2>3. n - (k + 1) + 1 = n - k /\ \A i \in 1..n - k : k + 1 + i - 1 = k + i
    BY <1>1
  <2> QED BY <1>1, <2>2, <2>3
<1>4. r = a \o b
  BY DEF RemoveAt
<1> HIDE DEF a, b, n, r
<1>5. r \in Seq(T) /\ Len(r) = n - 1
      /\ \A i \in 1..n - 1 : r[i] = IF i <= k - 1 THEN a[i] ELSE b[i - (k - 1)]
  <2>1. /\ r \in Seq(T) /\ Len(r) = Len(a) + Len(b)
        /\ \A i \in 1..Len(a) + Len(b) : r[i] = IF i <= Len(a) THEN a[i] ELSE b[i - Len(a)]
    BY <1>2, <1>3, <1>4, ConcatProperties
  <2>2. Len(a) + Len(b) = n - 1
    BY <1>1, <1>2, <1>3
  <2> QED BY <2>1, <2>2, <1>2
<1>6. DOMAIN r = 1..n - 1
  BY <1>5, LenProperties
<1>7. \A i \in 1..n - 1 : r[i] = IF i < k THEN q[i] ELSE q[i + 1]
  <2> SUFFICES ASSUME NEW i \in 1..n - 1 PROVE r[i] = IF i < k THEN q[i] ELSE q[i + 1]
    OBVIOUS
  <2>1. CASE i < k
    BY <2>1, <1>1, <1>2, <1>5
  <2>2. CASE i >= k
    <3>1. i - (k - 1) \in 1..n - k /\ k + (i - (k - 1)) = i + 1 /\ ~(i <= k - 1)
      BY <2>2, <1>1
    <3>2. r[i] = b[i - (k - 1)]
      BY <3>1, <1>5
    <3> QED BY <3>1, <3>2, <1>3, <2>2, <1>1
  <2> QED BY <2>1, <2>2, <1>1
<1>8. IsInjective(r)
  <2> SUFFICES ASSUME NEW i \in 1..n - 1, NEW j \in 1..n - 1, r[i] = r[j]
               PROVE  i = j
    BY <1>6 DEF IsInjective
  <2> DEFINE at(x) == IF x < k THEN x ELSE x + 1
  <2>1. at(i) \in 1..n /\ at(j) \in 1..n /\ r[i] = q[at(i)] /\ r[j] = q[at(j)]
    BY <1>1, <1>7
  <2>2. at(i) = at(j)
    BY <2>1, <1>1 DEF IsInjective
  <2> QED BY <2>2, <1>1
<1>9. ToSet(r) = ToSet(q) \ {q[k]}
  <2>1. ASSUME NEW i \in 1..n - 1 PROVE r[i] \in ToSet(q) /\ r[i] # q[k]
    <3> DEFINE j == IF i < k THEN i ELSE i + 1
    <3>1. j \in 1..n /\ r[i] = q[j] /\ j # k
      BY <1>1, <1>7
    <3> QED BY <3>1, <1>1 DEF ToSet, IsInjective
  <2>2. ASSUME NEW j \in 1..n, j # k PROVE q[j] \in ToSet(r)
    <3> DEFINE i == IF j < k THEN j ELSE j - 1
    <3>1. i \in 1..n - 1 /\ r[i] = q[j]
      BY <2>2, <1>1, <1>7
    <3> QED BY <3>1, <1>6 DEF ToSet
  <2> QED BY <2>1, <2>2, <1>1, <1>6 DEF ToSet, IsInjective
<1> QED BY <1>5, <1>6, <1>7, <1>8, <1>9 DEF n, r

LEMMA TailIsRemoved ==
  ASSUME NEW T, NEW q \in Seq(T), q # <<>>
  PROVE  /\ 1 \in DOMAIN q /\ Head(q) = q[1]
         /\ Tail(q) = RemoveAt(q, 1)
<1>1. Len(q) \in Nat /\ DOMAIN q = 1..Len(q) /\ Len(q) > 0
  BY LenProperties, EmptySeq
<1>2. Tail(q) = SubSeq(q, 2, Len(q))
  BY TailIsSubSeq
<1>3. SubSeq(q, 1, 0) = <<>> /\ SubSeq(q, 2, Len(q)) \in Seq(T)
  BY <1>1, SubSeqProperties, EmptySeq
<1>4. RemoveAt(q, 1) = SubSeq(q, 2, Len(q))
  BY <1>3, ConcatEmptySeq DEF RemoveAt
<1> QED BY <1>1, <1>2, <1>4, HeadTailProperties

\* Arithmetic of turns.
LEMMA Turns ==
  ASSUME NEW a \in Int, NEW k \in Nat
  PROVE  /\ a * k \in Int
         /\ (a + 1) * k = a * k + k
         /\ a >= 0 => a * k >= 0
BY SMT

LEMMA TurnsGrow ==
  ASSUME NEW a \in Int, NEW b \in Int, NEW k \in Nat, a <= b
  PROVE  a * k <= b * k
<1> DEFINE d == b - a
<1>1. d \in Nat /\ b = a + d
  OBVIOUS
<1> HIDE DEF d
<1>2. d * k >= 0 /\ d * k \in Int /\ a * k \in Int
  BY <1>1, SMT
<1>3. b * k = a * k + d * k
  BY <1>1, SMT
<1> QED BY <1>2, <1>3

\* A task outside a queue leaves the queue a place short of all tasks.
LEMMA RoomFor ==
  ASSUME NEW q \in Seq(Tasks), IsInjective(q), NEW u \in Tasks, u \notin ToSet(q)
  PROVE  Len(q) <= N - 1
<1> DEFINE R == Tasks \ {u}
<1>1. Len(q) \in Nat /\ DOMAIN q = 1..Len(q) /\ q \in [1..Len(q) -> Tasks]
  BY LenProperties
<1>2. \A i \in 1..Len(q) : q[i] \in R
  BY <1>1 DEF ToSet
<1>3. q \in Seq(R)
  BY <1>1, <1>2, IsASeq
<1>4. IsFiniteSet(R) /\ Cardinality(R) = N - 1
  BY TasksFinite, FS_RemoveElement
<1> HIDE DEF R
<1> QED BY <1>3, <1>4, InjectiveLength

\* Tasks that have not waited yet join a queue.
LEMMA WaitsJoin ==
  ASSUME NEW q \in Seq(Tasks), NEW f \in Seq(Tasks), IsInjective(q), IsInjective(f),
         ToSet(q) \cap ToSet(f) = {},
         NEW wait \in [Tasks -> Nat], NEW k \in Nat,
         NEW cur, NEW cq, NEW cur2, NEW cq2 \in Nat,
         Waits(q, cur, cq, wait, k), \A t \in ToSet(f) : wait[t] = 0,
         cur2 # Null => /\ cur2 = cur /\ cq2 = cq
                        /\ cur2 \in Tasks /\ cur2 \notin ToSet(q) \cup ToSet(f)
  PROVE  Waits(q \o f, cur2, cq2, wait, k)
<1> DEFINE j == q \o f
<1>1. /\ j \in Seq(Tasks) /\ IsInjective(j) /\ ToSet(j) = ToSet(q) \cup ToSet(f)
      /\ DOMAIN j = 1..Len(q) + Len(f)
      /\ \A i \in DOMAIN j :
           \/ i \in DOMAIN q /\ j[i] = q[i]
           \/ i > Len(q) /\ i - Len(q) \in DOMAIN f /\ j[i] = f[i - Len(q)]
  BY Joined
<1> HIDE DEF j
<1>2. /\ Len(j) \in Nat /\ DOMAIN j = 1..Len(j) /\ N \in Nat
      /\ Len(j) <= N
  BY <1>1, LenProperties, InjectiveLength, TasksFinite, SimAssumption
<1>3. cur2 # Null => Len(j) <= N - 1
  BY <1>1, RoomFor
<1> SUFFICES ASSUME NEW i \in DOMAIN j
             PROVE  /\ wait[j[i]] <= (N - i) * k
                    /\ cur2 # Null => wait[j[i]] <= (N - 1 - i) * k + cq2
  BY DEF Waits, j
<1>4. CASE i \in DOMAIN q /\ j[i] = q[i]
  BY <1>4 DEF Waits
<1>5. CASE i - Len(q) \in DOMAIN f /\ j[i] = f[i - Len(q)]
  <2>1. wait[j[i]] = 0
    BY <1>5 DEF ToSet
  <2>2. i \in Int /\ N - i \in Int /\ N - i >= 0
    BY <1>2
  <2>3. (N - i) * k \in Int /\ (N - i) * k >= 0
    BY <2>2, Turns
  <2>4. ASSUME cur2 # Null PROVE 0 <= (N - 1 - i) * k + cq2
    <3>1. N - 1 - i \in Int /\ N - 1 - i >= 0
      BY <2>4, <1>2, <1>3
    <3>2. (N - 1 - i) * k \in Int /\ (N - 1 - i) * k >= 0
      BY <3>1, Turns
    <3> QED BY <3>2
  <2> QED BY <2>1, <2>3, <2>4
<1> QED BY <1>1, <1>4, <1>5

LEMMA OrderedJoin ==
  ASSUME NEW q \in Seq(Tasks), NEW f \in Seq(Tasks), IsInjective(q), IsInjective(f),
         ToSet(q) \cap ToSet(f) = {},
         NEW wait \in [Tasks -> Nat],
         Ordered(q, wait), \A t \in ToSet(f) : wait[t] = 0
  PROVE  Ordered(q \o f, wait)
<1> DEFINE j == q \o f
<1>1. /\ j \in Seq(Tasks)
      /\ DOMAIN j = 1..Len(q) + Len(f)
      /\ \A i \in DOMAIN j :
           \/ i \in DOMAIN q /\ j[i] = q[i]
           \/ i > Len(q) /\ i - Len(q) \in DOMAIN f /\ j[i] = f[i - Len(q)]
  BY Joined
<1> HIDE DEF j
<1>2. Len(q) \in Nat /\ DOMAIN q = 1..Len(q) /\ Len(f) \in Nat
  BY LenProperties
<1>3. ASSUME NEW i \in DOMAIN j, i > Len(q) PROVE wait[j[i]] = 0
  <2>1. i - Len(q) \in DOMAIN f /\ j[i] = f[i - Len(q)]
    BY <1>1, <1>2, <1>3
  <2> QED BY <2>1 DEF ToSet
<1>4. \A i \in DOMAIN j : wait[j[i]] \in Nat
  BY <1>1, ElementOfSeq, LenProperties
<1> SUFFICES ASSUME NEW a \in DOMAIN j, NEW b \in DOMAIN j, a < b
             PROVE  wait[j[b]] <= wait[j[a]]
  BY DEF Ordered, j
<1>5. CASE b > Len(q)
  BY <1>5, <1>3, <1>4
<1>6. CASE b <= Len(q)
  <2>1. a \in DOMAIN q /\ b \in DOMAIN q
    BY <1>1, <1>2, <1>6
  <2>2. j[a] = q[a] /\ j[b] = q[b]
    BY <1>1, <1>2, <2>1
  <2> QED BY <2>1, <2>2 DEF Ordered
<1> QED BY <1>1, <1>2, <1>5, <1>6

\* The head of a queue leaves it, for a core or for another queue.
LEMMA WaitsTail ==
  ASSUME NEW q \in Seq(Tasks), IsInjective(q), q # <<>>,
         NEW wait \in [Tasks -> Nat], NEW k \in Nat,
         NEW cur, NEW cq, NEW cur2, NEW cq2 \in Nat,
         Waits(q, cur, cq, wait, k)
  PROVE  Waits(Tail(q), cur2, cq2, wait, k)
<1> DEFINE r == Tail(q)
<1>1. 1 \in DOMAIN q /\ r = RemoveAt(q, 1)
  BY TailIsRemoved
<1>2. /\ DOMAIN r = 1..Len(q) - 1
      /\ \A i \in 1..Len(q) - 1 : r[i] = IF i < 1 THEN q[i] ELSE q[i + 1]
  BY <1>1, Removed
<1> HIDE DEF r
<1>3. /\ Len(q) \in Nat /\ DOMAIN q = 1..Len(q) /\ N \in Nat /\ q \in [1..Len(q) -> Tasks]
      /\ Len(q) <= N
  BY LenProperties, InjectiveLength, TasksFinite, SimAssumption
<1> SUFFICES ASSUME NEW i \in DOMAIN r
             PROVE  /\ wait[r[i]] <= (N - i) * k
                    /\ cur2 # Null => wait[r[i]] <= (N - 1 - i) * k + cq2
  BY DEF Waits, r
<1>4. i \in Int /\ i + 1 \in DOMAIN q /\ r[i] = q[i + 1]
  BY <1>2, <1>3
<1>5. wait[r[i]] <= (N - (i + 1)) * k /\ wait[r[i]] \in Nat
  BY <1>3, <1>4 DEF Waits
<1>6. N - (i + 1) = N - 1 - i /\ N - i = (N - 1 - i) + 1 /\ N - 1 - i \in Int
  BY <1>3, <1>4
<1>7. (N - 1 - i) * k \in Int /\ (N - i) * k = (N - 1 - i) * k + k
  BY <1>6, Turns
<1>8. wait[r[i]] <= (N - 1 - i) * k
  BY <1>5, <1>6
<1> DEFINE x == (N - 1 - i) * k  y == (N - i) * k  v == wait[r[i]]
<1>9. x \in Int /\ y = x + k /\ v <= x /\ v \in Nat
  BY <1>5, <1>7, <1>8
<1> HIDE DEF x, y, v
<1>10. v <= y /\ v <= x + cq2
  BY <1>9
<1> QED BY <1>10 DEF x, y, v

LEMMA OrderedTail ==
  ASSUME NEW q \in Seq(Tasks), IsInjective(q), q # <<>>, NEW wait, Ordered(q, wait)
  PROVE  /\ Ordered(Tail(q), wait)
         /\ \A t \in ToSet(Tail(q)) : wait[t] <= wait[Head(q)]
<1> DEFINE r == Tail(q)
<1>1. 1 \in DOMAIN q /\ r = RemoveAt(q, 1) /\ Head(q) = q[1]
  BY TailIsRemoved
<1>2. /\ DOMAIN r = 1..Len(q) - 1
      /\ \A i \in 1..Len(q) - 1 : r[i] = IF i < 1 THEN q[i] ELSE q[i + 1]
  BY <1>1, Removed
<1> HIDE DEF r
<1>3. Len(q) \in Nat /\ DOMAIN q = 1..Len(q)
  BY LenProperties
<1>4. \A i \in DOMAIN r : i + 1 \in DOMAIN q /\ r[i] = q[i + 1] /\ i \in Int /\ 1 < i + 1
  BY <1>2, <1>3
<1>5. \A i \in DOMAIN r : wait[r[i]] <= wait[q[1]]
  BY <1>1, <1>4 DEF Ordered
<1>6. Ordered(r, wait)
  <2> SUFFICES ASSUME NEW a \in DOMAIN r, NEW b \in DOMAIN r, a < b
               PROVE  wait[r[b]] <= wait[r[a]]
    BY DEF Ordered
  <2>1. a + 1 < b + 1
    BY <1>4
  <2> QED BY <2>1, <1>4 DEF Ordered
<1> QED BY <1>1, <1>5, <1>6 DEF r, ToSet

\* One tick of the running task, which the queue waits for.
LEMMA WaitsTick ==
  ASSUME NEW q \in Seq(Tasks),
         NEW wait \in [Tasks -> Nat], NEW wait2 \in [Tasks -> Nat], NEW k \in Nat,
         NEW cur, NEW cq \in Nat, NEW cur2, NEW cq2,
         Waits(q, cur, cq, wait, k), q # <<>> => cur # Null /\ cq < k,
         \A t \in ToSet(q) : wait2[t] = wait[t] + 1,
         cur2 # Null => cq2 = cq + 1
  PROVE  Waits(q, cur2, cq2, wait2, k)
<1> SUFFICES ASSUME NEW i \in DOMAIN q
             PROVE  /\ wait2[q[i]] <= (N - i) * k
                    /\ cur2 # Null => wait2[q[i]] <= (N - 1 - i) * k + cq2
  BY DEF Waits
<1>1. Len(q) \in Nat /\ DOMAIN q = 1..Len(q) /\ N \in Nat /\ q[i] \in Tasks /\ i \in Int
  BY LenProperties, ElementOfSeq, SimAssumption
<1>2. q # <<>>
  BY EmptySeq, <1>1
<1>3. cur # Null /\ cq < k
  BY <1>2
<1> DEFINE x == (N - 1 - i) * k  y == (N - i) * k  v == wait[q[i]]  u == wait2[q[i]]
<1>4. v <= x + cq /\ v \in Nat /\ u = v + 1
  BY <1>1, <1>3 DEF Waits, ToSet
<1>5. N - i = (N - 1 - i) + 1 /\ N - 1 - i \in Int
  BY <1>1
<1>6. x \in Int /\ y = x + k
  BY <1>5, Turns
<1> HIDE DEF x, y, v, u
<1>7. u <= y /\ (cq2 = cq + 1 => u <= x + cq2)
  BY <1>3, <1>4, <1>6
<1> QED BY <1>7 DEF x, y, v, u

LEMMA WaitsBound ==
  ASSUME NEW q \in Seq(Tasks), NEW wait \in [Tasks -> Nat], NEW k \in Nat,
         NEW cur, NEW cq \in Nat,
         Waits(q, cur, cq, wait, k), cur # Null, cq < k, NEW t \in ToSet(q)
  PROVE  wait[t] < (N - 1) * k
<1>1. PICK i \in DOMAIN q : t = q[i]
  BY DEF ToSet
<1>2. Len(q) \in Nat /\ DOMAIN q = 1..Len(q) /\ N \in Nat /\ t \in Tasks /\ i \in Int /\ 1 <= i
  BY <1>1, LenProperties, ElementOfSeq, SimAssumption
<1> DEFINE x == (N - 1 - i) * k  y == (N - i) * k  z == (N - 1) * k  v == wait[t]
<1>3. v <= x + cq /\ v \in Nat
  BY <1>1, <1>2 DEF Waits
<1>4. /\ N - i = (N - 1 - i) + 1 /\ N - 1 - i \in Int
      /\ N - i \in Int /\ N - 1 \in Int /\ N - i <= N - 1
  <2> DEFINE n == N
  <2>1. n \in Nat /\ i \in Int /\ 1 <= i
    BY <1>2
  <2> HIDE DEF n
  <2>2. /\ n - i = (n - 1 - i) + 1 /\ n - 1 - i \in Int
        /\ n - i \in Int /\ n - 1 \in Int /\ n - i <= n - 1
    BY <2>1
  <2> QED BY <2>2 DEF n
<1>5. x \in Int /\ y = x + k /\ z \in Int
  BY <1>4, Turns
<1>6. y <= z
  BY <1>4, TurnsGrow
<1> HIDE DEF x, y, z, v
<1>7. v < z
  BY <1>3, <1>5, <1>6
<1> QED BY <1>7 DEF v, z

-----------------------------------------------------------------------------
(* One core                                                                *)

LEMMA SingleTypes ==
  ASSUME SingleInv
  PROVE  /\ SimTypeOK /\ TasksOK /\ streak \in [Tasks -> Nat] /\ waited \in [Tasks -> Nat]
         /\ quantum \in Nat /\ quantum > 0 /\ Null \notin Tasks
         /\ policy \in Policies
         /\ current_quantum \in Nat /\ ready_queue \in Seq(Tasks)
         /\ current \in Tasks \cup {Null}
<1>1. Null \notin Tasks /\ quantum \in Nat /\ quantum > 0
  <2>1. quantum \in Quanta
    BY DEF SingleInv, SimInv, SimTypeOK
  <2>2. quantum \in Nat \ {0}
    BY <2>1, SimAssumption
  <2>3. quantum > 0
    BY <2>2
  <2>4. Null \notin Tasks
    BY SimAssumption, TasksFinite
  <2> QED BY <2>2, <2>3, <2>4
<1> QED BY <1>1 DEF SingleInv, SimInv, SimTypeOK, SingleTypeOK

LEMMA InOrderOfTasks ==
  ASSUME NEW S, S \subseteq Tasks
  PROVE  /\ InOrder(S) \in Seq(Tasks)
         /\ IsInjective(InOrder(S)) /\ ToSet(InOrder(S)) = S
<1>1. IsFiniteSet(S) /\ S \subseteq Nat
  BY TasksFinite, FS_Subset
<1>2. InOrder(S) \in Seq(S)
  BY <1>1, InOrderLists
<1>3. InOrder(S) \in Seq(Tasks)
  BY <1>2, SeqMonotonic
<1> QED BY <1>1, <1>3, InOrderLists

\* Tasks that become ready are queued behind those that are.
LEMMA EnqueueStep ==
  ASSUME SingleInv, NEW S, S \subseteq Tasks, Enqueue(S), UNCHANGED <<policy, quantum, streak>>,
         \A t \in S : rt[t].state # "ready" /\ streak[t] = 0,
         \A t \in Tasks : rt'[t].state = "ready" <=> (t \in S \/ rt[t].state = "ready"),
         current' # Null => /\ current' = current /\ current \notin S
                            /\ current_quantum' = current_quantum,
         current_quantum' \in Nat
  PROVE  ready_queue' \in Seq(Tasks) /\ QueueOK'
<1> DEFINE f == InOrder(S)
           q == ready_queue
<1>1. /\ streak \in [Tasks -> Nat] /\ quantum \in Nat /\ q \in Seq(Tasks)
      /\ current \in Tasks \cup {Null}
  BY SingleTypes
<1>2. f \in Seq(Tasks) /\ IsInjective(f) /\ ToSet(f) = S
  BY InOrderOfTasks
<1>3. UsesQueue' = UsesQueue
  BY DEF UsesQueue
<1>4. CASE ~UsesQueue
  BY <1>1, <1>3, <1>4 DEF Enqueue, QueueOK
<1>5. CASE UsesQueue
  <2>1. ready_queue' = q \o f
    BY <1>5 DEF Enqueue
  <2>2. /\ IsInjective(q) /\ Ordered(q, streak)
        /\ \A t \in Tasks : rt[t].state = "ready" <=> t \in ToSet(q)
        /\ policy = "round_robin" => Waits(q, current, current_quantum, streak, quantum)
    BY <1>5 DEF SingleInv, QueueOK
  <2> HIDE DEF f, q
  <2>3. ToSet(q) \cap ToSet(f) = {}
    BY <1>2, <2>2
  <2>4. q \o f \in Seq(Tasks) /\ IsInjective(q \o f) /\ ToSet(q \o f) = ToSet(q) \cup ToSet(f)
    BY <1>1, <1>2, <2>2, <2>3, Joined
  <2>5. Ordered(q \o f, streak)
    BY <1>1, <1>2, <2>2, <2>3, OrderedJoin
  <2>6. ASSUME policy = "round_robin"
        PROVE  Waits(q \o f, current', current_quantum', streak, quantum)
    <3>1. current' # Null => /\ current' = current /\ current_quantum' = current_quantum
                             /\ current' \in Tasks /\ current' \notin ToSet(q) \cup ToSet(f)
      <4> SUFFICES ASSUME current' # Null
                   PROVE  current \in Tasks /\ current \notin ToSet(q) \cup ToSet(f)
        OBVIOUS
      <4>1. current \in Tasks /\ current \notin S
        BY <1>1
      <4>2. rt[current].state = "running"
        BY <4>1 DEF SingleInv, CoreOK
      <4> QED BY <4>1, <4>2, <2>2, <1>2
    <3> QED BY <2>2, <2>3, <2>6, <3>1, <1>1, <1>2, WaitsJoin
  <2>7. \A t \in Tasks : rt'[t].state = "ready" <=> t \in ToSet(q \o f)
    BY <2>2, <2>4, <1>2
  <2> QED BY <2>1, <2>4, <2>5, <2>6, <2>7 DEF QueueOK
<1> QED BY <1>4, <1>5

LEMMA SingleStart == Init => SingleInv
<1> SUFFICES ASSUME Init PROVE SingleInv
  OBVIOUS
<1>1. SimInv
  BY SimStart DEF Init
<1>2. /\ pc = "wake" /\ ready_queue = <<>> /\ current = Null /\ current_quantum = 0
      /\ excluded = Null
  BY DEF Init, SimInit
<1>3. \A t \in Tasks : rt[t].state = "pending"
  BY DEF Init, SimInit, initRuntime
<1>4. Null \notin Tasks
  BY SimAssumption, TasksFinite
<1>5. SingleTypeOK
  BY <1>2 DEF SingleTypeOK
<1>6. CoreOK
  BY <1>2, <1>3, <1>4 DEF CoreOK
<1>7. QueueOK
  BY <1>2, <1>3 DEF QueueOK, IsInjective, ToSet, Ordered, Waits
<1>8. ChoiceOK /\ PolicyHonoured
  BY <1>2 DEF ChoiceOK, PolicyHonoured
<1> QED BY <1>1, <1>5, <1>6, <1>7, <1>8 DEF SingleInv

LEMMA SingleWake ==
  ASSUME SingleInv, processBlockedSingleCore
  PROVE  SingleInv'
<1> DEFINE bad == \E t \in Woken : BadWake(t)
<1>1. /\ SimInv /\ pc = "wake" /\ rt' = AfterWakeups /\ Fixed /\ Enqueue(Woken)
      /\ pc' = IF bad THEN "error" ELSE "arrive"
      /\ UNCHANGED <<current, current_quantum>> /\ excluded' = Null
  BY DEF SingleInv, processBlockedSingleCore, Fixed
<1>2. ~ bad
  BY <1>1, WakesWell
<1>3. pc' = "arrive"
  BY <1>1, <1>2
<1>4. SimInv' /\ \A t \in Tasks : rt'[t].state = IF t \in Woken THEN "ready" ELSE rt[t].state
  BY <1>1, <1>3, WakeStep
<1>5. Woken \subseteq Tasks /\ \A t \in Woken : rt[t].state = "blocked"
  BY DEF Woken, InState
<1>6. \A t \in Woken : rt[t].state # "ready" /\ streak[t] = 0
  BY <1>5, SingleTypes DEF TasksOK
<1>7. CoreOK'
  BY <1>1, <1>3, <1>4, <1>5 DEF CoreOK, SingleInv
<1>8. ready_queue' \in Seq(Tasks) /\ QueueOK'
  <2>1. \A t \in Tasks : rt'[t].state = "ready" <=> (t \in Woken \/ rt[t].state = "ready")
    BY <1>4
  <2>2. current' # Null => current' = current /\ current \notin Woken /\ current_quantum' = current_quantum
    BY <1>1, <1>5, SingleTypes DEF SingleInv, CoreOK
  <2> QED BY <1>1, <1>5, <1>6, <2>1, <2>2, SingleTypes, EnqueueStep DEF Fixed
<1>9. SingleTypeOK'
  BY <1>1, <1>3, <1>8 DEF SingleInv, SingleTypeOK
<1>10. ChoiceOK' /\ PolicyHonoured'
  BY <1>1, <1>3 DEF ChoiceOK, PolicyHonoured
<1> QED BY <1>4, <1>7, <1>8, <1>9, <1>10 DEF SingleInv

LEMMA SingleArrive ==
  ASSUME SingleInv, enqueueArrivalsSingleCore
  PROVE  SingleInv'
<1>1. /\ SimInv /\ pc = "arrive" /\ rt' = AfterArrivals /\ Fixed /\ Enqueue(Arriving)
      /\ pc' = "preempt" /\ UNCHANGED <<current, current_quantum, excluded>>
  BY DEF SingleInv, enqueueArrivalsSingleCore, Fixed
<1>2. Arriving \subseteq Tasks /\ \A t \in Arriving : rt[t].state = "pending"
  BY DEF Arriving, InState
<1>3. /\ SimInv'
      /\ \A t \in Tasks : rt'[t].state = IF t \in Arriving THEN "ready" ELSE rt[t].state
  BY <1>1, <1>2, ReadyStep DEF AfterArrivals
<1>4. \A t \in Arriving : rt[t].state # "ready" /\ streak[t] = 0
  BY <1>2, SingleTypes DEF TasksOK
<1>5. CoreOK'
  BY <1>1, <1>2, <1>3 DEF CoreOK, SingleInv
<1>6. ready_queue' \in Seq(Tasks) /\ QueueOK'
  <2>1. \A t \in Tasks : rt'[t].state = "ready" <=> (t \in Arriving \/ rt[t].state = "ready")
    BY <1>3
  <2>2. current' # Null => current' = current /\ current \notin Arriving /\ current_quantum' = current_quantum
    BY <1>1, <1>2, SingleTypes DEF SingleInv, CoreOK
  <2> QED BY <1>1, <1>2, <1>4, <2>1, <2>2, SingleTypes, EnqueueStep DEF Fixed
<1>7. SingleTypeOK'
  BY <1>1, <1>6 DEF SingleInv, SingleTypeOK
<1>8. ChoiceOK' /\ PolicyHonoured'
  BY <1>1 DEF SingleInv, ChoiceOK, PolicyHonoured
<1> QED BY <1>3, <1>5, <1>6, <1>7, <1>8 DEF SingleInv


\* A choosing policy's scan finds no task only where there is none.
LEMMA BestOrNull ==
  ASSUME SimTypeOK, NEW S, S \subseteq Tasks
  PROVE  Best(S) = Null <=> S = {}
<1>1. Null \notin Tasks
  BY SimAssumption, TasksFinite
<1>2. CASE S = {}
  BY <1>2 DEF Best
<1>3. CASE S # {}
  BY <1>1, <1>3, BestIsBest
<1> QED BY <1>2, <1>3

LEMMA SinglePreempt ==
  ASSUME SingleInv, Preempt
  PROVE  SingleInv'
<1>1. /\ SimInv /\ pc = "preempt" /\ Fixed /\ Enqueue({current}) /\ pc' = "select"
      /\ rt' = [rt EXCEPT ![current].state = "ready"]
      /\ current # Null /\ current' = Null /\ current_quantum' = 0
      /\ excluded' = IF shouldPreemptForGroupQuota THEN spec[current].group ELSE Null
  BY DEF SingleInv, Preempt, Fixed, Vacate, shouldPreemptSingle, shouldPreemptForGroupQuota
<1>2. current \in Tasks /\ rt[current].state = "running" /\ streak[current] = 0
      /\ rt \in [Tasks -> RuntimeTask]
  BY <1>1, SingleTypes DEF SingleInv, CoreOK, TasksOK, SimTypeOK
<1>3. /\ SimInv'
      /\ \A t \in Tasks : rt'[t].state = IF t \in {current} THEN "ready" ELSE rt[t].state
  <2>1. rt' = [t \in Tasks |-> IF t \in {current} THEN [rt[t] EXCEPT !.state = "ready"] ELSE rt[t]]
    BY <1>1, <1>2
  <2>2. {current} \subseteq Tasks /\ \A t \in {current} : rt[t].state = "running"
    BY <1>2
  <2> QED BY <1>1, <2>1, <2>2, ReadyStep
<1>4. CoreOK'
  BY <1>1, <1>3, SingleTypes DEF CoreOK, SingleInv
<1>5. ready_queue' \in Seq(Tasks) /\ QueueOK'
  <2>1. \A t \in Tasks : rt'[t].state = "ready" <=> (t \in {current} \/ rt[t].state = "ready")
    BY <1>3
  <2>2. \A t \in {current} : rt[t].state # "ready" /\ streak[t] = 0
    BY <1>2
  <2>3. {current} \subseteq Tasks /\ current_quantum' \in Nat
    BY <1>1, <1>2
  <2>4. current' = Null /\ UNCHANGED <<policy, quantum, streak>>
    BY <1>1 DEF Fixed
  <2> QED BY <1>1, <2>1, <2>2, <2>3, <2>4, EnqueueStep
<1>6. SingleTypeOK'
  BY <1>1, <1>5 DEF SingleTypeOK
<1>7. ChoiceOK'
  <2>1. ASSUME excluded' # Null
        PROVE  /\ ~UsesQueue'
               /\ \E t \in InState("ready")' : spec'[t].group # excluded'
    <3>1. shouldPreemptForGroupQuota /\ excluded' = spec[current].group
      BY <2>1, <1>1
    <3>2. policy = "cfs_like" /\ hasReadyTaskInOtherGroup(spec[current].group)
      BY <3>1 DEF shouldPreemptForGroupQuota
    <3>3. PICK t \in Tasks : rt[t].state = "ready" /\ spec[t].group # spec[current].group
      BY <3>2 DEF hasReadyTaskInOtherGroup, InState
    <3>4. rt'[t].state = "ready"
      BY <3>3, <1>3
    <3> QED BY <3>1, <3>2, <3>3, <3>4, <1>1 DEF UsesQueue, InState, Fixed
  <2> QED BY <2>1, <1>1 DEF ChoiceOK
<1>8. PolicyHonoured'
  BY <1>1 DEF PolicyHonoured
<1> QED BY <1>3, <1>4, <1>5, <1>6, <1>7, <1>8 DEF SingleInv

LEMMA SingleKeep ==
  ASSUME SingleInv, KeepRunning
  PROVE  SingleInv'
<1>1. /\ SimInv /\ pc = "preempt" /\ Fixed /\ UNCHANGED rt /\ pc' = "select"
      /\ ~shouldPreemptSingle
      /\ UNCHANGED <<current, current_quantum, ready_queue, excluded>>
  BY DEF SingleInv, KeepRunning, Fixed, coreVars
<1>2. SimInv'
  BY <1>1, PassStep
<1>3. CoreOK'
  BY <1>1 DEF SingleInv, CoreOK
<1>4. SingleTypeOK'
  BY <1>1 DEF SingleInv, SingleTypeOK
<1>5. QueueOK'
  BY <1>1 DEF SingleInv, QueueOK, Fixed, UsesQueue
<1>6. ChoiceOK'
  <2>1. excluded' = Null
    BY <1>1 DEF SingleInv, ChoiceOK
  <2>2. ASSUME policy = "round_robin", current # Null, ready_queue # <<>>
        PROVE  current_quantum < quantum
    <3>1. ~ (current_quantum >= quantum)
      BY <1>1, <2>2 DEF shouldPreemptSingle
    <3> QED BY <3>1, SingleTypes
  <2>3. ASSUME ~UsesQueue, current # Null, NEW t \in InState("ready")
        PROVE  betterCandidate(current, t)
    <3>1. Best(Runnable) = current
      BY <1>1, <2>3 DEF shouldPreemptSingle, UsesQueue
    <3>2. Runnable \subseteq Tasks /\ t \in Runnable
      BY <2>3 DEF Runnable, InState
    <3>3. t # current
      BY <2>3, SingleTypes DEF SingleInv, CoreOK, InState
    <3> QED BY <3>1, <3>2, <3>3, SingleTypes, BestIsBest
  <2>4. InState("ready")' = InState("ready") /\ UsesQueue' = UsesQueue
        /\ \A t, u : betterCandidate(t, u)' = betterCandidate(t, u)
    BY <1>1 DEF InState, UsesQueue, betterCandidate, Fixed
  <2> QED BY <1>1, <2>1, <2>2, <2>3, <2>4 DEF ChoiceOK, Fixed
<1>7. PolicyHonoured'
  BY <1>1 DEF PolicyHonoured
<1> QED BY <1>2, <1>3, <1>4, <1>5, <1>6, <1>7 DEF SingleInv


\* Dispatch starts the selected task, which is ready and the policy's choice.
LEMMA SingleDispatch ==
  ASSUME SingleInv, Dispatch
  PROVE  SingleInv'
<1> SUFFICES ASSUME NEW t, t = Selected PROVE SingleInv'
  OBVIOUS
<1> DEFINE S == {u \in Runnable : excluded = Null \/ spec[u].group # excluded}
<1>1. /\ SimInv /\ pc = "select" /\ Fixed /\ pc' = "execute"
      /\ current = Null /\ t # Null /\ current' = t /\ excluded' = excluded
      /\ ready_queue' = IF UsesQueue THEN Tail(ready_queue) ELSE ready_queue
  BY DEF SingleInv, Dispatch, Fixed
<1>2. /\ SimTypeOK /\ rt \in [Tasks -> RuntimeTask] /\ streak \in [Tasks -> Nat]
      /\ ready_queue \in Seq(Tasks) /\ quantum \in Nat /\ quantum > 0 /\ Null \notin Tasks
  BY SingleTypes DEF SimTypeOK
<1>3. \A u \in Tasks : rt[u].state # "running"
  BY <1>1, <1>2 DEF SingleInv, CoreOK
<1>4. Runnable = InState("ready") /\ Runnable \subseteq Tasks
  BY <1>3 DEF Runnable, InState
<1>5. UsesQueue => /\ ready_queue # <<>> /\ t = Head(ready_queue)
                   /\ IsInjective(ready_queue) /\ Ordered(ready_queue, streak)
                   /\ \A u \in Tasks : rt[u].state = "ready" <=> u \in ToSet(ready_queue)
  BY <1>1 DEF Selected, SingleInv, QueueOK
<1>6. UsesQueue => 1 \in DOMAIN ready_queue /\ t = ready_queue[1]
                   /\ Tail(ready_queue) = RemoveAt(ready_queue, 1)
  BY <1>2, <1>5, TailIsRemoved
<1>7. ~UsesQueue => t \in S /\ \A u \in S \ {t} : betterCandidate(t, u)
  <2> SUFFICES ASSUME ~UsesQueue PROVE t \in S /\ \A u \in S \ {t} : betterCandidate(t, u)
    OBVIOUS
  <2>1. t = Best(S) /\ S \subseteq Tasks
    BY <1>4 DEF Selected
  <2>2. S # {}
    BY <2>1, <1>1, <1>2, BestOrNull
  <2> HIDE DEF S
  <2> QED BY <2>1, <2>2, <1>2, BestIsBest
<1>8. t \in Tasks /\ rt[t].state = "ready"
  <2>1. CASE UsesQueue
    BY <2>1, <1>2, <1>5, <1>6, ElementOfSeq, LenProperties DEF ToSet
  <2>2. CASE ~UsesQueue
    BY <2>2, <1>4, <1>7 DEF InState
  <2> QED BY <2>1, <2>2
<1>9. rt' = [rt EXCEPT ![t] = Dispatched(@)] /\ current_quantum' = 0
  BY <1>8 DEF Dispatch, keepsRunningSelection
<1>10. /\ SimInv'
       /\ \A u \in Tasks : /\ rt'[u].state = IF u \in {t} THEN "running" ELSE rt[u].state
                           /\ rt'[u].vruntime = rt[u].vruntime
  <2>1. rt' = [u \in Tasks |-> IF u \in {t} THEN Dispatched(rt[u]) ELSE rt[u]]
    BY <1>2, <1>8, <1>9
  <2>2. {t} \subseteq InState("ready")
    BY <1>8 DEF InState
  <2> QED BY <1>1, <2>1, <2>2, DispatchStep
<1>11. \A u, v \in Tasks : betterCandidate(u, v)' <=> betterCandidate(u, v)
  BY <1>1, <1>10 DEF betterCandidate, Fixed
<1>12. CoreOK'
  BY <1>1, <1>3, <1>8, <1>10 DEF CoreOK
<1>13. ready_queue' \in Seq(Tasks) /\ QueueOK'
       /\ (UsesQueue => \A u \in InState("ready")' : streak[u] <= streak[t])
  <2>0. UsesQueue' = UsesQueue
    BY <1>1 DEF UsesQueue, Fixed
  <2>1. CASE ~UsesQueue
    BY <2>0, <2>1, <1>1, <1>2 DEF QueueOK
  <2>2. CASE UsesQueue
    <3> DEFINE q == ready_queue  r == Tail(ready_queue)
    <3>1. r \in Seq(Tasks) /\ IsInjective(r) /\ ToSet(r) = ToSet(q) \ {t}
      <4>1. /\ q \in Seq(Tasks) /\ IsInjective(q) /\ 1 \in DOMAIN q
            /\ r = RemoveAt(q, 1) /\ t = q[1]
        BY <2>2, <1>2, <1>5, <1>6
      <4> HIDE DEF q, r
      <4> QED BY <4>1, Removed
    <3>2. Ordered(r, streak) /\ \A u \in ToSet(r) : streak[u] <= streak[t]
      BY <2>2, <1>2, <1>5, OrderedTail
    <3>3. \A u \in Tasks : rt'[u].state = "ready" <=> u \in ToSet(r)
      BY <2>2, <3>1, <1>5, <1>10
    <3>4. ASSUME policy = "round_robin"
          PROVE  Waits(r, current', current_quantum', streak, quantum)
      <4>1. Waits(q, current, current_quantum, streak, quantum)
        BY <2>2, <3>4 DEF SingleInv, QueueOK
      <4>2. current_quantum' \in Nat
        BY <1>9
      <4> QED BY <4>1, <4>2, <1>2, <1>5, <2>2, WaitsTail
    <3>5. ready_queue' = r
      BY <2>2, <1>1
    <3> HIDE DEF r
    <3> QED BY <2>0, <3>1, <3>2, <3>3, <3>4, <3>5, <1>1 DEF QueueOK, InState, Fixed
  <2> QED BY <2>1, <2>2
<1>14. SingleTypeOK'
  BY <1>1, <1>8, <1>9, <1>13 DEF SingleTypeOK
<1>15. ChoiceOK'
  BY <1>1, <1>2, <1>9 DEF ChoiceOK, SingleInv, Fixed, UsesQueue
<1>16. PolicyHonoured'
  <2>1. current' # Null /\ current' = t /\ current_quantum' = 0 /\ UNCHANGED <<policy, quantum, spec, streak>>
    BY <1>1, <1>9 DEF Fixed
  <2>2. UsesQueue' => \A u \in InState("ready")' : streak'[u] <= streak'[t]
    BY <2>1, <1>13 DEF UsesQueue
  <2>3. ASSUME policy' = "round_robin", NEW u \in InState("ready")'
        PROVE  streak'[u] < (N - 1) * quantum'
    <3>1. u \in ToSet(ready_queue)' /\ Waits(ready_queue', current', current_quantum', streak, quantum)
      BY <2>1, <2>3, <1>13 DEF QueueOK, UsesQueue, InState
    <3>2. 0 \in Nat /\ 0 < quantum
      BY <1>2
    <3> QED BY <2>1, <3>1, <3>2, <1>2, <1>13, WaitsBound
  <2>4. ASSUME ~UsesQueue', NEW u \in InState("ready")'
        PROVE  \/ betterCandidate(t, u)'
               \/ excluded' # Null /\ spec'[u].group = excluded' /\ spec'[t].group # excluded'
    <3>1. ~UsesQueue /\ u \in Tasks /\ u \in Runnable /\ u # t
      BY <2>1, <2>4, <1>4, <1>10 DEF UsesQueue, InState
    <3>2. CASE u \in S
      BY <3>1, <3>2, <1>7, <1>8, <1>11
    <3>3. CASE u \notin S
      BY <3>1, <3>3, <2>1, <1>1, <1>7
    <3> QED BY <3>2, <3>3
  <2> QED BY <2>1, <2>2, <2>3, <2>4 DEF PolicyHonoured
<1> QED BY <1>10, <1>12, <1>13, <1>14, <1>15, <1>16 DEF SingleInv

LEMMA SingleNoDispatch ==
  ASSUME SingleInv, NoDispatch
  PROVE  SingleInv'
<1>1. /\ SimInv /\ pc = "select" /\ Fixed /\ UNCHANGED rt /\ pc' = "execute"
      /\ current # Null \/ Selected = Null
      /\ UNCHANGED <<current, current_quantum, ready_queue, excluded>>
  BY DEF SingleInv, NoDispatch, Fixed, coreVars
<1>2. SimInv'
  BY <1>1, PassStep
<1>3. CoreOK' /\ SingleTypeOK' /\ ChoiceOK'
  BY <1>1 DEF SingleInv, CoreOK, SingleTypeOK, ChoiceOK, Fixed, UsesQueue
<1>4. QueueOK'
  BY <1>1 DEF SingleInv, QueueOK, Fixed, UsesQueue
<1>5. PolicyHonoured
  BY <1>1 DEF SingleInv
<1>6. InState("ready")' = InState("ready") /\ UsesQueue' = UsesQueue
      /\ \A t, u : betterCandidate(t, u)' = betterCandidate(t, u)
  BY <1>1 DEF InState, UsesQueue, betterCandidate, Fixed
<1>7. ASSUME current = Null PROVE InState("ready") = {}
  <2>1. Selected = Null /\ SimTypeOK /\ Null \notin Tasks /\ ready_queue \in Seq(Tasks)
    BY <1>1, <1>7, SingleTypes
  <2>2. CASE UsesQueue
    <3>1. ready_queue = <<>>
      <4> SUFFICES ASSUME ready_queue # <<>> PROVE FALSE
        OBVIOUS
      <4>1. Head(ready_queue) \in Tasks
        BY <2>1, HeadTailProperties
      <4> QED BY <4>1, <2>1, <2>2 DEF Selected
    <3> QED BY <3>1, <2>2 DEF SingleInv, QueueOK, InState, ToSet
  <2>3. CASE ~UsesQueue
    <3> DEFINE S == {t \in Runnable : excluded = Null \/ spec[t].group # excluded}
    <3>1. S \subseteq Tasks
      BY DEF Runnable, InState
    <3>2. S = {}
      BY <2>1, <2>3, <3>1, BestOrNull DEF Selected
    <3>3. excluded = Null
      BY <3>2, <1>1 DEF SingleInv, ChoiceOK, Runnable
    <3> QED BY <3>2, <3>3 DEF Runnable
  <2> QED BY <2>2, <2>3
<1>8. ASSUME policy = "round_robin", NEW t \in InState("ready")
      PROVE  streak[t] < (N - 1) * quantum
  <2>1. current # Null /\ t \in ToSet(ready_queue)
        /\ Waits(ready_queue, current, current_quantum, streak, quantum)
    BY <1>7, <1>8 DEF SingleInv, QueueOK, UsesQueue, InState
  <2>2. ready_queue # <<>>
    BY <2>1 DEF ToSet
  <2>3. current_quantum < quantum
    BY <2>1, <2>2, <1>1, <1>8 DEF SingleInv, ChoiceOK
  <2> QED BY <2>1, <2>3, SingleTypes, WaitsBound
<1>9. current # Null => current_quantum # 0 /\ (~UsesQueue => \A t \in InState("ready") : betterCandidate(current, t))
  BY <1>1, SingleTypes DEF SingleInv, CoreOK, ChoiceOK
<1>10. PolicyHonoured'
  BY <1>1, <1>6, <1>7, <1>8, <1>9 DEF PolicyHonoured, Fixed
<1> QED BY <1>2, <1>3, <1>4, <1>10 DEF SingleInv


LEMMA SingleExecute ==
  ASSUME SingleInv, Execute
  PROVE  SingleInv'
<1>1. /\ SimInv /\ pc = "execute" /\ current # Null
      /\ pc' = IF BadExecution(current) THEN "error" ELSE "wake"
      /\ rt' = [rt EXCEPT ![current] = Executed(current)]
      /\ completion_order' = IF rt'[current].state = "complete"
                             THEN Append(completion_order, current) ELSE completion_order
      /\ tick' = tick + 1 /\ CountWaiting
      /\ UNCHANGED <<spec, policy, quantum, report, ready_queue, excluded>>
      /\ IF rt'[current].state = "running"
         THEN current_quantum' = current_quantum + 1 /\ current' = current
         ELSE current' = Null /\ current_quantum' = 0
  BY DEF SingleInv, Execute, Vacate
<1>2. /\ current \in Tasks /\ rt[current].state = "running" /\ rt \in [Tasks -> RuntimeTask]
      /\ completion_order \in Seq(Tasks)
  BY <1>1, SingleTypes DEF SingleInv, CoreOK, SimTypeOK
<1>3. pc' = "wake"
  BY <1>1, <1>2, ExecutesWell
<1>4. InState("running") = {current}
  BY <1>1, <1>2, SingleTypes DEF InState, SingleInv, CoreOK
<1> DEFINE finished == IF Executed(current).state = "complete" THEN <<current>> ELSE <<>>
<1>5. rt' = [t \in Tasks |-> IF t \in {current} THEN Executed(t) ELSE rt[t]]
      /\ rt'[current] = Executed(current)
  BY <1>1, <1>2
<1>6. /\ finished \in Seq(Tasks) /\ IsInjective(finished)
      /\ ToSet(finished) = {t \in {current} : Executed(t).state = "complete"}
      /\ completion_order' = completion_order \o finished
  <2>1. CASE Executed(current).state = "complete"
    <3>1. finished = <<current>> /\ <<current>> \in Seq(Tasks)
          /\ DOMAIN <<current>> = {1} /\ <<current>>[1] = current
      BY <2>1, <1>2
    <3>2. completion_order' = completion_order \o <<current>>
      BY <2>1, <1>1, <1>2, <1>5, AppendIsConcat
    <3> QED BY <2>1, <3>1, <3>2 DEF IsInjective, ToSet
  <2>2. CASE Executed(current).state # "complete"
    <3>1. finished = <<>> /\ <<>> \in Seq(Tasks) /\ DOMAIN <<>> = {}
      BY <2>2
    <3>2. completion_order' = completion_order \o <<>>
      BY <2>2, <1>1, <1>2, <1>5, ConcatEmptySeq
    <3> QED BY <2>2, <3>1, <3>2 DEF IsInjective, ToSet
  <2> QED BY <2>1, <2>2
<1> HIDE DEF finished
<1>7. /\ SimInv'
      /\ rt'[current].state \in {"running", "blocked", "complete"}
      /\ \A t \in Tasks \ {current} : rt'[t] = rt[t]
      /\ \A t \in Tasks : streak'[t] = IF rt[t].state = "ready" THEN streak[t] + 1 ELSE 0
  <2> DEFINE S == InState("running")
  <2>1. /\ rt' = [t \in Tasks |-> IF t \in S THEN Executed(t) ELSE rt[t]]
        /\ ToSet(finished) = {t \in S : Executed(t).state = "complete"}
    BY <1>4, <1>5, <1>6
  <2>2. /\ SimInv'
        /\ \A t \in S : rt'[t].state \in {"running", "blocked", "complete"}
        /\ \A t \in Tasks \ S : rt'[t] = rt[t]
        /\ \A t \in Tasks : streak'[t] = IF rt[t].state = "ready" THEN streak[t] + 1 ELSE 0
    BY <2>1, <1>1, <1>3, <1>6, ExecuteStep
  <2> QED BY <2>2, <1>4
<1>8. CoreOK'
  BY <1>1, <1>2, <1>7, SingleTypes DEF SingleInv, CoreOK
<1>9. SingleTypeOK'
  BY <1>1, <1>2, <1>3 DEF SingleInv, SingleTypeOK
<1>10. QueueOK'
  <2> SUFFICES ASSUME UsesQueue PROVE QueueOK'
    BY <1>1 DEF QueueOK, UsesQueue
  <2>1. /\ IsInjective(ready_queue) /\ Ordered(ready_queue, streak)
        /\ \A t \in Tasks : rt[t].state = "ready" <=> t \in ToSet(ready_queue)
        /\ policy = "round_robin" => Waits(ready_queue, current, current_quantum, streak, quantum)
    BY DEF SingleInv, QueueOK
  <2>2. \A t \in Tasks : rt'[t].state = "ready" <=> rt[t].state = "ready"
    BY <1>2, <1>7
  <2>3. \A i \in DOMAIN ready_queue :
          /\ ready_queue[i] \in Tasks /\ ready_queue[i] \in ToSet(ready_queue)
          /\ streak'[ready_queue[i]] = streak[ready_queue[i]] + 1
          /\ streak[ready_queue[i]] \in Nat
    <3>1. \A i \in DOMAIN ready_queue : ready_queue[i] \in Tasks /\ ready_queue[i] \in ToSet(ready_queue)
      BY SingleTypes, ElementOfSeq, LenProperties DEF ToSet
    <3> QED BY <3>1, <2>1, <1>7, SingleTypes
  <2>4. Ordered(ready_queue, streak')
    BY <2>1, <2>3 DEF Ordered
  <2>5. ASSUME policy = "round_robin"
        PROVE  Waits(ready_queue, current', current_quantum', streak', quantum)
    <3>1. ready_queue # <<>> => current # Null /\ current_quantum < quantum
      BY <2>5, <1>1 DEF SingleInv, ChoiceOK
    <3>2. \A t \in ToSet(ready_queue) : streak'[t] = streak[t] + 1
      BY <2>3 DEF ToSet
    <3>3. current' # Null => current_quantum' = current_quantum + 1
      BY <1>1
    <3>4. streak' \in [Tasks -> Nat]
      BY <1>7 DEF SimInv, SimTypeOK
    <3> QED BY <2>1, <2>5, <3>1, <3>2, <3>3, <3>4, SingleTypes, WaitsTick
  <2> QED BY <1>1, <2>1, <2>2, <2>4, <2>5 DEF QueueOK
<1>11. ChoiceOK' /\ PolicyHonoured'
  BY <1>1, <1>3 DEF SingleInv, ChoiceOK, PolicyHonoured, UsesQueue
<1> QED BY <1>7, <1>8, <1>9, <1>10, <1>11 DEF SingleInv

LEMMA SingleIdle ==
  ASSUME SingleInv, Idle
  PROVE  SingleInv'
<1>1. /\ SimInv /\ pc = "execute" /\ current = Null /\ pc' = "wake"
      /\ tick' = tick + 1 /\ CountWaiting
      /\ UNCHANGED <<spec, policy, quantum, rt, completion_order, report>>
      /\ UNCHANGED <<current, current_quantum, ready_queue, excluded>>
  BY DEF SingleInv, Idle, coreVars
<1>2. /\ rt \in [Tasks -> RuntimeTask] /\ completion_order \in Seq(Tasks)
      /\ InState("running") = {}
  BY <1>1, SingleTypes DEF SingleInv, CoreOK, SimTypeOK, InState
<1>3. SimInv'
  <2>1. rt' = [t \in Tasks |-> IF t \in {} THEN Executed(t) ELSE rt[t]]
    BY <1>1, <1>2
  <2>2. /\ <<>> \in Seq(Tasks) /\ IsInjective(<<>>)
        /\ ToSet(<<>>) = {t \in {} : Executed(t).state = "complete"}
    BY DEF IsInjective, ToSet
  <2>3. completion_order' = completion_order \o <<>>
    BY <1>1, <1>2, ConcatEmptySeq
  <2> QED BY <1>1, <1>2, <2>1, <2>2, <2>3, ExecuteStep
<1>4. CoreOK' /\ SingleTypeOK' /\ ChoiceOK' /\ PolicyHonoured'
  BY <1>1 DEF SingleInv, CoreOK, SingleTypeOK, ChoiceOK, PolicyHonoured, UsesQueue
<1>5. QueueOK'
  <2> SUFFICES ASSUME UsesQueue PROVE QueueOK'
    BY <1>1 DEF QueueOK, UsesQueue
  <2>1. InState("ready") = {}
    BY <1>1 DEF SingleInv, PolicyHonoured
  <2>2. \A i \in DOMAIN ready_queue : ready_queue[i] \in Tasks /\ ready_queue[i] \in ToSet(ready_queue)
    BY SingleTypes, ElementOfSeq, LenProperties DEF ToSet
  <2>3. DOMAIN ready_queue = {}
    BY <2>1, <2>2 DEF SingleInv, QueueOK, InState
  <2> QED BY <1>1, <2>3 DEF SingleInv, QueueOK, Ordered, Waits
<1> QED BY <1>3, <1>4, <1>5 DEF SingleInv

LEMMA SingleFinalize ==
  ASSUME SingleInv, Finalize, UNCHANGED coreVars
  PROVE  SingleInv'
<1>1. SimInv' /\ pc' = "done"
  BY FinalizeStep DEF SingleInv
<1>2. UNCHANGED <<policy, quantum, rt, streak, current, current_quantum, ready_queue, excluded>>
      /\ pc = "wake"
  BY DEF Finalize, coreVars
<1>3. CoreOK' /\ SingleTypeOK' /\ ChoiceOK' /\ PolicyHonoured'
  BY <1>1, <1>2 DEF SingleInv, CoreOK, SingleTypeOK, ChoiceOK, PolicyHonoured, UsesQueue
<1>4. QueueOK'
  BY <1>2 DEF SingleInv, QueueOK, UsesQueue
<1> QED BY <1>1, <1>3, <1>4 DEF SingleInv

LEMMA SingleStutter ==
  ASSUME SingleInv, UNCHANGED vars
  PROVE  SingleInv'
<1>1. UNCHANGED <<spec, policy, quantum, rt, tick, completion_order, report, pc, waited, streak>>
      /\ UNCHANGED <<current, current_quantum, ready_queue, excluded>>
  BY DEF vars, simVars, coreVars
<1>2. SimInv'
  BY <1>1, SimStutter DEF SingleInv
<1>3. InState("ready")' = InState("ready") /\ UsesQueue' = UsesQueue
      /\ \A t, u : betterCandidate(t, u)' = betterCandidate(t, u)
  BY <1>1 DEF InState, UsesQueue, betterCandidate
<1>4. CoreOK' /\ SingleTypeOK' /\ QueueOK'
  BY <1>1, <1>3 DEF SingleInv, CoreOK, SingleTypeOK, QueueOK
<1>5. ChoiceOK'
  BY <1>1, <1>3 DEF SingleInv, ChoiceOK
<1>6. PolicyHonoured'
  BY <1>1, <1>3 DEF SingleInv, PolicyHonoured
<1> QED BY <1>2, <1>4, <1>5, <1>6 DEF SingleInv

\* Every stage of every tick of simulateSingleCore() keeps SingleInv: the ledger of
\* each task's ticks and phases, the completion order, the report, the queue in the
\* order of waiting and the choice the preemption test leaves to selection.
THEOREM SingleInvariant == Spec => []SingleInv
<1>1. Init => SingleInv
  BY SingleStart
<1>2. SingleInv /\ [Next]_vars => SingleInv'
  BY SingleWake, SingleArrive, SinglePreempt, SingleKeep, SingleDispatch, SingleNoDispatch,
     SingleExecute, SingleIdle, SingleFinalize, SingleStutter DEF Next
<1> QED BY <1>1, <1>2, PTL DEF Spec


LEMMA OneStoryFollows ==
  ASSUME SingleInv
  PROVE  OneStory
<1>1. pc # "error"
  BY DEF SingleInv, SingleTypeOK
<1>2. InState("running") = (IF current = Null THEN {} ELSE {current})
  BY SingleTypes DEF SingleInv, CoreOK, InState
<1>3. ASSUME UsesQueue
      PROVE  /\ ToSet(ready_queue) = InState("ready")
             /\ Len(ready_queue) = Cardinality(InState("ready"))
  <2>1. ready_queue \in Seq(Tasks) /\ IsInjective(ready_queue)
    BY <1>3, SingleTypes DEF SingleInv, QueueOK
  <2>2. ToSet(ready_queue) \subseteq Tasks
    BY <2>1, ElementOfSeq, LenProperties DEF ToSet
  <2>3. ToSet(ready_queue) = InState("ready")
    BY <1>3, <2>2 DEF SingleInv, QueueOK, InState
  <2>4. Len(ready_queue) = Cardinality(ToSet(ready_queue))
    BY <2>1, TasksFinite, InjectiveLength
  <2> QED BY <2>3, <2>4
<1>4. ASSUME NEW t \in Tasks, rt[t].state \in {"ready", "running"}
      PROVE  /\ rt[t].phase_remaining > 0
             /\ rt[t].remaining = rt[t].phase_remaining +
                  TicksOf("cpu", spec[t].phases, rt[t].phase_index + 1, Len(spec[t].phases))
  <2> DEFINE r == rt[t]  s == spec[t]
  <2>1. PhaseOK(r, s)
    BY SingleTypes DEF TasksOK
  <2>2. r \in RuntimeTask /\ r.state \in Runs
    BY <1>4, SingleTypes, TaskTypes DEF Runs
  <2>3. r.phase_remaining > 0 /\ r.phase_remaining \in Nat
    BY <2>1, <2>2 DEF PhaseOK, RuntimeTask
  <2> HIDE DEF r, s
  <2>4. CASE s.phases = <<>>
    <3>1. r.phase_index = 1 /\ r.phase_remaining = r.remaining
      BY <2>1, <2>4 DEF PhaseOK
    <3>2. Len(s.phases) = 0 /\ 1 + 1 > 0
      BY <2>4
    <3>3. TicksOf("cpu", s.phases, 1 + 1, Len(s.phases)) = 0
      BY <3>2, TicksNone
    <3> QED BY <2>3, <3>1, <3>3 DEF r, s
  <2>5. CASE s.phases # <<>>
    BY <2>1, <2>2, <2>3, <2>5 DEF PhaseOK, CpuAfter, r, s
  <2> QED BY <2>4, <2>5
<1> QED BY <1>1, <1>2, <1>3, <1>4 DEF OneStory

\* On one core the states of the tasks, the ready queue and the core's current
\* task agree after every stage of every tick, no tick of simulateSingleCore()
\* fails, and the ticks a task has left are those of its phases (OneStory).
THEOREM SingleOneStory == Spec => []OneStory
<1>1. SingleInv => OneStory
  BY OneStoryFollows
<1> QED BY <1>1, SingleInvariant, PTL

\* What simulateSingleCore() executes is what the policy promises, for every
\* scenario that validates, every quantum and any number of tasks: no idling
\* while a task is ready, first come first served, a bounded Round Robin wait,
\* lowest virtual runtime or earliest deadline, quotas included (PolicyHonoured).
THEOREM SinglePolicy == Spec => []PolicyHonoured
<1>1. SingleInv => PolicyHonoured
  BY DEF SingleInv
<1> QED BY <1>1, SingleInvariant, PTL

\* The report finalizeResult() makes of a single-core run is true: the waiting time
\* it gets by subtraction is the time the task was ready and did not run, and
\* the completion order lists every task once, by completion time (ReportIsTrue).
THEOREM SingleReport == Spec => []ReportIsTrue
<1>1. SingleInv => ReportIsTrue
  BY ReportFollows DEF SingleInv
<1> QED BY <1>1, SingleInvariant, PTL

-----------------------------------------------------------------------------
(* Several cores                                                           *)

LEMMA CoresFinite ==
  /\ IsFiniteSet(Cores) /\ Cores \subseteq Nat /\ Null \notin Cores /\ 1 \in Cores
  /\ [c \in Cores |-> c] \in Seq(Cores) /\ DOMAIN [c \in Cores |-> c] = Cores
<1>1. NumCores \in Nat /\ NumCores > 0 /\ Null \notin Nat
  BY CoresAssumption, SimAssumption
<1>2. IsFiniteSet(Cores)
  BY <1>1, FS_Interval DEF Cores
<1>3. Cores \subseteq Nat /\ 1 \in Cores
  BY <1>1 DEF Cores
<1>4. [c \in 1..NumCores |-> c] \in Seq(1..NumCores)
  BY <1>1, IsASeq
<1> QED BY <1>1, <1>2, <1>3, <1>4 DEF Cores

LEMMA MultiTypes ==
  ASSUME MultiInv
  PROVE  /\ SimTypeOK /\ TasksOK /\ rt \in [Tasks -> RuntimeTask] /\ streak \in [Tasks -> Nat]
         /\ quantum \in Nat /\ quantum > 0 /\ Null \notin Tasks
         /\ core_queue \in [Cores -> Seq(Tasks)]
         /\ core_current \in [Cores -> Tasks \cup {Null}]
         /\ core_quantum \in [Cores -> Nat]
         /\ assigned_core \in [Tasks -> Cores]
<1>1. quantum \in Quanta /\ SimTypeOK /\ TasksOK
  BY DEF MultiInv, SimInv, SimTypeOK
<1>2. quantum \in Nat \ {0}
  BY <1>1, SimAssumption
<1>3. quantum > 0
  BY <1>2
<1>4. Null \notin Tasks
  BY SimAssumption, TasksFinite
<1> QED BY <1>1, <1>2, <1>3, <1>4 DEF MultiInv, SimTypeOK, MultiTypeOK

LEMMA QueueFacts ==
  ASSUME MultiInv, NEW c \in Cores
  PROVE  /\ core_queue[c] \in Seq(Tasks) /\ IsInjective(core_queue[c])
         /\ ToSet(core_queue[c]) \subseteq Tasks
         /\ Len(core_queue[c]) \in Nat
         /\ coreLoad(c) \in Nat
         /\ core_queue[c] # <<>> => Len(core_queue[c]) > 0 /\ ToSet(core_queue[c]) # {}
<1>1. core_queue[c] \in Seq(Tasks)
  BY MultiTypes
<1>2. Len(core_queue[c]) \in Nat /\ DOMAIN core_queue[c] = 1..Len(core_queue[c])
  BY <1>1, LenProperties
<1>3. ToSet(core_queue[c]) \subseteq Tasks
  BY <1>1, <1>2, ElementOfSeq DEF ToSet
<1>4. coreLoad(c) \in Nat
  <2> DEFINE n == Len(core_queue[c])
  <2>1. coreLoad(c) = n \/ coreLoad(c) = n + 1
    <3>1. CASE core_current[c] = Null
      BY <3>1, <1>2 DEF coreLoad
    <3>2. CASE core_current[c] # Null
      BY <3>2 DEF coreLoad
    <3> QED BY <3>1, <3>2
  <2> HIDE DEF n
  <2> QED BY <2>1, <1>2 DEF n
<1>5. core_queue[c] # <<>> => Len(core_queue[c]) > 0
  BY <1>1, <1>2, EmptySeq
<1>6. core_queue[c] # <<>> => ToSet(core_queue[c]) # {}
  <2> SUFFICES ASSUME core_queue[c] # <<>> PROVE ToSet(core_queue[c]) # {}
    OBVIOUS
  <2>1. 1 \in DOMAIN core_queue[c]
    BY <1>2, <1>5
  <2> QED BY <2>1 DEF ToSet
<1> QED BY <1>1, <1>2, <1>3, <1>4, <1>5, <1>6 DEF MultiInv, PlacesOK

\* The searches of the loop find a core.
LEMMA FirstLeastIn ==
  ASSUME NEW T, NEW s \in Seq(T), s # <<>>, NEW load, load \in [DOMAIN s -> Nat]
  PROVE  FirstLeast(s, load) \in T
<1>1. Len(s) \in Nat /\ DOMAIN s = 1..Len(s) /\ Len(s) > 0
  BY LenProperties, EmptySeq
<1>2. IsFiniteSet(DOMAIN s) /\ DOMAIN s \subseteq Nat /\ DOMAIN s # {}
  <2>1. IsFiniteSet(1..Len(s))
    BY <1>1, FS_Interval
  <2> QED BY <1>1, <2>1
<1>3. load \in [DOMAIN s -> Int]
  OBVIOUS
<1>4. \E i \in DOMAIN s : \A j \in DOMAIN s : load[i] < load[j] \/ (load[i] = load[j] /\ i <= j)
  BY ONLY <1>2, <1>3, LeastLoad
<1> DEFINE k == CHOOSE i \in DOMAIN s : \A j \in DOMAIN s :
                  load[i] < load[j] \/ (load[i] = load[j] /\ i <= j)
<1>5. k \in DOMAIN s
  BY <1>4
<1>6. FirstLeast(s, load) = s[k]
  BY DEF FirstLeast
<1> HIDE DEF k
<1> QED BY <1>1, <1>5, <1>6, ElementOfSeq

LEMMA DomainFacts ==
  ASSUME MultiInv
  PROVE  /\ domains \in Seq(Seq(Cores) \ {<<>>})
         /\ DOMAIN domains = 1..Len(domains) /\ Len(domains) \in Nat
<1>1. domains \in Seq(Seq(Nat)) /\ ValidLayout(domains)
  BY CoresAssumption DEF MultiInv, MultiTypeOK
<1>2. Len(domains) \in Nat /\ DOMAIN domains = 1..Len(domains)
      /\ \A i \in DOMAIN domains : domains[i] \in Seq(Nat)
  BY <1>1, LenProperties, ElementOfSeq
<1>3. ASSUME NEW i \in DOMAIN domains PROVE domains[i] \in Seq(Cores) \ {<<>>}
  <2> DEFINE d == domains[i]
  <2>1. domains # <<>>
    BY <1>2, <1>3
  <2>2. d # <<>> /\ ToSet(d) \subseteq Cores
    BY <1>1, <1>3, <2>1 DEF ValidLayout
  <2>3. d \in Seq(Nat)
    BY <1>2, <1>3
  <2> HIDE DEF d
  <2>4. Len(d) \in Nat /\ DOMAIN d = 1..Len(d) /\ d \in [1..Len(d) -> Nat]
    BY <2>3, LenProperties
  <2>5. \A j \in 1..Len(d) : d[j] \in Cores
    BY <2>2, <2>4 DEF ToSet
  <2>6. d \in Seq(Cores)
    BY <2>4, <2>5, IsASeq
  <2> QED BY <2>2, <2>6 DEF d
<1>4. domains \in [1..Len(domains) -> Seq(Nat)]
  BY <1>1, LenProperties
<1> DEFINE S == Seq(Cores) \ {<<>>}
<1> HIDE DEF S
<1>5. domains \in Seq(S)
  <2>1. \A i \in 1..Len(domains) : domains[i] \in S
    BY <1>2, <1>3 DEF S
  <2> QED BY <1>2, <1>4, <2>1, IsASeq
<1> QED BY <1>2, <1>5 DEF S

LEMMA DomainLoadNumber ==
  ASSUME MultiInv, NEW d \in Seq(Cores)
  PROVE  domainLoad(d) \in Nat
<1> DEFINE D == ToSet(d)
           part == [c \in D |-> {c} \X (1..coreLoad(c))]
           parts == { {c} \X (1..coreLoad(c)) : c \in D }
<1>1. D \subseteq Cores
  BY ElementOfSeq, LenProperties DEF ToSet
<1>2. IsFiniteSet(D)
  BY <1>1, CoresFinite, FS_Subset
<1>3. part \in Surjection(D, parts)
  BY DEF Surjection
<1>4. IsFiniteSet(parts)
  BY <1>2, <1>3, FS_Surjection
<1>5. ASSUME NEW c \in D PROVE IsFiniteSet({c} \X (1..coreLoad(c)))
  <2>1. coreLoad(c) \in Int /\ 1 \in Int
    BY <1>1, QueueFacts
  <2>2. IsFiniteSet(1..coreLoad(c))
    BY <2>1, FS_Interval
  <2>3. IsFiniteSet({c})
    BY FS_Singleton
  <2> QED BY <2>2, <2>3, FS_Product
<1>6. \A T \in parts : IsFiniteSet(T)
  BY <1>5
<1> HIDE DEF parts
<1>7. IsFiniteSet(UNION parts)
  BY <1>4, <1>6, FS_UNION
<1>8. domainLoad(d) = Cardinality(UNION parts)
  BY Zenon DEF domainLoad, parts, D
<1> QED BY <1>7, <1>8, FS_CardinalityType

\* Among the cores of a domain that is not empty, a least loaded one is there.
LEMMA ArrivalCore ==
  ASSUME MultiInv
  PROVE  chooseArrivalCore \in Cores
<1> DEFINE loads == [i \in DOMAIN domains |-> domainLoad(domains[i])]
           inDomain == IF domains = <<>> THEN [c \in Cores |-> c] ELSE FirstLeast(domains, loads)
<1>1. inDomain \in Seq(Cores) \ {<<>>}
  <2>1. CASE domains = <<>>
    <3>1. [c \in Cores |-> c] \in Seq(Cores) /\ 1 \in DOMAIN [c \in Cores |-> c]
      BY CoresFinite
    <3>2. [c \in Cores |-> c] # <<>>
      BY <3>1
    <3> QED BY <2>1, <3>1, <3>2
  <2>2. CASE domains # <<>>
    <3>1. domains \in Seq(Seq(Cores) \ {<<>>}) /\ DOMAIN domains = 1..Len(domains)
      BY DomainFacts
    <3>2. \A i \in DOMAIN domains : domains[i] \in Seq(Cores)
      BY <3>1, ElementOfSeq
    <3>3. loads \in [DOMAIN domains -> Nat]
      BY <3>2, DomainLoadNumber
    <3> HIDE DEF loads
    <3>4. FirstLeast(domains, loads) \in Seq(Cores) \ {<<>>}
      BY <2>2, <3>1, <3>3, FirstLeastIn
    <3> QED BY <2>2, <3>4
  <2> QED BY <2>1, <2>2
<1>2. chooseArrivalCore = FirstLeast(inDomain, [i \in DOMAIN inDomain |-> coreLoad(inDomain[i])])
  BY Zenon DEF chooseArrivalCore
<1> HIDE DEF inDomain
<1> DEFINE load == [i \in DOMAIN inDomain |-> coreLoad(inDomain[i])]
<1>3. load \in [DOMAIN inDomain -> Nat]
  <2>1. \A i \in DOMAIN inDomain : inDomain[i] \in Cores
    BY <1>1, ElementOfSeq, LenProperties
  <2> QED BY <2>1, QueueFacts
<1> HIDE DEF load
<1> QED BY <1>1, <1>2, <1>3, FirstLeastIn DEF load


\* A search for a donor fails only where no core of the list can give a task.
LEMMA DonorAmong ==
  ASSUME MultiInv, NEW cs \in Seq(Cores), NEW x
  PROVE  \/ /\ busiestReadyCore(cs, x) = Null
            /\ \A c \in ToSet(cs) : c = x \/ core_queue[c] = <<>>
         \/ /\ busiestReadyCore(cs, x) \in Cores
            /\ busiestReadyCore(cs, x) # x
            /\ core_queue[busiestReadyCore(cs, x)] # <<>>
<1> DEFINE donors == {i \in DOMAIN cs : cs[i] # x /\ core_queue[cs[i]] # <<>>}
           k == CHOOSE i \in donors : \A j \in donors :
                  \/ Len(core_queue[cs[i]]) > Len(core_queue[cs[j]])
                  \/ (Len(core_queue[cs[i]]) = Len(core_queue[cs[j]]) /\ i <= j)
<1>1. busiestReadyCore(cs, x) = IF donors = {} THEN Null ELSE cs[k]
  BY Zenon DEF busiestReadyCore
<1>2. CASE donors = {}
  BY <1>1, <1>2 DEF ToSet
<1>3. CASE donors # {}
  <2>1. Len(cs) \in Nat /\ DOMAIN cs = 1..Len(cs) /\ \A i \in DOMAIN cs : cs[i] \in Cores
    BY LenProperties, ElementOfSeq
  <2>2. IsFiniteSet(donors) /\ donors \subseteq Nat
    <3>1. IsFiniteSet(1..Len(cs)) /\ 1..Len(cs) \subseteq Nat
      BY <2>1, FS_Interval
    <3> QED BY <3>1, <2>1, FS_Subset
  <2> DEFINE load == [i \in donors |-> 0 - Len(core_queue[cs[i]])]
  <2>3. \A i \in donors : Len(core_queue[cs[i]]) \in Nat
    BY <2>1, QueueFacts
  <2>4. load \in [donors -> Int]
    BY <2>3
  <2>5. \A i \in donors : load[i] = 0 - Len(core_queue[cs[i]])
    OBVIOUS
  <2>6. \A i \in donors : i \in DOMAIN cs /\ cs[i] # x /\ core_queue[cs[i]] # <<>>
    OBVIOUS
  <2> HIDE DEF donors, load
  <2>7. PICK m \in donors :
          \A j \in donors : load[m] < load[j] \/ (load[m] = load[j] /\ m <= j)
    <3>1. \E i \in donors : \A j \in donors : load[i] < load[j] \/ (load[i] = load[j] /\ i <= j)
      BY ONLY <1>3, <2>2, <2>4, LeastLoad
    <3> QED BY <3>1
  <2>8. \A j \in donors : \/ Len(core_queue[cs[m]]) > Len(core_queue[cs[j]])
                          \/ (Len(core_queue[cs[m]]) = Len(core_queue[cs[j]]) /\ m <= j)
    <3> SUFFICES ASSUME NEW j \in donors,
                        NEW a \in Nat, a = Len(core_queue[cs[m]]),
                        NEW b \in Nat, b = Len(core_queue[cs[j]])
                 PROVE  a > b \/ (a = b /\ m <= j)
      BY <2>3
    <3>1. load[m] = 0 - a /\ load[j] = 0 - b
      BY <2>5
    <3> QED BY <3>1, <2>7
  <2>9. k \in donors
    BY <2>8
  <2> HIDE DEF k
  <2> QED BY <1>1, <1>3, <2>1, <2>6, <2>9
<1> QED BY <1>2, <1>3

LEMMA DomainOf ==
  ASSUME MultiInv, NEW c
  PROVE  domainByCore(c) \in Seq(Cores)
<1> DEFINE found == {i \in DOMAIN domains : c \in ToSet(domains[i])}
           k == CHOOSE i \in found : \A j \in found : i <= j
<1>1. domainByCore(c) = IF found = {} THEN <<>> ELSE domains[k]
  BY Zenon DEF domainByCore
<1>2. CASE found = {}
  BY <1>1, <1>2
<1>3. CASE found # {}
  <2>1. Len(domains) \in Nat /\ DOMAIN domains = 1..Len(domains)
        /\ \A i \in DOMAIN domains : domains[i] \in Seq(Cores)
    BY DomainFacts, ElementOfSeq
  <2>2. IsFiniteSet(found) /\ found \subseteq Nat
    <3>1. IsFiniteSet(1..Len(domains)) /\ 1..Len(domains) \subseteq Nat
      BY <2>1, FS_Interval
    <3> QED BY <3>1, <2>1, FS_Subset
  <2>3. \A i \in found : i \in DOMAIN domains
    OBVIOUS
  <2> HIDE DEF found
  <2>4. \E i \in found : \A j \in found : i <= j
    BY ONLY <1>3, <2>2, LeastNumber
  <2>5. k \in found
    BY <2>4
  <2> HIDE DEF k
  <2> QED BY <1>1, <1>3, <2>1, <2>3, <2>5
<1> QED BY <1>2, <1>3

\* chooseDonorCore() finds a donor wherever another core has a ready task.
LEMMA DonorFacts ==
  ASSUME MultiInv, NEW r \in Cores
  PROVE  /\ chooseDonorCore(r) # Null =>
              /\ chooseDonorCore(r) \in Cores /\ chooseDonorCore(r) # r
              /\ core_queue[chooseDonorCore(r)] # <<>>
         /\ chooseDonorCore(r) = Null => \A c \in Cores : c = r \/ core_queue[c] = <<>>
<1> DEFINE near == busiestReadyCore(domainByCore(r), r)
           any  == busiestReadyCore([c \in Cores |-> c], r)
<1>1. chooseDonorCore(r) = IF near # Null THEN near ELSE any
  BY Zenon DEF chooseDonorCore
<1>2. near # Null => near \in Cores /\ near # r /\ core_queue[near] # <<>>
  <2>1. domainByCore(r) \in Seq(Cores)
    BY DomainOf
  <2> QED BY <2>1, DonorAmong
<1>3. [c \in Cores |-> c] \in Seq(Cores) /\ ToSet([c \in Cores |-> c]) = Cores
  BY CoresFinite DEF ToSet
<1>4. /\ any # Null => any \in Cores /\ any # r /\ core_queue[any] # <<>>
      /\ any = Null => \A c \in Cores : c = r \/ core_queue[c] = <<>>
  BY <1>3, CoresFinite, DonorAmong
<1> HIDE DEF near, any
<1> QED BY <1>1, <1>2, <1>4

LEMMA FirstIdle ==
  ASSUME IdleCores # {}
  PROVE  firstIdleCore \in IdleCores
<1>1. IdleCores \subseteq Nat /\ IsFiniteSet(IdleCores)
  BY CoresFinite, FS_Subset DEF IdleCores
<1>2. \E c \in IdleCores : \A d \in IdleCores : c <= d
  BY ONLY <1>1, IdleCores # {}, LeastNumber
<1> QED BY <1>2 DEF firstIdleCore

\* Why a core is left idle: the search stopped at a donor with a single task.
LEMMA IdleLeft ==
  ASSUME MultiInv, ~MayMigrate, NEW c \in IdleCores, NEW d \in Cores,
         core_queue[d] # <<>>, coreLoad(d) > 1
  PROVE  \E e \in Cores \ {c, d} : core_current[e] = Null /\ Len(core_queue[e]) = 1
<1> DEFINE r == firstIdleCore
           e == chooseDonorCore(r)
<1>1. r \in IdleCores
  BY FirstIdle
<1>2. r \in Cores /\ core_queue[r] = <<>> /\ core_queue[c] = <<>> /\ r # d
  BY <1>1 DEF IdleCores
<1> HIDE DEF r
<1>3. e # Null
  BY <1>2, DonorFacts
<1>4. e \in Cores /\ core_queue[e] # <<>>
  BY <1>2, <1>3, DonorFacts
<1>5. ~(coreLoad(e) > 1)
  BY <1>1, <1>3 DEF MayMigrate, r
<1>6. e # d /\ e # c
  BY <1>2, <1>4, <1>5
<1> HIDE DEF e
<1>7. Len(core_queue[e]) \in Nat /\ Len(core_queue[e]) > 0
  BY <1>4, QueueFacts
<1>8. core_current[e] = Null /\ Len(core_queue[e]) = 1
  <2> DEFINE n == Len(core_queue[e])
  <2>1. coreLoad(e) = n + (IF core_current[e] = Null THEN 0 ELSE 1)
    BY DEF coreLoad
  <2>2. n \in Nat /\ n > 0
    BY <1>7
  <2> HIDE DEF n
  <2>3. CASE core_current[e] = Null
    <3>1. n = 1
      BY <2>1, <2>2, <2>3, <1>5
    <3> QED BY <2>3, <3>1 DEF n
  <2>4. CASE core_current[e] # Null
    BY <2>1, <2>2, <2>4, <1>5
  <2> QED BY <2>3, <2>4
<1> QED BY <1>4, <1>6, <1>8


\* Tasks that become ready join the queue of core c.
LEMMA CoreJoin ==
  ASSUME MultiInv, NEW c \in Cores, NEW f \in Seq(Tasks), IsInjective(f),
         \A t \in ToSet(f) : rt[t].state # "ready" /\ streak[t] = 0,
         NEW cur, NEW cq \in Nat,
         cur # Null => /\ cur = core_current[c] /\ cq = core_quantum[c]
                       /\ cur \notin ToSet(f)
  PROVE  /\ core_queue[c] \o f \in Seq(Tasks) /\ IsInjective(core_queue[c] \o f)
         /\ ToSet(core_queue[c] \o f) = ToSet(core_queue[c]) \cup ToSet(f)
         /\ policy = "round_robin" => Waits(core_queue[c] \o f, cur, cq, streak, quantum)
<1> DEFINE q == core_queue[c]
<1>1. /\ q \in Seq(Tasks) /\ IsInjective(q) /\ ToSet(q) \subseteq Tasks
      /\ streak \in [Tasks -> Nat] /\ quantum \in Nat
      /\ core_current[c] \in Tasks \cup {Null}
  BY QueueFacts, MultiTypes
<1>2. \A t \in ToSet(q) : rt[t].state = "ready"
  BY <1>1 DEF MultiInv, PlacesOK
<1>3. policy = "round_robin" => Waits(q, core_current[c], core_quantum[c], streak, quantum)
  BY DEF MultiInv, TurnsOK
<1>4. core_current[c] # Null => core_current[c] \in Tasks /\ rt[core_current[c]].state = "running"
  BY <1>1 DEF MultiInv, PlacesOK
<1> HIDE DEF q
<1>5. ToSet(q) \cap ToSet(f) = {}
  BY <1>2
<1>6. q \o f \in Seq(Tasks) /\ IsInjective(q \o f) /\ ToSet(q \o f) = ToSet(q) \cup ToSet(f)
  BY <1>1, <1>5, Joined
<1>7. cur # Null => /\ cur = core_current[c] /\ cq = core_quantum[c]
                    /\ cur \in Tasks /\ cur \notin ToSet(q) \cup ToSet(f)
  BY <1>2, <1>4
<1>8. policy = "round_robin" => Waits(q \o f, cur, cq, streak, quantum)
  BY <1>1, <1>3, <1>5, <1>7, WaitsJoin
<1> QED BY <1>6, <1>8 DEF q

LEMMA OneTask ==
  ASSUME NEW t \in Tasks
  PROVE  <<t>> \in Seq(Tasks) /\ IsInjective(<<t>>) /\ ToSet(<<t>>) = {t}
<1>1. <<t>> \in Seq(Tasks) /\ DOMAIN <<t>> = {1} /\ <<t>>[1] = t
  OBVIOUS
<1> QED BY <1>1 DEF IsInjective, ToSet

LEMMA MultiStart == MultiInit => MultiInv
<1> SUFFICES ASSUME MultiInit PROVE MultiInv
  OBVIOUS
<1>1. SimInv
  BY SimStart DEF MultiInit
<1>2. pc = "wake" /\ domains \in Layouts /\ ValidLayout(domains)
      /\ assigned_core = [t \in Tasks |-> 1]
      /\ core_queue = [c \in Cores |-> <<>>] /\ core_current = [c \in Cores |-> Null]
      /\ core_quantum = [c \in Cores |-> 0]
  BY DEF MultiInit, SimInit
<1>3. \A t \in Tasks : rt[t].state = "pending"
  BY DEF MultiInit, SimInit, initRuntime
<1>4. Null \notin Tasks
  BY SimAssumption, TasksFinite
<1>5. MultiTypeOK
  BY <1>2, CoresFinite DEF MultiTypeOK
<1>6. \A c \in Cores : /\ core_queue[c] = <<>> /\ DOMAIN core_queue[c] = {}
                       /\ core_current[c] = Null
  BY <1>2
<1>7. PlacesOK
  BY <1>3, <1>4, <1>6 DEF PlacesOK, IsInjective, ToSet
<1>8. TurnsOK
  BY <1>6 DEF TurnsOK, Waits
<1>9. OrderOK /\ RebalancedOK /\ IdleCoreExplained
  BY <1>2 DEF OrderOK, RebalancedOK, IdleCoreExplained
<1> QED BY <1>1, <1>5, <1>7, <1>8, <1>9 DEF MultiInv

LEMMA MultiWake ==
  ASSUME MultiInv, processBlockedMulticore
  PROVE  MultiInv'
<1> DEFINE bad == \E t \in Woken : BadWake(t)
           f(c) == InOrder({t \in Woken : assigned_core[t] = c})
<1>1. /\ SimInv /\ pc = "wake" /\ rt' = AfterWakeups /\ Fixed
      /\ pc' = IF bad THEN "error" ELSE "arrive"
      /\ core_queue' = [c \in Cores |-> core_queue[c] \o f(c)]
      /\ UNCHANGED <<domains, core_current, core_quantum, assigned_core>>
  BY DEF MultiInv, processBlockedMulticore, Fixed
<1>2. ~ bad
  BY <1>1, WakesWell
<1>3. pc' = "arrive"
  BY <1>1, <1>2
<1>4. SimInv' /\ \A t \in Tasks : rt'[t].state = IF t \in Woken THEN "ready" ELSE rt[t].state
  BY <1>1, <1>3, WakeStep
<1>5. Woken \subseteq Tasks /\ \A t \in Woken : rt[t].state = "blocked" /\ streak[t] = 0
  BY MultiTypes DEF Woken, InState, TasksOK
<1>6. ASSUME NEW c \in Cores
      PROVE  /\ core_queue'[c] \in Seq(Tasks) /\ IsInjective(core_queue'[c])
             /\ \A t \in Tasks : t \in ToSet(core_queue'[c]) <=>
                  t \in ToSet(core_queue[c]) \/ (t \in Woken /\ assigned_core[t] = c)
             /\ policy = "round_robin" =>
                  Waits(core_queue'[c], core_current[c], core_quantum[c], streak, quantum)
  <2> DEFINE S == {t \in Woken : assigned_core[t] = c}
  <2>1. S \subseteq Tasks
    BY <1>5
  <2>2. f(c) \in Seq(Tasks) /\ IsInjective(f(c)) /\ ToSet(f(c)) = S
    BY <2>1, InOrderOfTasks
  <2>3. core_queue'[c] = core_queue[c] \o f(c)
    BY <1>1
  <2>4. core_current[c] # Null => core_current[c] \notin S
    BY <1>5, MultiTypes DEF MultiInv, PlacesOK
  <2>5. \A t \in S : rt[t].state # "ready" /\ streak[t] = 0
    BY <1>5
  <2> DEFINE g == f(c)  cur == core_current[c]
  <2>6. g \in Seq(Tasks) /\ IsInjective(g) /\ ToSet(g) = S /\ core_queue'[c] = core_queue[c] \o g
    BY <2>2, <2>3
  <2>7. core_quantum[c] \in Nat /\ (cur # Null => cur \notin ToSet(g))
    BY <2>4, <2>6, MultiTypes
  <2> HIDE DEF g
  <2>8. /\ core_queue[c] \o g \in Seq(Tasks) /\ IsInjective(core_queue[c] \o g)
        /\ ToSet(core_queue[c] \o g) = ToSet(core_queue[c]) \cup ToSet(g)
        /\ policy = "round_robin" =>
             Waits(core_queue[c] \o g, cur, core_quantum[c], streak, quantum)
    BY <2>5, <2>6, <2>7, CoreJoin
  <2> QED BY <2>6, <2>8
<1>7. MultiTypeOK'
  <2>1. core_queue' \in [Cores -> Seq(Tasks)]
    BY <1>1, <1>6
  <2> QED BY <1>1, <1>3, <2>1 DEF MultiInv, MultiTypeOK
<1>8. PlacesOK'
  <2>1. ASSUME NEW c \in Cores, NEW t \in Tasks
        PROVE  /\ t \in ToSet(core_queue'[c]) <=> rt'[t].state = "ready" /\ assigned_core[t] = c
               /\ core_current[c] = t <=> rt'[t].state = "running" /\ assigned_core[t] = c
    BY <1>4, <1>5, <1>6 DEF MultiInv, PlacesOK
  <2> QED BY <1>1, <1>6, <2>1 DEF PlacesOK
<1>9. TurnsOK'
  BY <1>1, <1>3, <1>6 DEF MultiInv, TurnsOK, Fixed
<1>10. OrderOK' /\ RebalancedOK' /\ IdleCoreExplained'
  BY <1>3 DEF OrderOK, RebalancedOK, IdleCoreExplained
<1> QED BY <1>4, <1>7, <1>8, <1>9, <1>10 DEF MultiInv

LEMMA MultiArrive ==
  ASSUME MultiInv, Arrive
  PROVE  MultiInv'
<1>1. Arriving \subseteq Tasks /\ \A t \in Arriving : rt[t].state = "pending" /\ streak[t] = 0
  BY MultiTypes DEF Arriving, InState, TasksOK
<1>2. \E t \in Arriving : \A u \in Arriving : t <= u
  <2>1. Arriving \subseteq Nat /\ IsFiniteSet(Arriving) /\ Arriving # {}
    BY <1>1, TasksFinite, FS_Subset DEF Arrive
  <2> QED BY ONLY <2>1, LeastNumber
<1>a. SUFFICES ASSUME NEW t, t = CHOOSE x \in Arriving : \A u \in Arriving : x <= u,
                    NEW c, c = chooseArrivalCore
             PROVE  MultiInv'
  OBVIOUS
<1>3. t \in Arriving /\ t \in Tasks
  BY <1>a, <1>1, <1>2
<1>4. /\ SimInv /\ pc = "arrive" /\ pc' = "arrive" /\ Fixed
      /\ rt' = [rt EXCEPT ![t].state = "ready"]
      /\ assigned_core' = [assigned_core EXCEPT ![t] = c]
      /\ core_queue' = [core_queue EXCEPT ![c] = Append(@, t)]
      /\ UNCHANGED <<domains, core_current, core_quantum>>
  BY <1>a, Zenon DEF MultiInv, Arrive, Fixed
<1>5. c \in Cores
  BY <1>a, ArrivalCore
<1>6. /\ SimInv'
      /\ \A u \in Tasks : rt'[u].state = IF u \in {t} THEN "ready" ELSE rt[u].state
  <2>1. rt' = [u \in Tasks |-> IF u \in {t} THEN [rt[u] EXCEPT !.state = "ready"] ELSE rt[u]]
    BY <1>3, <1>4, MultiTypes
  <2>2. {t} \subseteq Tasks /\ \A u \in {t} : u \in Arriving
    BY <1>3
  <2> QED BY <1>4, <2>1, <2>2, ReadyStep
<1>7. /\ core_queue'[c] = core_queue[c] \o <<t>>
      /\ core_queue[c] \o <<t>> \in Seq(Tasks) /\ IsInjective(core_queue[c] \o <<t>>)
      /\ ToSet(core_queue[c] \o <<t>>) = ToSet(core_queue[c]) \cup {t}
      /\ policy = "round_robin" =>
           Waits(core_queue[c] \o <<t>>, core_current[c], core_quantum[c], streak, quantum)
  <2>1. <<t>> \in Seq(Tasks) /\ IsInjective(<<t>>) /\ ToSet(<<t>>) = {t}
    BY <1>3, OneTask
  <2>2. core_queue'[c] = core_queue[c] \o <<t>>
    BY <1>3, <1>4, <1>5, MultiTypes, AppendIsConcat
  <2>3. /\ \A u \in ToSet(<<t>>) : rt[u].state # "ready" /\ streak[u] = 0
        /\ core_quantum[c] \in Nat
        /\ core_current[c] # Null => core_current[c] \notin ToSet(<<t>>)
    BY <1>1, <1>3, <1>5, <2>1, MultiTypes DEF MultiInv, PlacesOK
  <2> QED BY <1>5, <2>1, <2>2, <2>3, CoreJoin
<1>8. /\ \A d \in Cores : d # c => core_queue'[d] = core_queue[d]
      /\ core_queue' \in [Cores -> Seq(Tasks)]
      /\ assigned_core' \in [Tasks -> Cores] /\ assigned_core'[t] = c
      /\ \A u \in Tasks : u # t => assigned_core'[u] = assigned_core[u]
  BY <1>3, <1>4, <1>5, <1>7, MultiTypes
<1>9. MultiTypeOK'
  BY <1>4, <1>8 DEF MultiInv, MultiTypeOK
<1>10. PlacesOK'
  <2>0. PlacesOK /\ rt[t].state = "pending"
    BY <1>1, <1>3 DEF MultiInv
  <2>1. ASSUME NEW d \in Cores PROVE IsInjective(core_queue'[d])
    BY <1>7, <1>8, <2>0 DEF PlacesOK
  <2>2. ASSUME NEW d \in Cores, NEW u \in Tasks
        PROVE  u \in ToSet(core_queue'[d]) <=> rt'[u].state = "ready" /\ assigned_core'[u] = d
    <3>1. CASE d = c
      BY <3>1, <1>6, <1>7, <1>8, <2>0 DEF PlacesOK
    <3>2. CASE d # c
      <4>1. /\ core_queue'[d] = core_queue[d]
            /\ u \in ToSet(core_queue[d]) <=> rt[u].state = "ready" /\ assigned_core[u] = d
        BY <3>2, <1>8, <2>0 DEF PlacesOK
      <4>2. CASE u = t
        BY <3>2, <4>1, <4>2, <1>8, <2>0
      <4>3. CASE u # t
        BY <4>1, <4>3, <1>6, <1>8
      <4> QED BY <4>2, <4>3
    <3> QED BY <3>1, <3>2
  <2>3. ASSUME NEW d \in Cores, NEW u \in Tasks
        PROVE  core_current[d] = u <=> rt'[u].state = "running" /\ assigned_core'[u] = d
    BY <1>6, <1>8, <2>0 DEF PlacesOK
  <2> QED BY <1>4, <2>1, <2>2, <2>3 DEF PlacesOK
<1>11. TurnsOK'
  <2>1. ASSUME NEW d \in Cores
        PROVE  policy = "round_robin" =>
                 Waits(core_queue'[d], core_current[d], core_quantum[d], streak, quantum)
    BY <1>7, <1>8 DEF MultiInv, TurnsOK
  <2> QED BY <1>4, <2>1 DEF MultiInv, TurnsOK, Fixed
<1>12. OrderOK' /\ RebalancedOK' /\ IdleCoreExplained'
  BY <1>4 DEF OrderOK, RebalancedOK, IdleCoreExplained
<1> QED BY <1>6, <1>9, <1>10, <1>11, <1>12 DEF MultiInv

LEMMA MultiArrived ==
  ASSUME MultiInv, ArrivalsDone
  PROVE  MultiInv'
<1>1. /\ SimInv /\ pc = "arrive" /\ pc' = "preempt" /\ Fixed /\ UNCHANGED rt /\ Arriving = {}
      /\ UNCHANGED <<domains, core_queue, core_current, core_quantum, assigned_core>>
  BY DEF MultiInv, ArrivalsDone, Fixed, coresVars
<1>2. SimInv'
  <2>1. rt' = [t \in Tasks |-> IF t \in {} THEN [rt[t] EXCEPT !.state = "ready"] ELSE rt[t]]
    BY <1>1, MultiTypes
  <2> QED BY <1>1, <2>1, ReadyStep
<1>3. MultiTypeOK' /\ PlacesOK' /\ TurnsOK'
  BY <1>1 DEF MultiInv, MultiTypeOK, PlacesOK, TurnsOK, Fixed
<1>4. OrderOK' /\ RebalancedOK' /\ IdleCoreExplained'
  BY <1>1 DEF OrderOK, RebalancedOK, IdleCoreExplained
<1> QED BY <1>2, <1>3, <1>4 DEF MultiInv


\* A core whose task is not preempted runs the best of its own.
LEMMA KeptIsBest ==
  ASSUME SimTypeOK, NEW S, S \subseteq Tasks, NEW u \in Tasks, u \notin S,
         ~ betterCandidate(Best(S), u), NEW t \in S
  PROVE  betterCandidate(u, t)
<1> DEFINE b == Best(S)
<1>1. b \in S /\ \A v \in S \ {b} : betterCandidate(b, v)
  BY BestIsBest
<1>2. /\ \A v, w \in Tasks : v # w => betterCandidate(v, w) \/ betterCandidate(w, v)
      /\ \A v, w, x \in Tasks : betterCandidate(v, w) /\ betterCandidate(w, x) => betterCandidate(v, x)
  <2> DEFINE R == {p \in Tasks \X Tasks : betterCandidate(p[1], p[2])}
  <2>1. StrictTotalOrder(R, Tasks)
    BY BetterIsOrder
  <2>2. \A v, w \in Tasks : <<v, w>> \in R <=> betterCandidate(v, w)
    OBVIOUS
  <2> HIDE DEF R
  <2> QED BY <2>1, <2>2 DEF StrictTotalOrder
<1>3. ~ betterCandidate(b, u)
  OBVIOUS
<1> HIDE DEF b
<1>4. betterCandidate(u, b)
  BY <1>1, <1>2, <1>3
<1> QED BY <1>1, <1>2, <1>4

LEMMA MultiPreempt ==
  ASSUME MultiInv, preemptMulticore
  PROVE  MultiInv'
<1> DEFINE P == {c \in Cores : shouldPreemptCore(c)}
           S == {t \in Tasks : \E c \in P : core_current[c] = t}
<1>1. /\ SimInv /\ pc = "preempt" /\ pc' = "rebalance" /\ Fixed
      /\ rt' = [t \in Tasks |-> IF \E c \in P : core_current[c] = t
                                THEN [rt[t] EXCEPT !.state = "ready"] ELSE rt[t]]
      /\ core_queue' = [c \in Cores |-> IF c \in P THEN Append(core_queue[c], core_current[c])
                                                   ELSE core_queue[c]]
      /\ core_current' = [c \in Cores |-> IF c \in P THEN Null ELSE core_current[c]]
      /\ core_quantum' = [c \in Cores |-> IF c \in P THEN 0 ELSE core_quantum[c]]
      /\ UNCHANGED <<domains, assigned_core>>
  BY DEF MultiInv, preemptMulticore, Fixed
<1>2. ASSUME NEW c \in P
      PROVE  /\ c \in Cores /\ core_current[c] \in Tasks
             /\ rt[core_current[c]].state = "running" /\ assigned_core[core_current[c]] = c
             /\ streak[core_current[c]] = 0
  <2>1. c \in Cores /\ core_current[c] # Null
    BY DEF shouldPreemptCore
  <2>2. core_current[c] \in Tasks
    BY <2>1, MultiTypes
  <2> QED BY <1>1, <2>1, <2>2, MultiTypes DEF MultiInv, PlacesOK, TasksOK
<1>3. \A c \in Cores \ P : ~shouldPreemptCore(c)
  OBVIOUS
<1>4. /\ S \subseteq Tasks
      /\ \A t \in Tasks : t \in S <=> \E c \in P : core_current[c] = t
  OBVIOUS
<1>5. P \subseteq Cores
  OBVIOUS
<1> HIDE DEF P, S
<1>6. \A t \in Tasks : t \in S <=> rt[t].state = "running" /\ assigned_core[t] \in P
  <2>1. \A t \in S : rt[t].state = "running" /\ assigned_core[t] \in P
    BY <1>2, <1>4
  <2>2. ASSUME NEW t \in Tasks, rt[t].state = "running", assigned_core[t] \in P
        PROVE  t \in S
    BY <2>2, <1>4, <1>5 DEF MultiInv, PlacesOK
  <2> QED BY <2>1, <2>2
<1>7. /\ SimInv'
      /\ \A t \in Tasks : /\ rt'[t].state = IF t \in S THEN "ready" ELSE rt[t].state
                          /\ rt'[t].vruntime = rt[t].vruntime
  <2>1. rt' = [t \in Tasks |-> IF t \in S THEN [rt[t] EXCEPT !.state = "ready"] ELSE rt[t]]
    BY <1>1, <1>4
  <2>2. \A t \in S : rt[t].state = "running"
    BY <1>4, <1>6
  <2> QED BY <1>1, <1>4, <2>1, <2>2, ReadyStep
<1>8. ASSUME NEW c \in P
      PROVE  /\ core_queue'[c] \in Seq(Tasks) /\ IsInjective(core_queue'[c])
             /\ \A t \in Tasks : t \in ToSet(core_queue'[c]) <=>
                                   t \in ToSet(core_queue[c]) \/ t = core_current[c]
             /\ core_current'[c] = Null /\ core_quantum'[c] = 0
             /\ policy = "round_robin" =>
                  Waits(core_queue'[c], core_current'[c], core_quantum'[c], streak, quantum)
  <2> DEFINE u == core_current[c]
  <2>1. c \in Cores /\ u \in Tasks /\ rt[u].state # "ready" /\ streak[u] = 0
    BY <1>2
  <2>2. core_queue'[c] = core_queue[c] \o <<u>> /\ core_current'[c] = Null /\ core_quantum'[c] = 0
    BY <1>1, <2>1, MultiTypes, AppendIsConcat
  <2> HIDE DEF u
  <2>3. <<u>> \in Seq(Tasks) /\ IsInjective(<<u>>) /\ ToSet(<<u>>) = {u}
    BY <2>1, OneTask
  <2>4. \A v \in ToSet(<<u>>) : rt[v].state # "ready" /\ streak[v] = 0
    BY <2>1, <2>3
  <2>5. /\ core_queue[c] \o <<u>> \in Seq(Tasks) /\ IsInjective(core_queue[c] \o <<u>>)
        /\ ToSet(core_queue[c] \o <<u>>) = ToSet(core_queue[c]) \cup ToSet(<<u>>)
        /\ policy = "round_robin" => Waits(core_queue[c] \o <<u>>, Null, 0, streak, quantum)
    <3> DEFINE f == <<u>>  cur == Null  cq == 0
    <3>1. /\ c \in Cores /\ f \in Seq(Tasks) /\ IsInjective(f) /\ cq \in Nat
          /\ \A v \in ToSet(f) : rt[v].state # "ready" /\ streak[v] = 0
          /\ cur # Null => /\ cur = core_current[c] /\ cq = core_quantum[c]
                           /\ cur \notin ToSet(f)
      BY <2>1, <2>3, <2>4
    <3> HIDE DEF f, cur, cq
    <3>2. /\ core_queue[c] \o f \in Seq(Tasks) /\ IsInjective(core_queue[c] \o f)
          /\ ToSet(core_queue[c] \o f) = ToSet(core_queue[c]) \cup ToSet(f)
          /\ policy = "round_robin" => Waits(core_queue[c] \o f, cur, cq, streak, quantum)
      BY <3>1, CoreJoin
    <3> QED BY <3>2 DEF f, cur, cq
  <2> QED BY <2>2, <2>3, <2>5 DEF u
<1>9. ASSUME NEW c \in Cores, c \notin P
      PROVE  /\ core_queue'[c] = core_queue[c] /\ core_current'[c] = core_current[c]
             /\ core_quantum'[c] = core_quantum[c]
  BY <1>1, <1>9
<1>10. MultiTypeOK'
  <2>1. \A c \in Cores : /\ core_queue'[c] \in Seq(Tasks)
                         /\ core_current'[c] \in Tasks \cup {Null}
                         /\ core_quantum'[c] \in Nat
    BY <1>8, <1>9, MultiTypes
  <2>2. /\ core_queue' \in [Cores -> Seq(Tasks)] /\ core_quantum' \in [Cores -> Nat]
        /\ core_current' \in [Cores -> Tasks \cup {Null}]
    BY <1>1, <2>1
  <2> QED BY <1>1, <2>2 DEF MultiInv, MultiTypeOK
<1>11. PlacesOK'
  <2>0. PlacesOK
    BY DEF MultiInv
  <2>1. ASSUME NEW c \in Cores PROVE IsInjective(core_queue'[c])
    BY <1>8, <1>9, <2>0 DEF PlacesOK
  <2>2. ASSUME NEW c \in Cores, NEW t \in Tasks
        PROVE  /\ t \in ToSet(core_queue'[c]) <=> rt'[t].state = "ready" /\ assigned_core[t] = c
               /\ core_current'[c] = t <=> rt'[t].state = "running" /\ assigned_core[t] = c
    <3>0. /\ t \in ToSet(core_queue[c]) <=> rt[t].state = "ready" /\ assigned_core[t] = c
          /\ core_current[c] = t <=> rt[t].state = "running" /\ assigned_core[t] = c
          /\ rt'[t].state = IF t \in S THEN "ready" ELSE rt[t].state
          /\ t \in S <=> rt[t].state = "running" /\ assigned_core[t] \in P
      BY <2>0, <1>6, <1>7 DEF PlacesOK
    <3>1. CASE c \in P
      BY <3>0, <3>1, <1>8, MultiTypes
    <3>2. CASE c \notin P
      BY <3>0, <3>2, <1>9
    <3> QED BY <3>1, <3>2
  <2> QED BY <1>1, <2>1, <2>2 DEF PlacesOK
<1>12. TurnsOK'
  <2>1. ASSUME NEW c \in Cores
        PROVE  /\ core_current'[c] # Null => core_quantum'[c] > 0
               /\ policy = "round_robin" =>
                    Waits(core_queue'[c], core_current'[c], core_quantum'[c], streak, quantum)
    <3>1. CASE c \in P
      BY <3>1, <1>8
    <3>2. CASE c \notin P
      BY <3>2, <1>1, <1>9 DEF MultiInv, TurnsOK
    <3> QED BY <3>1, <3>2
  <2> QED BY <1>1, <2>1 DEF TurnsOK, Fixed
<1>13. OrderOK'
  <2>1. \A u, t \in Tasks : betterCandidate(u, t)' <=> betterCandidate(u, t)
    BY <1>1, <1>7 DEF betterCandidate, Fixed
  <2>2. ASSUME NEW c \in Cores, NEW u, u = core_current'[c], u # Null,
               NEW t \in ToSet(core_queue'[c])
        PROVE  /\ ~UsesQueue => betterCandidate(u, t)'
               /\ policy = "round_robin" => core_quantum'[c] < quantum
    <3>1. c \notin P
      BY <2>2, <1>8
    <3>2. /\ core_queue'[c] = core_queue[c] /\ core_current[c] = u
          /\ core_quantum'[c] = core_quantum[c] /\ ~shouldPreemptCore(c)
      BY <2>2, <3>1, <1>3, <1>9
    <3>3. /\ u \in Tasks
          /\ t \in ToSet(core_queue[c]) /\ ToSet(core_queue[c]) \subseteq Tasks
          /\ core_queue[c] # <<>>
      <4>1. u \in Tasks
        BY <2>2, <3>2, MultiTypes
      <4>2. t \in ToSet(core_queue[c]) /\ ToSet(core_queue[c]) \subseteq Tasks
        BY <2>2, <3>2, QueueFacts
      <4>3. core_queue[c] # <<>>
        BY <4>2 DEF ToSet
      <4> QED BY <4>1, <4>2, <4>3
    <3>4. ASSUME policy = "round_robin" PROVE core_quantum[c] < quantum
      <4>1. ~ (core_quantum[c] >= quantum)
        BY <2>2, <3>2, <3>3, <3>4 DEF shouldPreemptCore
      <4> QED BY <4>1, MultiTypes
    <3>5. ASSUME ~UsesQueue PROVE betterCandidate(u, t)
      <4>1. ~ betterCandidate(Best(ToSet(core_queue[c])), u)
        BY <2>2, <3>2, <3>3, <3>5 DEF shouldPreemptCore, UsesQueue
      <4>2. u \notin ToSet(core_queue[c])
        BY <3>2, <3>3 DEF MultiInv, PlacesOK
      <4> QED BY <4>1, <4>2, <3>3, MultiTypes, KeptIsBest
    <3> QED BY <3>2, <3>3, <3>4, <3>5, <2>1
  <2>3. UsesQueue' = UsesQueue /\ pc' = "rebalance" /\ policy' = policy /\ quantum' = quantum
    BY <1>1 DEF UsesQueue, Fixed
  <2> QED BY <2>2, <2>3 DEF OrderOK
<1>14. RebalancedOK' /\ IdleCoreExplained'
  BY <1>1 DEF RebalancedOK, IdleCoreExplained
<1> QED BY <1>7, <1>10, <1>11, <1>12, <1>13, <1>14 DEF MultiInv


\* The head of the donor's queue moves to the idle core.
LEMMA MultiMigrate ==
  ASSUME MultiInv, Migrate
  PROVE  MultiInv'
<1>a. SUFFICES ASSUME NEW r, r = firstIdleCore, NEW d, d = chooseDonorCore(r),
                      NEW h, h = Head(core_queue[d])
               PROVE  MultiInv'
  OBVIOUS
<1>1. /\ SimInv /\ pc = "rebalance" /\ pc' = "rebalance" /\ Fixed /\ UNCHANGED rt
      /\ core_queue' = MigratedQueues(d, r)
      /\ assigned_core' = [assigned_core EXCEPT ![h] = r]
      /\ UNCHANGED <<domains, core_current, core_quantum>>
      /\ IdleCores # {} /\ d # Null
  BY <1>a, Zenon DEF MultiInv, Migrate, MayMigrate, Fixed
<1>2. r \in Cores /\ core_current[r] = Null /\ core_queue[r] = <<>>
  BY <1>a, <1>1, FirstIdle DEF IdleCores
<1>3. d \in Cores /\ d # r /\ core_queue[d] # <<>>
  BY <1>a, <1>1, <1>2, DonorFacts
<1>4. /\ core_queue[d] \in Seq(Tasks) /\ IsInjective(core_queue[d])
      /\ ToSet(core_queue[d]) \subseteq Tasks
  BY <1>3, QueueFacts
<1>5. /\ 1 \in DOMAIN core_queue[d] /\ h = core_queue[d][1]
      /\ Tail(core_queue[d]) = RemoveAt(core_queue[d], 1)
  BY <1>a, <1>3, <1>4, TailIsRemoved
<1>6. h \in Tasks /\ h \in ToSet(core_queue[d]) /\ rt[h].state = "ready" /\ assigned_core[h] = d
  <2>1. h \in ToSet(core_queue[d])
    BY <1>5 DEF ToSet
  <2> QED BY <2>1, <1>3, <1>4 DEF MultiInv, PlacesOK
<1>7. /\ Tail(core_queue[d]) \in Seq(Tasks) /\ IsInjective(Tail(core_queue[d]))
      /\ ToSet(Tail(core_queue[d])) = ToSet(core_queue[d]) \ {h}
  <2> DEFINE q == core_queue[d]
  <2>1. q \in Seq(Tasks) /\ IsInjective(q) /\ 1 \in DOMAIN q
        /\ h = q[1] /\ Tail(q) = RemoveAt(q, 1)
    BY <1>4, <1>5
  <2> HIDE DEF q
  <2>2. /\ RemoveAt(q, 1) \in Seq(Tasks) /\ IsInjective(RemoveAt(q, 1))
        /\ ToSet(RemoveAt(q, 1)) = ToSet(q) \ {q[1]}
    BY <2>1, Removed
  <2>3. Tail(q) \in Seq(Tasks) /\ IsInjective(Tail(q)) /\ ToSet(Tail(q)) = ToSet(q) \ {h}
    BY <2>1, <2>2
  <2> QED BY <2>3 DEF q
<1>8. /\ core_queue'[d] = Tail(core_queue[d])
      /\ core_queue'[r] = <<h>>
      /\ \A c \in Cores : c # d /\ c # r => core_queue'[c] = core_queue[c]
      /\ DOMAIN core_queue' = Cores /\ core_queue' = [c \in Cores |-> core_queue'[c]]
  <2>1. core_queue' = [[core_queue EXCEPT ![d] = Tail(core_queue[d])]
                         EXCEPT ![r] = Append(core_queue[r], h)]
    BY <1>a, <1>1, <1>2, <1>3, MultiTypes DEF MigratedQueues
  <2>2. Append(core_queue[r], h) = <<h>>
    BY <1>2
  <2> QED BY <2>1, <2>2, <1>2, <1>3, MultiTypes
<1>9. <<h>> \in Seq(Tasks) /\ IsInjective(<<h>>) /\ ToSet(<<h>>) = {h}
  BY <1>6, OneTask
<1>10. SimInv'
  BY <1>1, PassStep
<1>11. /\ assigned_core' \in [Tasks -> Cores] /\ assigned_core'[h] = r
       /\ \A t \in Tasks : t # h => assigned_core'[t] = assigned_core[t]
  BY <1>1, <1>2, <1>6, MultiTypes
<1>12. MultiTypeOK'
  <2>1. \A c \in Cores : core_queue'[c] \in Seq(Tasks)
    BY <1>7, <1>8, <1>9, MultiTypes
  <2>2. core_queue' \in [Cores -> Seq(Tasks)]
    BY <1>8, <2>1
  <2> QED BY <1>1, <1>11, <2>2 DEF MultiInv, MultiTypeOK
<1>13. PlacesOK'
  <2>0. PlacesOK
    BY DEF MultiInv
  <2>1. ASSUME NEW c \in Cores PROVE IsInjective(core_queue'[c])
    BY <1>7, <1>8, <1>9, <2>0 DEF PlacesOK
  <2>2. ASSUME NEW c \in Cores, NEW t \in Tasks
        PROVE  t \in ToSet(core_queue'[c]) <=> rt[t].state = "ready" /\ assigned_core'[t] = c
    <3>0. t \in ToSet(core_queue[c]) <=> rt[t].state = "ready" /\ assigned_core[t] = c
      BY <2>0 DEF PlacesOK
    <3>1. CASE c = d
      BY <3>0, <3>1, <1>3, <1>6, <1>7, <1>8, <1>11
    <3>2. CASE c = r
      <4>1. t \notin ToSet(core_queue[c])
        BY <3>2, <1>2 DEF ToSet
      <4> QED BY <3>0, <3>2, <4>1, <1>6, <1>8, <1>9, <1>11
    <3>3. CASE c # d /\ c # r
      BY <3>0, <3>3, <1>6, <1>8, <1>11
    <3> QED BY <3>1, <3>2, <3>3
  <2>3. ASSUME NEW c \in Cores, NEW t \in Tasks
        PROVE  core_current[c] = t <=> rt[t].state = "running" /\ assigned_core'[t] = c
    BY <1>6, <1>11, <2>0 DEF PlacesOK
  <2> QED BY <1>1, <2>1, <2>2, <2>3 DEF PlacesOK
<1>14. TurnsOK'
  <2>1. ASSUME NEW c \in Cores, policy = "round_robin"
        PROVE  Waits(core_queue'[c], core_current[c], core_quantum[c], streak, quantum)
    <3>0. /\ Waits(core_queue[c], core_current[c], core_quantum[c], streak, quantum)
          /\ Waits(core_queue[d], core_current[d], core_quantum[d], streak, quantum)
      BY <2>1, <1>3 DEF MultiInv, TurnsOK
    <3>1. CASE c = d
      <4>1. core_quantum[d] \in Nat /\ streak \in [Tasks -> Nat] /\ quantum \in Nat
        BY <1>3, MultiTypes
      <4>2. Waits(Tail(core_queue[d]), core_current[d], core_quantum[d], streak, quantum)
        BY <3>0, <4>1, <1>3, <1>4, WaitsTail
      <4> QED BY <3>1, <4>2, <1>8
    <3>2. CASE c = r
      <4>1. streak[h] <= (N - 1) * quantum
        BY <3>0, <1>5 DEF Waits
      <4>2. Waits(<<h>>, Null, core_quantum[c], streak, quantum)
        BY <4>1 DEF Waits
      <4> QED BY <3>2, <4>2, <1>2, <1>8
    <3>3. CASE c # d /\ c # r
      BY <3>0, <3>3, <1>8
    <3> QED BY <3>1, <3>2, <3>3
  <2> QED BY <1>1, <2>1 DEF MultiInv, TurnsOK, Fixed
<1>15. OrderOK'
  <2>1. ASSUME NEW c \in Cores, core_current[c] # Null, NEW t \in ToSet(core_queue'[c])
        PROVE  t \in ToSet(core_queue[c])
    <3>1. c # r
      BY <2>1, <1>2
    <3> QED BY <2>1, <3>1, <1>7, <1>8
  <2>2. \A t, u : betterCandidate(t, u)' = betterCandidate(t, u)
    BY <1>1 DEF betterCandidate, Fixed
  <2>3. UsesQueue' = UsesQueue
    BY <1>1 DEF UsesQueue, Fixed
  <2> QED BY <1>1, <2>1, <2>2, <2>3 DEF MultiInv, OrderOK, Fixed
<1>16. RebalancedOK' /\ IdleCoreExplained'
  BY <1>1 DEF RebalancedOK, IdleCoreExplained
<1> QED BY <1>10, <1>12, <1>13, <1>14, <1>15, <1>16 DEF MultiInv

LEMMA MultiRebalanced ==
  ASSUME MultiInv, Rebalanced
  PROVE  MultiInv'
<1>1. /\ SimInv /\ pc = "rebalance" /\ pc' = "dispatch" /\ Fixed /\ UNCHANGED rt
      /\ UNCHANGED <<domains, core_queue, core_current, core_quantum, assigned_core>>
      /\ ~MayMigrate
  BY DEF MultiInv, Rebalanced, Fixed, coresVars
<1>2. SimInv'
  BY <1>1, PassStep
<1>3. MultiTypeOK' /\ PlacesOK' /\ TurnsOK'
  BY <1>1 DEF MultiInv, MultiTypeOK, PlacesOK, TurnsOK, Fixed
<1>4. (\A t, u : betterCandidate(t, u)' = betterCandidate(t, u)) /\ UsesQueue' = UsesQueue
  BY <1>1 DEF betterCandidate, UsesQueue, Fixed
<1>5. OrderOK'
  BY <1>1, <1>4 DEF MultiInv, OrderOK, Fixed
<1>6. RebalancedOK'
  <2>1. \A c \in Cores : c \in IdleCores' <=> c \in IdleCores
    BY <1>1 DEF IdleCores
  <2>2. \A c \in Cores : coreLoad(c)' = coreLoad(c)
    BY <1>1 DEF coreLoad
  <2>3. \A c, d \in Cores :
          c \in IdleCores /\ core_queue[d] # <<>> /\ coreLoad(d) > 1 =>
            \E e \in Cores \ {c, d} : core_current[e] = Null /\ Len(core_queue[e]) = 1
    BY <1>1, IdleLeft
  <2> QED BY <1>1, <2>1, <2>2, <2>3 DEF RebalancedOK
<1>7. IdleCoreExplained'
  BY <1>1 DEF IdleCoreExplained
<1> QED BY <1>2, <1>3, <1>5, <1>6, <1>7 DEF MultiInv


\* What selectNextCore() takes from a queue, and what it leaves.
LEMMA Taken ==
  ASSUME MultiInv, NEW c \in Cores, core_queue[c] # <<>>,
         NEW t, t = selectNextCore(core_queue[c])
  PROVE  /\ t \in ToSet(core_queue[c])
         /\ ~UsesQueue => \A u \in ToSet(core_queue[c]) \ {t} : betterCandidate(t, u)
         /\ Without(core_queue[c], t) \in Seq(Tasks)
         /\ IsInjective(Without(core_queue[c], t))
         /\ ToSet(Without(core_queue[c], t)) = ToSet(core_queue[c]) \ {t}
         /\ Len(Without(core_queue[c], t)) = Len(core_queue[c]) - 1
         /\ UsesQueue => Without(core_queue[c], t) = Tail(core_queue[c])
<1> DEFINE q == core_queue[c]
           k == CHOOSE i \in DOMAIN q : q[i] = t
<1>1. /\ q \in Seq(Tasks) /\ IsInjective(q) /\ q # <<>> /\ SimTypeOK
      /\ ToSet(q) \subseteq Tasks /\ ToSet(q) # {}
  BY QueueFacts, MultiTypes
<1>2. t = IF UsesQueue THEN Head(q) ELSE Best(ToSet(q))
  BY DEF selectNextCore
<1>3. Without(q, t) = RemoveAt(q, k)
  BY Zenon DEF Without
<1> HIDE DEF q
<1>4. 1 \in DOMAIN q /\ Head(q) = q[1] /\ Tail(q) = RemoveAt(q, 1)
  BY <1>1, TailIsRemoved
<1>5. t \in ToSet(q) /\ (~UsesQueue => \A u \in ToSet(q) \ {t} : betterCandidate(t, u))
  <2>1. CASE UsesQueue
    BY <2>1, <1>2, <1>4 DEF ToSet
  <2>2. CASE ~UsesQueue
    BY <2>2, <1>1, <1>2, BestIsBest
  <2> QED BY <2>1, <2>2
<1>6. k \in DOMAIN q /\ q[k] = t
  BY <1>5 DEF ToSet
<1> HIDE DEF k
<1>7. UsesQueue => k = 1
  BY <1>1, <1>2, <1>4, <1>6 DEF IsInjective
<1>8. /\ RemoveAt(q, k) \in Seq(Tasks) /\ IsInjective(RemoveAt(q, k))
      /\ ToSet(RemoveAt(q, k)) = ToSet(q) \ {q[k]}
      /\ Len(RemoveAt(q, k)) = Len(q) - 1
  BY <1>1, <1>6, Removed
<1> QED BY <1>3, <1>4, <1>5, <1>6, <1>7, <1>8 DEF q

LEMMA MultiDispatch ==
  ASSUME MultiInv, dispatchMulticore
  PROVE  MultiInv'
<1> DEFINE F == {c \in Cores : core_current[c] = Null /\ core_queue[c] # <<>>}
           next == [c \in F |-> selectNextCore(core_queue[c])]
           S == {t \in Tasks : \E c \in F : next[c] = t}
<1>1. /\ SimInv /\ pc = "dispatch" /\ pc' = "execute" /\ Fixed /\ UNCHANGED domains
      /\ rt' = [t \in Tasks |-> IF t \in S THEN Dispatched(rt[t]) ELSE rt[t]]
      /\ assigned_core' = [t \in Tasks |-> IF t \in S THEN CHOOSE c \in F : next[c] = t
                                                      ELSE assigned_core[t]]
      /\ core_current' = [c \in Cores |-> IF c \in F THEN next[c] ELSE core_current[c]]
      /\ core_quantum' = [c \in Cores |-> IF c \in F THEN 0 ELSE core_quantum[c]]
      /\ core_queue' = [c \in Cores |-> IF c \in F THEN Without(core_queue[c], next[c])
                                                   ELSE core_queue[c]]
  <2>1. \A c \in F : next[c] = selectNextCore(core_queue[c])
    OBVIOUS
  <2>2. \A t \in Tasks : t \in S <=> \E c \in F : selectNextCore(core_queue[c]) = t
    BY <2>1
  <2>3. \A t \in Tasks : (CHOOSE c \in F : next[c] = t)
                           = CHOOSE c \in F : selectNextCore(core_queue[c]) = t
    BY <2>1
  <2> HIDE DEF next, S
  <2>4. /\ pc = "dispatch" /\ pc' = "execute" /\ Fixed /\ UNCHANGED domains
        /\ rt' = [t \in Tasks |-> IF \E c \in F : selectNextCore(core_queue[c]) = t
                                  THEN Dispatched(rt[t]) ELSE rt[t]]
        /\ assigned_core' = [t \in Tasks |-> IF \E c \in F : selectNextCore(core_queue[c]) = t
                                             THEN CHOOSE c \in F : selectNextCore(core_queue[c]) = t
                                             ELSE assigned_core[t]]
        /\ core_current' = [c \in Cores |-> IF c \in F THEN selectNextCore(core_queue[c])
                                                       ELSE core_current[c]]
        /\ core_quantum' = [c \in Cores |-> IF c \in F THEN 0 ELSE core_quantum[c]]
        /\ core_queue' = [c \in Cores |-> IF c \in F
                                          THEN Without(core_queue[c], selectNextCore(core_queue[c]))
                                          ELSE core_queue[c]]
    BY DEF dispatchMulticore, Fixed
  <2> HIDE DEF F
  <2> QED BY <2>1, <2>2, <2>3, <2>4 DEF MultiInv
<1>2. /\ F \subseteq Cores
      /\ \A c \in Cores : c \in F <=> core_current[c] = Null /\ core_queue[c] # <<>>
      /\ \A c \in F : next[c] = selectNextCore(core_queue[c])
      /\ S \subseteq Tasks /\ \A t \in Tasks : t \in S <=> \E c \in F : next[c] = t
  OBVIOUS
<1> HIDE DEF F, next, S
<1>3. ASSUME NEW c \in F
      PROVE  /\ c \in Cores /\ core_current[c] = Null /\ core_queue[c] # <<>>
             /\ next[c] \in ToSet(core_queue[c]) /\ next[c] \in Tasks
             /\ rt[next[c]].state = "ready" /\ assigned_core[next[c]] = c
             /\ ~UsesQueue => \A u \in ToSet(core_queue[c]) \ {next[c]} : betterCandidate(next[c], u)
             /\ core_queue'[c] \in Seq(Tasks) /\ IsInjective(core_queue'[c])
             /\ ToSet(core_queue'[c]) = ToSet(core_queue[c]) \ {next[c]}
             /\ Len(core_queue'[c]) = Len(core_queue[c]) - 1
             /\ UsesQueue => core_queue'[c] = Tail(core_queue[c])
             /\ core_current'[c] = next[c] /\ core_quantum'[c] = 0
  <2>1. /\ c \in Cores /\ core_current[c] = Null /\ core_queue[c] # <<>>
        /\ next[c] = selectNextCore(core_queue[c])
    BY <1>2
  <2>2. core_queue'[c] = Without(core_queue[c], next[c]) /\ core_current'[c] = next[c]
        /\ core_quantum'[c] = 0
    BY <1>1, <2>1
  <2>3. /\ next[c] \in ToSet(core_queue[c])
        /\ ~UsesQueue => \A u \in ToSet(core_queue[c]) \ {next[c]} : betterCandidate(next[c], u)
        /\ core_queue'[c] \in Seq(Tasks) /\ IsInjective(core_queue'[c])
        /\ ToSet(core_queue'[c]) = ToSet(core_queue[c]) \ {next[c]}
        /\ Len(core_queue'[c]) = Len(core_queue[c]) - 1
        /\ UsesQueue => core_queue'[c] = Tail(core_queue[c])
    <3> DEFINE t == next[c]
               w == Without(core_queue[c], t)
    <3>1. c \in Cores /\ core_queue[c] # <<>> /\ t = selectNextCore(core_queue[c])
      BY <2>1
    <3> HIDE DEF t
    <3>2. /\ t \in ToSet(core_queue[c])
          /\ ~UsesQueue => \A u \in ToSet(core_queue[c]) \ {t} : betterCandidate(t, u)
          /\ w \in Seq(Tasks) /\ IsInjective(w)
          /\ ToSet(w) = ToSet(core_queue[c]) \ {t}
          /\ Len(w) = Len(core_queue[c]) - 1
          /\ UsesQueue => w = Tail(core_queue[c])
      BY <3>1, Taken
    <3>3. core_queue'[c] = w
      BY <2>2 DEF t
    <3> HIDE DEF w
    <3> QED BY <3>2, <3>3 DEF t
  <2>4. next[c] \in Tasks
    BY <2>1, <2>3, QueueFacts
  <2>5. rt[next[c]].state = "ready" /\ assigned_core[next[c]] = c
    BY <2>1, <2>3, <2>4 DEF MultiInv, PlacesOK
  <2> QED BY <2>1, <2>2, <2>3, <2>4, <2>5
<1>4. ASSUME NEW c \in Cores, c \notin F
      PROVE  /\ core_queue'[c] = core_queue[c] /\ core_current'[c] = core_current[c]
             /\ core_quantum'[c] = core_quantum[c]
             /\ core_current[c] = Null => core_queue[c] = <<>>
  BY <1>1, <1>2, <1>4
<1>5. assigned_core' = assigned_core
  <2>1. ASSUME NEW t \in S PROVE (CHOOSE c \in F : next[c] = t) = assigned_core[t]
    <3> DEFINE x == CHOOSE c \in F : next[c] = t
    <3>1. x \in F /\ next[x] = t
      BY <1>2
    <3> HIDE DEF x
    <3>2. assigned_core[t] = x
      BY <3>1, <1>3
    <3> QED BY <3>2 DEF x
  <2> QED BY <1>1, <2>1, MultiTypes
<1>6. \A t \in Tasks : t \in S <=> /\ assigned_core[t] \in F
                                   /\ next[assigned_core[t]] = t
  BY <1>2, <1>3
<1>7. /\ SimInv'
      /\ \A t \in Tasks : /\ rt'[t].state = IF t \in S THEN "running" ELSE rt[t].state
                          /\ rt'[t].vruntime = rt[t].vruntime
  <2>1. S \subseteq InState("ready")
    BY <1>2, <1>3 DEF InState
  <2> QED BY <1>1, <2>1, DispatchStep
<1>8. MultiTypeOK'
  <2>1. \A c \in Cores : /\ core_queue'[c] \in Seq(Tasks)
                         /\ core_current'[c] \in Tasks \cup {Null}
                         /\ core_quantum'[c] \in Nat
    <3>1. \A c \in F : /\ core_queue'[c] \in Seq(Tasks) /\ core_current'[c] \in Tasks
                       /\ core_quantum'[c] \in Nat
      BY <1>3
    <3>2. \A c \in Cores \ F : /\ core_queue'[c] \in Seq(Tasks)
                               /\ core_current'[c] \in Tasks \cup {Null}
                               /\ core_quantum'[c] \in Nat
      BY <1>4, MultiTypes
    <3> QED BY <3>1, <3>2
  <2>2. /\ core_queue' \in [Cores -> Seq(Tasks)] /\ core_quantum' \in [Cores -> Nat]
        /\ core_current' \in [Cores -> Tasks \cup {Null}]
    BY <1>1, <2>1
  <2> QED BY <1>1, <1>5, <2>2 DEF MultiInv, MultiTypeOK
<1>9. PlacesOK'
  <2>0. PlacesOK
    BY DEF MultiInv
  <2>1. ASSUME NEW c \in Cores PROVE IsInjective(core_queue'[c])
    BY <1>3, <1>4, <2>0 DEF PlacesOK
  <2>2. ASSUME NEW c \in Cores, NEW t \in Tasks
        PROVE  /\ t \in ToSet(core_queue'[c]) <=> rt'[t].state = "ready" /\ assigned_core[t] = c
               /\ core_current'[c] = t <=> rt'[t].state = "running" /\ assigned_core[t] = c
    <3>0. /\ t \in ToSet(core_queue[c]) <=> rt[t].state = "ready" /\ assigned_core[t] = c
          /\ core_current[c] = t <=> rt[t].state = "running" /\ assigned_core[t] = c
          /\ rt'[t].state = IF t \in S THEN "running" ELSE rt[t].state
          /\ t \in S <=> assigned_core[t] \in F /\ next[assigned_core[t]] = t
          /\ Null # t
      BY <2>0, <1>6, <1>7, MultiTypes DEF PlacesOK
    <3>1. CASE c \in F
      <4>1. /\ core_current[c] = Null /\ next[c] \in ToSet(core_queue[c])
            /\ core_current'[c] = next[c]
            /\ ToSet(core_queue'[c]) = ToSet(core_queue[c]) \ {next[c]}
            /\ assigned_core[next[c]] = c /\ rt[next[c]].state = "ready"
        BY <3>1, <1>3
      <4>2. CASE t = next[c]
        BY <3>0, <3>1, <4>1, <4>2
      <4>3. CASE t # next[c]
        BY <3>0, <3>1, <4>1, <4>3
      <4> QED BY <4>2, <4>3
    <3>2. CASE c \notin F
      BY <3>0, <3>2, <1>4
    <3> QED BY <3>1, <3>2
  <2> QED BY <1>5, <2>1, <2>2 DEF PlacesOK
<1>10. TurnsOK'
  <2>1. ASSUME NEW c \in Cores, policy = "round_robin"
        PROVE  Waits(core_queue'[c], core_current'[c], core_quantum'[c], streak, quantum)
    <3>1. Waits(core_queue[c], core_current[c], core_quantum[c], streak, quantum)
      BY <2>1 DEF MultiInv, TurnsOK
    <3>2. CASE c \in F
      <4>1. /\ core_queue'[c] = Tail(core_queue[c]) /\ core_queue[c] # <<>>
            /\ core_quantum'[c] \in Nat
        BY <2>1, <3>2, <1>3 DEF UsesQueue
      <4>2. /\ core_queue[c] \in Seq(Tasks) /\ IsInjective(core_queue[c])
            /\ streak \in [Tasks -> Nat] /\ quantum \in Nat
        BY QueueFacts, MultiTypes
      <4> QED BY <3>1, <4>1, <4>2, WaitsTail
    <3>3. CASE c \notin F
      BY <3>1, <3>3, <1>4
    <3> QED BY <3>2, <3>3
  <2> QED BY <1>1, <2>1 DEF TurnsOK, Fixed
<1>11. OrderOK'
  <2>1. \A u, t \in Tasks : betterCandidate(u, t)' <=> betterCandidate(u, t)
    BY <1>1, <1>7 DEF betterCandidate, Fixed
  <2>2. UsesQueue' = UsesQueue /\ pc' = "execute" /\ policy' = policy /\ quantum' = quantum
    BY <1>1 DEF UsesQueue, Fixed
  <2>3. ASSUME NEW c \in Cores, NEW u, u = core_current'[c], u # Null,
               NEW t \in ToSet(core_queue'[c])
        PROVE  /\ ~UsesQueue => betterCandidate(u, t)'
               /\ policy = "round_robin" => core_quantum'[c] < quantum
    <3>1. CASE c \in F
      <4>1. /\ u = next[c] /\ u \in Tasks /\ core_quantum'[c] = 0
            /\ t \in ToSet(core_queue[c]) \ {u} /\ t \in Tasks
            /\ ~UsesQueue => betterCandidate(u, t)
        BY <2>3, <3>1, <1>3, QueueFacts
      <4> QED BY <4>1, <2>1, MultiTypes
    <3>2. CASE c \notin F
      <4>1. /\ u = core_current[c] /\ u \in Tasks /\ t \in ToSet(core_queue[c])
            /\ core_quantum'[c] = core_quantum[c]
        BY <2>3, <3>2, <1>4, MultiTypes
      <4>2. t \in Tasks
        BY <4>1, QueueFacts
      <4>3. /\ ~UsesQueue => betterCandidate(u, t)
            /\ policy = "round_robin" => core_quantum[c] < quantum
        BY <2>3, <4>1, <1>1 DEF MultiInv, OrderOK
      <4> QED BY <4>1, <4>2, <4>3, <2>1
    <3> QED BY <3>1, <3>2
  <2>4. ASSUME NEW c \in Cores, core_current'[c] = Null PROVE core_queue'[c] = <<>>
    BY <2>4, <1>3, <1>4, MultiTypes
  <2> QED BY <2>2, <2>3, <2>4 DEF OrderOK
<1>12. IdleCoreExplained'
  <2> SUFFICES ASSUME NEW c \in Cores, NEW d \in Cores, core_current'[c] = Null,
                      core_queue'[d] # <<>>
               PROVE  \E e \in Cores \ {c, d} : /\ core_current'[e] # Null
                                                /\ core_quantum'[e] = 0
                                                /\ core_queue'[e] = <<>>
    BY DEF IdleCoreExplained
  <2>1. c \notin F /\ c \in IdleCores
    BY <1>3, <1>4, MultiTypes DEF IdleCores
  <2>2. core_queue[d] # <<>> /\ coreLoad(d) > 1
    <3> DEFINE n == Len(core_queue[d])
    <3>1. CASE d \in F
      <4>1. core_queue[d] # <<>> /\ n \in Nat /\ coreLoad(d) = n + 0
        BY <3>1, <1>3, QueueFacts DEF coreLoad
      <4>2. core_queue'[d] \in Seq(Tasks) /\ Len(core_queue'[d]) = n - 1
        BY <3>1, <1>3
      <4>3. Len(core_queue'[d]) \in Nat /\ Len(core_queue'[d]) > 0
        BY <4>2, LenProperties, EmptySeq
      <4> HIDE DEF n
      <4>4. n > 1
        BY <4>1, <4>2, <4>3
      <4> QED BY <4>1, <4>4
    <3>2. CASE d \notin F
      <4>1. core_queue[d] # <<>> /\ core_current[d] # Null
        BY <3>2, <1>4
      <4>2. n \in Nat /\ n > 0 /\ coreLoad(d) = n + 1
        BY <4>1, QueueFacts DEF coreLoad
      <4> HIDE DEF n
      <4> QED BY <4>1, <4>2
    <3> QED BY <3>1, <3>2
  <2>3. PICK e \in Cores \ {c, d} : core_current[e] = Null /\ Len(core_queue[e]) = 1
    BY <2>1, <2>2, <1>1 DEF MultiInv, RebalancedOK
  <2>4. core_queue[e] # <<>>
    <3> DEFINE k == Len(core_queue[e])
    <3>1. k = 1
      BY <2>3
    <3>2. core_queue[e] = <<>> => k = 0
      BY EmptySeq
    <3> HIDE DEF k
    <3> QED BY ONLY <3>1, <3>2
  <2>5. e \in F
    BY <2>3, <2>4, <1>2
  <2>6. /\ core_current'[e] \in Tasks /\ core_quantum'[e] = 0
        /\ core_queue'[e] \in Seq(Tasks) /\ Len(core_queue'[e]) = 1 - 1
    BY <2>3, <2>5, <1>3, ZenonT(30)
  <2>7. core_queue'[e] = <<>>
    BY <2>6, EmptySeq
  <2> QED BY <2>3, <2>6, <2>7, MultiTypes
<1>13. RebalancedOK'
  BY <1>1 DEF RebalancedOK
<1> QED BY <1>7, <1>8, <1>9, <1>10, <1>11, <1>12, <1>13 DEF MultiInv


\* Every core that has a task executes it for one tick; no task runs twice in it.
LEMMA MultiExecute ==
  ASSUME MultiInv, executeMulticore
  PROVE  MultiInv'
<1> DEFINE B == {c \in Cores : core_current[c] # Null}
           R == {core_current[c] : c \in B}
           after == [t \in Tasks |-> IF t \in R THEN Executed(t) ELSE rt[t]]
           freed == {c \in B : after[core_current[c]].state # "running"}
           C == {c \in B : after[core_current[c]].state = "complete"}
           finished == [i \in DOMAIN InOrder(C) |-> core_current[InOrder(C)[i]]]
<1>1. /\ SimInv /\ pc = "execute" /\ tick' = tick + 1 /\ CountWaiting
      /\ pc' = IF (\E t \in R : BadExecution(t)) \/ Cardinality(R) < Cardinality(B)
               THEN "error" ELSE "wake"
      /\ rt' = after
      /\ completion_order' = completion_order \o finished
      /\ core_current' = [c \in Cores |-> IF c \in freed THEN Null ELSE core_current[c]]
      /\ core_quantum' = [c \in Cores |-> IF c \in freed THEN 0
                                          ELSE IF c \in B THEN core_quantum[c] + 1
                                          ELSE core_quantum[c]]
      /\ UNCHANGED <<spec, policy, quantum, report, domains, core_queue, assigned_core>>
  BY Zenon DEF MultiInv, executeMulticore
<1>2. \A c \in B : /\ c \in Cores /\ core_current[c] \in Tasks
                   /\ rt[core_current[c]].state = "running"
                   /\ assigned_core[core_current[c]] = c
                   /\ core_current[c] \in R
  <2>1. \A c \in B : c \in Cores /\ core_current[c] \in Tasks /\ core_current[c] \in R
    BY MultiTypes
  <2> QED BY <2>1 DEF MultiInv, PlacesOK
<1>3. R = InState("running") /\ R \subseteq Tasks
  <2>1. \A t \in R : t \in Tasks /\ rt[t].state = "running"
    BY <1>2
  <2>2. ASSUME NEW t \in Tasks, rt[t].state = "running" PROVE t \in R
    <3>1. assigned_core[t] \in Cores /\ core_current[assigned_core[t]] = t /\ t # Null
      BY <2>2, MultiTypes DEF MultiInv, PlacesOK
    <3> QED BY <3>1
  <2> QED BY <2>1, <2>2 DEF InState
<1>4. \A c \in Cores : c \in B <=> core_current[c] # Null
  OBVIOUS
<1>5. /\ \A t \in R : after[t] = Executed(t)
      /\ \A c \in B : c \in freed <=> Executed(core_current[c]).state # "running"
      /\ \A c \in B : c \in C <=> Executed(core_current[c]).state = "complete"
      /\ C \subseteq B /\ freed \subseteq B /\ B \subseteq Cores
      /\ after = [t \in Tasks |-> IF t \in R THEN Executed(t) ELSE rt[t]]
  BY <1>2, <1>3
<1>6. Cardinality(R) = Cardinality(B)
  <2> DEFINE m == [c \in B |-> core_current[c]]
  <2>1. m \in Surjection(B, R)
    BY DEF Surjection
  <2>2. m \in Injection(B, R)
    BY <1>2 DEF Injection, IsInjective
  <2>3. IsFiniteSet(B)
    BY CoresFinite, FS_Subset
  <2> HIDE DEF m, B, R
  <2> QED BY <2>1, <2>2, <2>3, FS_Surjection
<1> HIDE DEF B, R, after, freed, C
<1>7. pc' = "wake"
  <2>1. \A t \in R : ~BadExecution(t)
    BY <1>1, <1>3, ExecutesWell DEF InState
  <2>2. IsFiniteSet(R)
    BY <1>3, TasksFinite, FS_Subset
  <2>3. Cardinality(R) \in Nat
    BY <2>2, FS_CardinalityType
  <2>4. ~ (Cardinality(R) < Cardinality(B))
    BY <2>3, <1>6
  <2> QED BY <1>1, <2>1, <2>4
<1>8. /\ finished \in Seq(Tasks) /\ IsInjective(finished)
      /\ ToSet(finished) = {t \in R : Executed(t).state = "complete"}
  <2> DEFINE o == InOrder(C)
  <2>1. C \subseteq Nat /\ IsFiniteSet(C)
    BY <1>5, CoresFinite, FS_Subset
  <2>2. /\ o \in Seq(C) /\ DOMAIN o = 1..Cardinality(C)
        /\ IsInjective(o) /\ ToSet(o) = C
    BY <2>1, InOrderLists
  <2>3. Cardinality(C) \in Nat
    BY <2>1, FS_CardinalityType
  <2> HIDE DEF o
  <2>4. \A i \in DOMAIN o : /\ o[i] \in C /\ o[i] \in B /\ core_current[o[i]] \in Tasks
                            /\ core_current[o[i]] \in R
                            /\ Executed(core_current[o[i]]).state = "complete"
    <3>1. \A i \in DOMAIN o : o[i] \in C
      BY <2>2 DEF ToSet
    <3> QED BY <3>1, <1>2, <1>5
  <2> DEFINE fin == [i \in DOMAIN o |-> core_current[o[i]]]
  <2>5. fin = [i \in 1..Cardinality(C) |-> core_current[o[i]]] /\ DOMAIN fin = DOMAIN o
        /\ \A i \in DOMAIN o : fin[i] = core_current[o[i]]
    BY <2>2
  <2>6. fin \in Seq(Tasks)
    <3>1. \A i \in 1..Cardinality(C) : core_current[o[i]] \in Tasks
      BY <2>2, <2>4
    <3> QED BY <2>3, <2>5, <3>1, IsASeq
  <2>7. finished = fin
    BY DEF o
  <2> HIDE DEF fin, finished
  <2>8. IsInjective(fin)
    <3> SUFFICES ASSUME NEW i \in DOMAIN o, NEW j \in DOMAIN o,
                        core_current[o[i]] = core_current[o[j]]
                 PROVE  i = j
      BY <2>5 DEF IsInjective
    <3>1. o[i] = o[j]
      BY <2>4, <1>2
    <3> QED BY <3>1, <2>2 DEF IsInjective
  <2>9. ToSet(fin) = {t \in R : Executed(t).state = "complete"}
    <3>1. \A i \in DOMAIN fin : fin[i] \in R /\ Executed(fin[i]).state = "complete"
      BY <2>4, <2>5
    <3>2. ASSUME NEW t \in R, Executed(t).state = "complete" PROVE t \in ToSet(fin)
      <4>1. PICK c \in B : t = core_current[c]
        BY DEF R
      <4>2. c \in C
        BY <3>2, <4>1, <1>5
      <4>3. PICK i \in DOMAIN o : c = o[i]
        BY <4>2, <2>2 DEF ToSet
      <4>4. i \in DOMAIN fin /\ fin[i] = t
        BY <4>1, <4>3, <2>5
      <4> QED BY <4>4 DEF ToSet
    <3> QED BY <3>1, <3>2 DEF ToSet
  <2> QED BY <2>6, <2>7, <2>8, <2>9
<1> HIDE DEF finished
<1>9. /\ SimInv'
      /\ \A t \in R : rt'[t].state \in {"running", "blocked", "complete"}
      /\ \A t \in Tasks \ R : rt'[t] = rt[t]
      /\ \A t \in Tasks : streak'[t] = IF rt[t].state = "ready" THEN streak[t] + 1 ELSE 0
  <2>1. rt' = [t \in Tasks |-> IF t \in R THEN Executed(t) ELSE rt[t]]
    BY <1>1, <1>5
  <2> QED BY <1>1, <1>3, <1>7, <1>8, <2>1, ExecuteStep
<1>10. \A c \in Cores :
         /\ core_current'[c] = core_current[c] \/ core_current'[c] = Null
         /\ core_current'[c] # Null => core_quantum'[c] = core_quantum[c] + 1
         /\ core_quantum'[c] \in Nat
         /\ core_current'[c] # Null <=> c \in B /\ c \notin freed
  BY <1>1, <1>4, <1>5, MultiTypes
<1>11. MultiTypeOK'
  <2>1. core_current' \in [Cores -> Tasks \cup {Null}] /\ core_quantum' \in [Cores -> Nat]
    <3>1. \A c \in Cores : core_current'[c] \in Tasks \cup {Null} /\ core_quantum'[c] \in Nat
      BY <1>10, MultiTypes
    <3> QED BY <1>1, <3>1
  <2> QED BY <1>1, <1>7, <2>1 DEF MultiInv, MultiTypeOK
<1>12. PlacesOK'
  <2>0. PlacesOK
    BY DEF MultiInv
  <2>1. \A t \in Tasks : t \in R <=> rt[t].state = "running"
    BY <1>3 DEF InState
  <2>2. \A t \in Tasks : rt'[t].state = "ready" <=> rt[t].state = "ready"
    BY <2>1, <1>9
  <2>3. ASSUME NEW c \in Cores, NEW t \in Tasks
        PROVE  core_current'[c] = t <=> rt'[t].state = "running" /\ assigned_core[t] = c
    <3>0. core_current[c] = t <=> rt[t].state = "running" /\ assigned_core[t] = c
      BY <2>0 DEF PlacesOK
    <3>1. Null # t
      BY MultiTypes
    <3>2. CASE core_current[c] = t
      <4>1. c \in B /\ t \in R
        BY <3>0, <3>1, <3>2, <1>4, <2>1
      <4>2. rt'[t] = Executed(t)
        BY <4>1, <1>1, <1>5
      <4>3. core_current'[c] = t <=> c \notin freed
        BY <3>1, <3>2, <4>1, <1>10
      <4> QED BY <3>0, <3>2, <4>1, <4>2, <4>3, <1>5
    <3>3. CASE core_current[c] # t
      <4>1. core_current'[c] # t
        BY <3>1, <3>3, <1>10
      <4>2. rt'[t].state = "running" => rt[t].state = "running"
        BY <2>1, <1>9
      <4> QED BY <3>0, <3>3, <4>1, <4>2
    <3> QED BY <3>2, <3>3
  <2> QED BY <1>1, <2>0, <2>2, <2>3 DEF PlacesOK
<1>13. TurnsOK'
  <2>1. ASSUME NEW c \in Cores PROVE core_current'[c] # Null => core_quantum'[c] > 0
    BY <1>10, MultiTypes
  <2>2. ASSUME NEW c \in Cores, policy = "round_robin"
        PROVE  Waits(core_queue[c], core_current'[c], core_quantum'[c], streak', quantum)
    <3> DEFINE q == core_queue[c]  cur == core_current[c]  cq == core_quantum[c]
               cur2 == core_current'[c]  cq2 == core_quantum'[c]
    <3>1. q \in Seq(Tasks) /\ ToSet(q) \subseteq Tasks /\ (q # <<>> => ToSet(q) # {})
      BY QueueFacts
    <3>2. Waits(q, cur, cq, streak, quantum) /\ cq \in Nat
      BY <2>2, MultiTypes DEF MultiInv, TurnsOK
    <3>3. q # <<>> => cur # Null /\ cq < quantum
      BY <2>2, <3>1, <1>1 DEF MultiInv, OrderOK
    <3>4. \A t \in ToSet(q) : streak'[t] = streak[t] + 1
      BY <3>1, <1>9 DEF MultiInv, PlacesOK
    <3>5. cur2 # Null => cq2 = cq + 1
      BY <1>10
    <3>6. streak \in [Tasks -> Nat] /\ streak' \in [Tasks -> Nat] /\ quantum \in Nat
      BY <1>9, MultiTypes DEF SimInv, SimTypeOK
    <3> HIDE DEF q, cur, cq, cur2, cq2
    <3>7. Waits(q, cur2, cq2, streak', quantum)
      BY <3>1, <3>2, <3>3, <3>4, <3>5, <3>6, WaitsTick
    <3> QED BY <3>7 DEF q, cur2, cq2
  <2> QED BY <1>1, <1>7, <2>1, <2>2 DEF TurnsOK
<1>14. OrderOK' /\ RebalancedOK' /\ IdleCoreExplained'
  BY <1>7 DEF OrderOK, RebalancedOK, IdleCoreExplained
<1> QED BY <1>9, <1>11, <1>12, <1>13, <1>14 DEF MultiInv

LEMMA MultiFinalize ==
  ASSUME MultiInv, Finalize, UNCHANGED <<domains, coresVars>>
  PROVE  MultiInv'
<1>1. SimInv' /\ pc' = "done"
  BY FinalizeStep DEF MultiInv
<1>2. /\ UNCHANGED <<policy, quantum, rt, streak>> /\ pc = "wake"
      /\ UNCHANGED <<domains, core_queue, core_current, core_quantum, assigned_core>>
  BY DEF Finalize, coresVars
<1>3. MultiTypeOK' /\ PlacesOK' /\ TurnsOK'
  BY <1>1, <1>2 DEF MultiInv, MultiTypeOK, PlacesOK, TurnsOK
<1>4. OrderOK' /\ RebalancedOK' /\ IdleCoreExplained'
  BY <1>1 DEF OrderOK, RebalancedOK, IdleCoreExplained
<1> QED BY <1>1, <1>3, <1>4 DEF MultiInv

LEMMA MultiStutter ==
  ASSUME MultiInv, UNCHANGED multiVars
  PROVE  MultiInv'
<1>1. /\ UNCHANGED <<spec, policy, quantum, rt, tick, completion_order, report, pc, waited, streak>>
      /\ UNCHANGED <<domains, core_queue, core_current, core_quantum, assigned_core>>
  BY DEF multiVars, simVars, coresVars
<1>2. SimInv'
  BY <1>1, SimStutter DEF MultiInv
<1>3. MultiTypeOK' /\ PlacesOK' /\ TurnsOK'
  BY <1>1 DEF MultiInv, MultiTypeOK, PlacesOK, TurnsOK
<1>4. (\A t, u : betterCandidate(t, u)' = betterCandidate(t, u)) /\ UsesQueue' = UsesQueue
  BY <1>1 DEF betterCandidate, UsesQueue
<1>5. OrderOK'
  BY <1>1, <1>4 DEF MultiInv, OrderOK
<1>6. RebalancedOK'
  BY <1>1, ZenonT(30) DEF MultiInv, RebalancedOK, IdleCores, coreLoad
<1>7. IdleCoreExplained'
  BY <1>1 DEF MultiInv, IdleCoreExplained
<1> QED BY <1>2, <1>3, <1>5, <1>6, <1>7 DEF MultiInv

\* Every stage of every tick of simulateMulticore() keeps MultiInv: the same ledger,
\* each task in the place its state and assigned core name, the turns of each core
\* and what rebalanceReadyQueues() leaves for dispatch.
THEOREM MultiInvariant == MultiSpec => []MultiInv
<1>1. MultiInit => MultiInv
  BY MultiStart
<1>2. MultiInv /\ [MultiNext]_multiVars => MultiInv'
  BY MultiWake, MultiArrive, MultiArrived, MultiPreempt, MultiMigrate, MultiRebalanced,
     MultiDispatch, MultiExecute, MultiFinalize, MultiStutter DEF MultiNext
<1> QED BY <1>1, <1>2, PTL DEF MultiSpec

LEMMA OnePlaceFollows ==
  ASSUME MultiInv
  PROVE  OnePlace
<1>0. PlacesOK
  BY DEF MultiInv
<1>1. pc # "error"
  BY DEF MultiInv, MultiTypeOK
<1>2. ASSUME NEW c \in Cores, NEW i \in DOMAIN core_queue[c]
      PROVE  rt[core_queue[c][i]].state = "ready" /\ assigned_core[core_queue[c][i]] = c
  <2>1. core_queue[c][i] \in ToSet(core_queue[c]) /\ ToSet(core_queue[c]) \subseteq Tasks
    BY QueueFacts DEF ToSet
  <2> QED BY <2>1, <1>0 DEF PlacesOK
<1>3. ASSUME NEW c \in Cores
      PROVE  /\ IsInjective(core_queue[c])
             /\ core_current[c] # Null => /\ rt[core_current[c]].state = "running"
                                          /\ assigned_core[core_current[c]] = c
  BY <1>0, MultiTypes DEF PlacesOK
<1>4. /\ \A t \in InState("ready") : t \in ToSet(core_queue[assigned_core[t]])
      /\ \A t \in InState("running") : core_current[assigned_core[t]] = t
  BY <1>0, MultiTypes DEF PlacesOK, InState
<1> QED BY <1>1, <1>2, <1>3, <1>4 DEF OnePlace

LEMMA CorePolicyFollows ==
  ASSUME MultiInv
  PROVE  CorePolicyHonoured
<1> SUFFICES ASSUME pc = "execute", NEW c \in Cores, NEW t \in ToSet(core_queue[c])
             PROVE  /\ core_current[c] # Null
                    /\ ~UsesQueue => betterCandidate(core_current[c], t)
                    /\ policy = "round_robin" => streak[t] < (N - 1) * quantum
  BY DEF CorePolicyHonoured
<1>1. core_queue[c] # <<>>
  BY DEF ToSet
<1>2. core_current[c] # Null
  BY <1>1 DEF MultiInv, OrderOK
<1>3. /\ ~UsesQueue => betterCandidate(core_current[c], t)
      /\ policy = "round_robin" => core_quantum[c] < quantum
  BY <1>2 DEF MultiInv, OrderOK
<1>4. ASSUME policy = "round_robin" PROVE streak[t] < (N - 1) * quantum
  <2>1. Waits(core_queue[c], core_current[c], core_quantum[c], streak, quantum)
    BY <1>4 DEF MultiInv, TurnsOK
  <2>2. /\ core_queue[c] \in Seq(Tasks) /\ streak \in [Tasks -> Nat] /\ quantum \in Nat
        /\ core_quantum[c] \in Nat
    BY MultiTypes
  <2> QED BY <2>1, <2>2, <1>2, <1>3, <1>4, WaitsBound
<1> QED BY <1>2, <1>3, <1>4

\* On several cores every runnable task is in one place, and no task of a tick of
\* simulateMulticore() is executed twice or meets an error (OnePlace).
THEOREM MultiOnePlace == MultiSpec => []OnePlace
<1>1. MultiInv => OnePlace
  BY OnePlaceFollows
<1> QED BY <1>1, MultiInvariant, PTL

\* Rebalancing: a core idles while a task waits elsewhere only when the donor that
\* chooseDonorCore() found was a third core with a single task (IdleCoreExplained).
THEOREM MultiIdle == MultiSpec => []IdleCoreExplained
<1>1. MultiInv => IdleCoreExplained
  BY DEF MultiInv
<1> QED BY <1>1, MultiInvariant, PTL

\* Each core runs its own queue by the policy's order and, under Round Robin, keeps
\* the bound on waiting across migrations (CorePolicyHonoured).
THEOREM MultiPolicy == MultiSpec => []CorePolicyHonoured
<1>1. MultiInv => CorePolicyHonoured
  BY CorePolicyFollows
<1> QED BY <1>1, MultiInvariant, PTL

\* The report finalizeResult() makes of a multi-core run is true as well.
THEOREM MultiReport == MultiSpec => []ReportIsTrue
<1>1. MultiInv => ReportIsTrue
  BY ReportFollows DEF MultiInv
<1> QED BY <1>1, MultiInvariant, PTL

=============================================================================
