---------------------------- MODULE SimMultiCore ----------------------------
(***************************************************************************)
(* simulateMulticore() of sim/engine.zig: the loop that runs a scenario on *)
(* several cores.  A tick calls six functions in turn: wakeups, arrivals,  *)
(* preemption, rebalancing, dispatch and execution.  Every core has its    *)
(* own ready queue, whatever the policy; a task waits in the queue of its  *)
(* assigned core, which arrival, rebalancing and dispatch choose.          *)
(*                                                                         *)
(* An arrival and a migration are one step each, as each one changes the   *)
(* loads that the next one reads.  The other functions visit each task or  *)
(* core once and are one step each; in preemption, dispatch and execution  *)
(* a core's turn reads and changes only that core and its tasks, so the    *)
(* cores change together.  current_group_index and current_group_run_ticks *)
(* are written by this loop and never read: no quota is enforced on        *)
(* several cores.                                                          *)
(***************************************************************************)
EXTENDS SimTask

CONSTANTS NumCores,
          Layouts      \* the domains of a scenario: sequences of sequences of
                       \* cores; the empty sequence declares none

\* ScenarioOwned.validate(): core_count is not 0.
ASSUME CoresAssumption ==
  /\ NumCores \in Nat \ {0}
  /\ Layouts \subseteq Seq(Seq(Nat))

VARIABLES domains,
          core_queue,        \* cores[].ready_queue
          core_current,      \* cores[].current: the running task, or Null
          core_quantum,      \* cores[].current_quantum
          assigned_core      \* per task

coresVars == <<core_queue, core_current, core_quantum, assigned_core>>

multiVars == <<simVars, domains, coresVars>>

Cores == 1..NumCores

\* ScenarioOwned.validate(): the domains are not empty and partition the cores.
ValidLayout(d) ==
  d # <<>> =>
    /\ \A i \in DOMAIN d : d[i] # <<>> /\ ToSet(d[i]) \subseteq Cores
    /\ \A c \in Cores : \E i \in DOMAIN d : c \in ToSet(d[i])
    /\ \A i, j \in DOMAIN d : \A k \in DOMAIN d[i], l \in DOMAIN d[j] :
         d[i][k] = d[j][l] => i = j /\ k = l

MultiInit ==
  /\ SimInit
  /\ domains \in {d \in Layouts : ValidLayout(d)}
  /\ core_queue = [c \in Cores |-> <<>>]
  /\ core_current = [c \in Cores |-> Null]
  /\ core_quantum = [c \in Cores |-> 0]
  /\ assigned_core = [t \in Tasks |-> 1]

processBlockedMulticore ==
  /\ pc = "wake"
  /\ Len(completion_order) < N
  /\ pc' = IF \E t \in Woken : BadWake(t) THEN "error" ELSE "arrive"
  /\ rt' = AfterWakeups
  /\ core_queue' =
       [c \in Cores |->
          core_queue[c] \o InOrder({t \in Woken : assigned_core[t] = c})]
  /\ UNCHANGED <<spec, policy, quantum, tick, completion_order, report, waited,
                 streak, domains, core_current, core_quantum, assigned_core>>

-----------------------------------------------------------------------------
(* Arrivals                                                                *)

coreLoad(c) == Len(core_queue[c]) + IF core_current[c] = Null THEN 0 ELSE 1

\* The tasks on the cores of domain d, each by its core and its place there.
domainLoad(d) ==
  Cardinality(UNION { {c} \X (1..coreLoad(c)) : c \in ToSet(d) })

\* The first element of sequence s whose entry in `load' is least.
FirstLeast(s, load) ==
  s[CHOOSE i \in DOMAIN s : \A j \in DOMAIN s :
      load[i] < load[j] \/ (load[i] = load[j] /\ i <= j)]

\* chooseArrivalCore(): the least loaded core of the least loaded domain.
chooseArrivalCore ==
  LET inDomain == IF domains = <<>> THEN [c \in Cores |-> c]
                  ELSE FirstLeast(domains, [i \in DOMAIN domains |-> domainLoad(domains[i])])
  IN  FirstLeast(inDomain, [i \in DOMAIN inDomain |-> coreLoad(inDomain[i])])

\* enqueueArrivalsMulticore(): the arrivals of the tick in the order of the tasks.
Arrive ==
  /\ pc = "arrive"
  /\ Arriving # {}
  /\ LET t == CHOOSE t \in Arriving : \A u \in Arriving : t <= u
         c == chooseArrivalCore
     IN  /\ rt' = [rt EXCEPT ![t].state = "ready"]
         /\ assigned_core' = [assigned_core EXCEPT ![t] = c]
         /\ core_queue' = [core_queue EXCEPT ![c] = Append(@, t)]
  /\ UNCHANGED <<spec, policy, quantum, tick, completion_order, report, pc, waited,
                 streak, domains, core_current, core_quantum>>

ArrivalsDone ==
  /\ pc = "arrive"
  /\ Arriving = {}
  /\ pc' = "preempt"
  /\ UNCHANGED <<spec, policy, quantum, rt, tick, completion_order, report, waited,
                 streak, domains, coresVars>>

-----------------------------------------------------------------------------
(* Preemption and rebalancing                                              *)

\* Mutant: preemption at the end of a quantum only.
PreemptsByQuantumOnly(c) ==
  /\ core_current[c] # Null
  /\ core_queue[c] # <<>>
  /\ policy = "round_robin"
  /\ core_quantum[c] >= quantum

\* shouldPreemptCore(): the contenders are the tasks of the core's own queue.
shouldPreemptCore(c) ==
  /\ core_current[c] # Null
  /\ core_queue[c] # <<>>
  /\ CASE policy = "fcfs" -> FALSE
       [] policy = "round_robin" -> core_quantum[c] >= quantum
       [] OTHER -> betterCandidate(Best(ToSet(core_queue[c])), core_current[c])

preemptMulticore ==
  LET preempted == {c \in Cores : shouldPreemptCore(c)}
  IN  /\ pc = "preempt"
      /\ pc' = "rebalance"
      /\ rt' = [t \in Tasks |-> IF \E c \in preempted : core_current[c] = t
                                THEN [rt[t] EXCEPT !.state = "ready"] ELSE rt[t]]
      /\ core_queue' = [c \in Cores |-> IF c \in preempted
                                         THEN Append(core_queue[c], core_current[c])
                                         ELSE core_queue[c]]
      /\ core_current' = [c \in Cores |-> IF c \in preempted THEN Null ELSE core_current[c]]
      /\ core_quantum' = [c \in Cores |-> IF c \in preempted THEN 0
                                             ELSE core_quantum[c]]
      /\ UNCHANGED <<spec, policy, quantum, tick, completion_order, report, waited,
                     streak, domains, assigned_core>>

IdleCores == {c \in Cores : core_current[c] = Null /\ core_queue[c] = <<>>}

firstIdleCore == CHOOSE c \in IdleCores : \A d \in IdleCores : c <= d

\* busiestReadyCoreInDomain() and busiestReadyCore(): the first of the cores in
\* sequence cs with the longest queue, Null when all are empty.
busiestReadyCore(cs, exclude) ==
  LET donors    == {i \in DOMAIN cs : cs[i] # exclude /\ core_queue[cs[i]] # <<>>}
      length(i) == Len(core_queue[cs[i]])
  IN  IF donors = {} THEN Null
      ELSE cs[CHOOSE i \in donors : \A j \in donors :
                length(i) > length(j) \/ (length(i) = length(j) /\ i <= j)]

\* domainByCore(): the cores of the recipient's domain, none without domains.
domainByCore(c) ==
  LET found == {i \in DOMAIN domains : c \in ToSet(domains[i])}
  IN  IF found = {} THEN <<>>
      ELSE domains[CHOOSE i \in found : \A j \in found : i <= j]

\* Mutant: no donor outside the recipient's domain.
DonorInDomainOnly(recipient) ==
  IF domains = <<>> THEN busiestReadyCore([c \in Cores |-> c], recipient)
                    ELSE busiestReadyCore(domainByCore(recipient), recipient)

\* chooseDonorCore(): a donor in the recipient's domain before any other.
chooseDonorCore(recipient) ==
  LET near == busiestReadyCore(domainByCore(recipient), recipient)
  IN  IF near # Null THEN near
      ELSE busiestReadyCore([c \in Cores |-> c], recipient)

\* The test of the while loop and its two breaks.
MayMigrate ==
  /\ IdleCores # {}
  /\ chooseDonorCore(firstIdleCore) # Null
  /\ coreLoad(chooseDonorCore(firstIdleCore)) > 1

\* Mutant: the migrated task is copied, not moved.
CopiedQueues(donor, recipient) ==
  [core_queue EXCEPT ![recipient] = Append(@, Head(core_queue[donor]))]

MigratedQueues(donor, recipient) ==
  [core_queue EXCEPT ![donor]     = Tail(@),
                      ![recipient] = Append(@, Head(core_queue[donor]))]

Migrate ==
  /\ pc = "rebalance"
  /\ MayMigrate
  /\ LET recipient == firstIdleCore
         donor     == chooseDonorCore(recipient)
     IN  /\ core_queue' = MigratedQueues(donor, recipient)
         /\ assigned_core' = [assigned_core EXCEPT ![Head(core_queue[donor])] = recipient]
  /\ UNCHANGED <<spec, policy, quantum, rt, tick, completion_order, report, pc,
                 waited, streak, domains, core_current, core_quantum>>

Rebalanced ==
  /\ pc = "rebalance"
  /\ ~ MayMigrate
  /\ pc' = "dispatch"
  /\ UNCHANGED <<spec, policy, quantum, rt, tick, completion_order, report, waited,
                 streak, domains, coresVars>>

-----------------------------------------------------------------------------
(* Dispatch and execution                                                  *)

\* selectNextCore() on a queue that is not empty.
selectNextCore(q) == IF UsesQueue THEN Head(q) ELSE Best(ToSet(q))

\* It takes the task out of the queue, from wherever it is.
Without(q, t) == RemoveAt(q, CHOOSE i \in DOMAIN q : q[i] = t)

dispatchMulticore ==
  LET filled  == {c \in Cores : core_current[c] = Null /\ core_queue[c] # <<>>}
      next(c) == selectNextCore(core_queue[c])
  IN  /\ pc = "dispatch"
      /\ pc' = "execute"
      /\ rt' = [t \in Tasks |-> IF \E c \in filled : next(c) = t
                                THEN Dispatched(rt[t]) ELSE rt[t]]
      /\ assigned_core' = [t \in Tasks |-> IF \E c \in filled : next(c) = t
                                           THEN CHOOSE c \in filled : next(c) = t
                                           ELSE assigned_core[t]]
      /\ core_current' = [c \in Cores |-> IF c \in filled THEN next(c) ELSE core_current[c]]
      /\ core_quantum' = [c \in Cores |-> IF c \in filled THEN 0
                                             ELSE core_quantum[c]]
      /\ core_queue' = [c \in Cores |-> IF c \in filled
                                         THEN Without(core_queue[c], next(c))
                                         ELSE core_queue[c]]
      /\ UNCHANGED <<spec, policy, quantum, tick, completion_order, report, waited,
                     streak, domains>>

\* A task that is core_current on two cores would be executed twice in the tick.
executeMulticore ==
  LET busy    == {c \in Cores : core_current[c] # Null}
      running == {core_current[c] : c \in busy}
      after   == [t \in Tasks |-> IF t \in running THEN Executed(t) ELSE rt[t]]
      freed   == {c \in busy : after[core_current[c]].state # "running"}
      finished == InOrder({c \in busy : after[core_current[c]].state = "complete"})
  IN  /\ pc = "execute"
      /\ pc' = IF \/ \E t \in running : BadExecution(t)
                  \/ Cardinality(running) < Cardinality(busy)
               THEN "error" ELSE "wake"
      /\ rt' = after
      /\ completion_order' =
           completion_order \o [i \in DOMAIN finished |-> core_current[finished[i]]]
      /\ core_current' = [c \in Cores |-> IF c \in freed THEN Null ELSE core_current[c]]
      /\ core_quantum' = [c \in Cores |-> IF c \in freed THEN 0
                                             ELSE IF c \in busy THEN core_quantum[c] + 1
                                             ELSE core_quantum[c]]
      /\ tick' = tick + 1
      /\ CountWaiting
      /\ UNCHANGED <<spec, policy, quantum, report, domains, core_queue, assigned_core>>

MultiNext ==
  \/ processBlockedMulticore
  \/ Arrive
  \/ ArrivalsDone
  \/ preemptMulticore
  \/ Migrate
  \/ Rebalanced
  \/ dispatchMulticore
  \/ executeMulticore
  \/ Finalize /\ UNCHANGED <<domains, coresVars>>

MultiSpec == MultiInit /\ [][MultiNext]_multiVars

-----------------------------------------------------------------------------
(* Properties                                                              *)

\* Every runnable task is in one place: a ready task in the queue of its
\* assigned core, once; a running task current on its assigned core; no other
\* task on any core, and no error of a tick is met.
OnePlace ==
  /\ pc # "error"
  /\ \A c \in Cores :
       /\ \A i \in DOMAIN core_queue[c] :
            /\ rt[core_queue[c][i]].state = "ready"
            /\ assigned_core[core_queue[c][i]] = c
       /\ IsInjective(core_queue[c])
       /\ core_current[c] # Null => /\ rt[core_current[c]].state = "running"
                               /\ assigned_core[core_current[c]] = c
  /\ \A t \in InState("ready") : t \in ToSet(core_queue[assigned_core[t]])
  /\ \A t \in InState("running") : core_current[assigned_core[t]] = t

\* The cores are used as well as rebalancing promises.  A core idles through a
\* tick while a task waits on a second core only when a third core has just
\* started the one task it had, on whose queue the search for a donor stopped
\* (the break at engine.zig:435).  So on two cores no core idles while a task waits.
IdleCoreExplained ==
  pc = "execute" =>
    \A c, d \in Cores :
      core_current[c] = Null /\ core_queue[d] # <<>> =>
        \E e \in Cores \ {c, d} : /\ core_current[e] # Null
                                  /\ core_quantum[e] = 0
                                  /\ core_queue[e] = <<>>

\* On its own core a task runs by the policy's order: no task of the queue is
\* better than the running one, and under Round Robin none waits for more than
\* one quantum of each other task, migrations included.
CorePolicyHonoured ==
  pc = "execute" =>
    \A c \in Cores : \A t \in ToSet(core_queue[c]) :
      /\ core_current[c] # Null
      /\ ~UsesQueue => betterCandidate(core_current[c], t)
      /\ policy = "round_robin" => streak[t] < (N - 1) * quantum
=============================================================================
