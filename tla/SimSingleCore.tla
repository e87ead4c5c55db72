---------------------------- MODULE SimSingleCore ----------------------------
(***************************************************************************)
(* simulateSingleCore() of sim/engine.zig: the loop that runs a scenario   *)
(* on one core.  A tick is five steps, in the order of the loop's body:    *)
(* wakeups, arrivals, the preemption test, the choice of the next task and *)
(* the execution of one tick.                                              *)
(*                                                                         *)
(* The CFS-inspired and deadline policies keep no ready queue: they scan   *)
(* the states of all tasks.  FCFS and Round Robin use the queue only.      *)
(***************************************************************************)
EXTENDS SimTask

VARIABLES ready_queue,
          current,                  \* the running task, or Null
          current_quantum,          \* ticks it has run since it was dispatched
          current_group_index,
          current_group_run_ticks,
          excluded                  \* excluded_group_index of this tick

coreVars == <<ready_queue, current, current_quantum, current_group_index,
              current_group_run_ticks, excluded>>

vars == <<simVars, coreVars>>

Init ==
  /\ SimInit
  /\ ready_queue = <<>>
  /\ current = Null
  /\ current_quantum = 0
  /\ current_group_index = Null
  /\ current_group_run_ticks = 0
  /\ excluded = Null

\* Mutant: only the first of the tasks that become ready together is queued.
EnqueueFirst(S) ==
  ready_queue' = IF UsesQueue /\ S # {} THEN Append(ready_queue, Head(InOrder(S)))
                                        ELSE ready_queue

\* A task that becomes ready is queued, by the policies that have a queue.
Enqueue(S) ==
  ready_queue' = IF UsesQueue THEN ready_queue \o InOrder(S) ELSE ready_queue

processBlockedSingleCore ==
  /\ pc = "wake"
  /\ Len(completion_order) < N
  /\ pc' = IF \E t \in Woken : BadWake(t) THEN "error" ELSE "arrive"
  /\ rt' = AfterWakeups
  /\ Enqueue(Woken)
  /\ excluded' = Null
  /\ UNCHANGED <<spec, policy, quantum, tick, completion_order, report, waited,
                 streak, current, current_quantum, current_group_index,
                 current_group_run_ticks>>

enqueueArrivalsSingleCore ==
  /\ pc = "arrive"
  /\ pc' = "preempt"
  /\ rt' = AfterArrivals
  /\ Enqueue(Arriving)
  /\ UNCHANGED <<spec, policy, quantum, tick, completion_order, report, waited,
                 streak, current, current_quantum, current_group_index,
                 current_group_run_ticks, excluded>>

-----------------------------------------------------------------------------
(* Preemption                                                              *)

Runnable == InState("ready") \cup InState("running")

\* Mutant: a turn of Round Robin that lasts one tick past the quantum.
PastTheQuantum ==
  /\ current # Null
  /\ CASE policy = "fcfs" -> FALSE
       [] policy = "round_robin" -> ready_queue # <<>> /\ current_quantum > quantum
       [] OTHER -> Best(Runnable) # current

\* shouldPreemptSingle(): FCFS never, Round Robin at the end of the quantum,
\* the others when another task is the better one.
shouldPreemptSingle ==
  /\ current # Null
  /\ CASE policy = "fcfs" -> FALSE
       [] policy = "round_robin" -> ready_queue # <<>> /\ current_quantum >= quantum
       [] OTHER -> Best(Runnable) # current

hasReadyTaskInOtherGroup(g) == \E t \in InState("ready") : spec[t].group # g

\* shouldPreemptForGroupQuota(): the quota binds only while another group has
\* a ready task; a quota of 0 is no quota.
shouldPreemptForGroupQuota ==
  /\ policy = "cfs_like"
  /\ current # Null
  /\ spec[current].group # Null
  /\ Groups[spec[current].group].quota # 0
  /\ current_group_run_ticks >= Groups[spec[current].group].quota
  /\ hasReadyTaskInOtherGroup(spec[current].group)

\* The core is left without a task, and its counters start again.
Vacate ==
  /\ current' = Null
  /\ current_quantum' = 0
  /\ current_group_index' = Null
  /\ current_group_run_ticks' = 0

Preempt ==
  /\ pc = "preempt"
  /\ shouldPreemptSingle \/ shouldPreemptForGroupQuota
  /\ pc' = "select"
  /\ rt' = [rt EXCEPT ![current].state = "ready"]
  /\ Enqueue({current})
  /\ excluded' = IF shouldPreemptForGroupQuota THEN spec[current].group ELSE Null
  /\ Vacate
  /\ UNCHANGED <<spec, policy, quantum, tick, completion_order, report, waited, streak>>

KeepRunning ==
  /\ pc = "preempt"
  /\ ~ (shouldPreemptSingle \/ shouldPreemptForGroupQuota)
  /\ pc' = "select"
  /\ UNCHANGED <<spec, policy, quantum, rt, tick, completion_order, report, waited,
                 streak, coreVars>>

-----------------------------------------------------------------------------
(* The next task                                                           *)

\* selectNextSingle() and selectNextSingleExcludingGroup().
Selected ==
  IF UsesQueue
  THEN IF ready_queue = <<>> THEN Null ELSE Head(ready_queue)
  ELSE Best({t \in Runnable : excluded = Null \/ spec[t].group # excluded})

\* keepsRunningSelection(): a choosing policy may pick a task that runs already.
keepsRunningSelection(t) == ~UsesQueue /\ rt[t].state = "running"

Dispatch ==
  /\ pc = "select"
  /\ current = Null
  /\ Selected # Null
  /\ pc' = "execute"
  /\ current' = Selected
  /\ ready_queue' = IF UsesQueue THEN Tail(ready_queue) ELSE ready_queue
  /\ IF keepsRunningSelection(Selected)
     THEN UNCHANGED <<rt, current_quantum, current_group_index, current_group_run_ticks>>
     ELSE /\ rt' = [rt EXCEPT ![Selected] = Dispatched(@)]
          /\ current_quantum' = 0
          /\ current_group_index' = spec[Selected].group
          /\ current_group_run_ticks' =
               IF current_group_index # spec[Selected].group THEN 0
                                                           ELSE current_group_run_ticks
  /\ UNCHANGED <<spec, policy, quantum, tick, completion_order, report, waited,
                 streak, excluded>>

NoDispatch ==
  /\ pc = "select"
  /\ current # Null \/ Selected = Null
  /\ pc' = "execute"
  /\ UNCHANGED <<spec, policy, quantum, rt, tick, completion_order, report, waited,
                 streak, coreVars>>

-----------------------------------------------------------------------------
(* One tick of execution                                                   *)

Execute ==
  /\ pc = "execute"
  /\ current # Null
  /\ pc' = IF BadExecution(current) THEN "error" ELSE "wake"
  /\ rt' = [rt EXCEPT ![current] = Executed(current)]
  /\ completion_order' =
       IF rt'[current].state = "complete" THEN Append(completion_order, current)
                                          ELSE completion_order
  /\ IF rt'[current].state = "running"
     THEN /\ current_quantum' = current_quantum + 1
          /\ current_group_run_ticks' = current_group_run_ticks + 1
          /\ UNCHANGED <<current, current_group_index>>
     ELSE Vacate
  /\ tick' = tick + 1
  /\ CountWaiting
  /\ UNCHANGED <<spec, policy, quantum, report, ready_queue, excluded>>

Idle ==
  /\ pc = "execute"
  /\ current = Null
  /\ pc' = "wake"
  /\ tick' = tick + 1
  /\ CountWaiting
  /\ UNCHANGED <<spec, policy, quantum, rt, completion_order, report, coreVars>>

Next ==
  \/ processBlockedSingleCore \/ enqueueArrivalsSingleCore
  \/ Preempt \/ KeepRunning
  \/ Dispatch \/ NoDispatch
  \/ Execute \/ Idle
  \/ Finalize /\ UNCHANGED coreVars

Spec == Init /\ [][Next]_vars /\ WF_vars(Next)

-----------------------------------------------------------------------------
(* Properties                                                              *)

\* The states of the tasks, the queue and the core tell one story: the running
\* task is the core's current one and no other, so keepsRunningSelection()
\* never meets a running task when a new one is chosen; the queue of FCFS and
\* Round Robin holds exactly the ready tasks, each once; and the ticks a task
\* has left are those of its phase and of the cpu phases after it, so neither
\* counter of lines 150 and 152 passes below zero.
OneStory ==
  /\ pc # "error"
  /\ InState("running") = (IF current = Null THEN {} ELSE {current})
  /\ UsesQueue => /\ ToSet(ready_queue) = InState("ready")
                  /\ Len(ready_queue) = Cardinality(InState("ready"))
  /\ \A t \in Tasks : rt[t].state \in {"ready", "running"} =>
       /\ rt[t].phase_remaining > 0
       /\ rt[t].remaining = rt[t].phase_remaining +
            TicksOf("cpu", spec[t].phases, rt[t].phase_index + 1, Len(spec[t].phases))

\* What runs is what the policy promises (extension.zig, builtin_policy_models).
\* The core idles only when no task is ready.  A queue policy dispatches the
\* task that has waited longest, and under Round Robin no task waits for more
\* than one quantum of each other task.  A choosing policy runs the task of
\* lowest virtual runtime or earliest deadline; after a quota preemption, the
\* best one outside the group that used up its quota.
PolicyHonoured ==
  pc = "execute" =>
    /\ current = Null => InState("ready") = {}
    /\ UsesQueue /\ current # Null /\ current_quantum = 0 =>
         \A t \in InState("ready") : streak[t] <= streak[current]
    /\ policy = "round_robin" =>
         \A t \in InState("ready") : streak[t] < (N - 1) * quantum
    /\ ~UsesQueue /\ current # Null =>
         \A t \in InState("ready") :
           \/ betterCandidate(current, t)
           \/ excluded # Null /\ spec[t].group = excluded /\ spec[current].group # excluded

=============================================================================
