------------------------------- MODULE SimTask -------------------------------
(***************************************************************************)
(* What the two loops of the scheduler simulator share: the scenario a run *)
(* is given (sim/types.zig), the RuntimeTask of each of its tasks and what *)
(* a wakeup, a dispatch and a tick of execution do to it (sim/engine.zig), *)
(* the order each policy puts on tasks (policies/), and the report of      *)
(* finalizeResult().                                                       *)
(*                                                                         *)
(* Task t is the t-th task of the scenario, so t is its input_order.  A    *)
(* null of the code is Null, a group is its position in Groups or Null,    *)
(* and the null `phases' of a task without waits is the empty sequence.    *)
(***************************************************************************)
EXTENDS Integers, Sequences, FiniteSets, SequencesExt

CONSTANTS N,            \* the number of tasks of a scenario
          TaskSpecs,    \* the task specifications a scenario is made of
          Groups,       \* the declared groups: a sequence of [weight, quota]
          Quanta,       \* the values of round_robin_quantum
          Null

default_weight == 1024

max_task_weight == 4096

\* The fields of a TaskSpec, what its types say of them, and the bounds of
\* ScenarioOwned.validate() and GroupSpec.validate().
TaskSpec == [arrival : Nat, burst : Nat, weight : Nat, group : Nat \cup {Null},
             deadline : Nat \cup {Null},
             phases : Seq([kind : {"cpu", "wait"}, ticks : Nat])]

ASSUME SimAssumption ==
  /\ TaskSpecs \subseteq TaskSpec
  /\ Null \notin Nat
  /\ N \in Nat \ {0}
  /\ Quanta \subseteq Nat \ {0}
  /\ \A g \in DOMAIN Groups : /\ Groups[g].weight \in 1..max_task_weight
                              /\ Groups[g].quota \in 0..64

VARIABLES spec,               \* the scenario's tasks
          policy,             \* the PolicyKind simulate() was called with
          quantum,            \* round_robin_quantum
          rt,                 \* runtimes[]
          tick,
          completion_order,
          report,             \* the TaskMetrics of the result, Null before
          pc,                 \* the stage of the tick the loop is at
          waited,             \* history: ticks spent ready and not running
          streak              \* history: those since the task last became ready

simVars == <<spec, policy, quantum, rt, tick, completion_order, report, pc,
             waited, streak>>

Tasks == 1..N

Policies == {"fcfs", "round_robin", "cfs_like", "deadline"}

vruntime_scale == 4096

-----------------------------------------------------------------------------
(* The scenario                                                            *)

\* buildParsedTaskSpec(): a task given by its burst and one sleep becomes
\* three phases.
buildParsedTaskSpec(s, sleep_after, sleep_duration) ==
  [s EXCEPT !.phases = << [kind |-> "cpu",  ticks |-> sleep_after],
                          [kind |-> "wait", ticks |-> sleep_duration],
                          [kind |-> "cpu",  ticks |-> s.burst - sleep_after] >>]

\* The ticks of the phases first..last that are of this kind, each by its phase
\* and its place in it.
TicksIn(kind, phases, first, last) ==
  UNION { {i} \X (1..phases[i].ticks) : i \in {j \in first..last : phases[j].kind = kind} }

TicksOf(kind, phases, first, last) == Cardinality(TicksIn(kind, phases, first, last))

ValidPhases(s) ==
  /\ Len(s.phases) % 2 = 1
  /\ \A i \in DOMAIN s.phases :
       /\ s.phases[i].kind = IF i % 2 = 1 THEN "cpu" ELSE "wait"
       /\ s.phases[i].ticks > 0
  /\ TicksOf("cpu", s.phases, 1, Len(s.phases)) = s.burst

\* TaskSpec.validate(), and the group reference of ScenarioOwned.validate().  That
\* a sleep begins within the burst and lasts is asked of the three phases it makes.
ValidTask(s) ==
  /\ s.burst > 0
  /\ s.weight \in 1..max_task_weight
  /\ s.deadline # Null => s.deadline >= s.arrival + s.burst
  /\ s.phases # <<>> => ValidPhases(s)
  /\ s.group # Null => s.group \in DOMAIN Groups

GroupWeight(s) == IF s.group = Null THEN default_weight ELSE Groups[s.group].weight

\* combineWeight(): the product, scaled and kept within 1..max_task_weight.
combineWeight(task_weight, group_weight) ==
  LET combined == (task_weight * group_weight) \div default_weight
  IN  CASE combined < 1 -> 1
        [] combined > max_task_weight -> max_task_weight
        [] OTHER -> combined

vruntimeDelta(weight) == (vruntime_scale + weight - 1) \div weight

\* initRuntimes().
initRuntime(s) ==
  [state           |-> "pending",
   remaining       |-> s.burst,
   executed        |-> 0,
   blocked_time    |-> 0,
   first_dispatch  |-> Null,
   completion      |-> Null,
   wake_tick       |-> Null,
   last_execution  |-> Null,
   vruntime        |-> 0,
   phase_index     |-> 1,
   phase_remaining |-> IF s.phases = <<>> THEN s.burst ELSE s.phases[1].ticks]

SimInit ==
  /\ spec \in {s \in [Tasks -> TaskSpecs] : \A t \in Tasks : ValidTask(s[t])}
  /\ policy \in Policies
  /\ quantum \in Quanta
  /\ rt = [t \in Tasks |-> initRuntime(spec[t])]
  /\ tick = 0
  /\ completion_order = <<>>
  /\ report = Null
  /\ pc = "wake"
  /\ waited = [t \in Tasks |-> 0]
  /\ streak = [t \in Tasks |-> 0]

-----------------------------------------------------------------------------
(* One task through one tick                                               *)

\* The tasks in state st, in the order in which the loops meet them.
InState(st) == {t \in Tasks : rt[t].state = st}

InOrder(S) == [i \in 1..Cardinality(S) |->
                 CHOOSE t \in S : Cardinality({u \in S : u < t}) = i - 1]

Woken == {t \in InState("blocked") : rt[t].wake_tick = tick}

Arriving == {t \in InState("pending") : spec[t].arrival = tick}

\* advancePhaseAfterWake() fails when the next phase is not there or not cpu.
BadWake(t) ==
  /\ spec[t].phases # <<>>
  /\ \/ rt[t].phase_index + 1 > Len(spec[t].phases)
     \/ spec[t].phases[rt[t].phase_index + 1].kind # "cpu"

\* Mutant: a wakeup that stays in the wait phase it wakes from.
WakesInPlace(r, s) ==
  IF s.phases = <<>>
  THEN [r EXCEPT !.phase_remaining = r.remaining]
  ELSE [r EXCEPT !.phase_remaining = s.phases[r.phase_index].ticks]

advancePhaseAfterWake(r, s) ==
  IF s.phases = <<>>
  THEN [r EXCEPT !.phase_remaining = r.remaining]
  ELSE [r EXCEPT !.phase_index     = @ + 1,
                 !.phase_remaining = s.phases[r.phase_index + 1].ticks]

\* Mutant: the tick of the wakeup counted as blocked too.
CountsTheWakeup ==
  [t \in Tasks |->
     IF t \in Woken
     THEN [advancePhaseAfterWake(rt[t], spec[t]) EXCEPT !.state        = "ready",
                                                        !.wake_tick    = Null,
                                                        !.blocked_time = @ + 1]
     ELSE IF rt[t].state = "blocked"
          THEN [rt[t] EXCEPT !.blocked_time = @ + 1]
          ELSE rt[t]]

\* The loop over the blocked tasks: a due one is made ready, the others spend
\* one more tick blocked.
AfterWakeups ==
  [t \in Tasks |->
     IF t \in Woken
     THEN [advancePhaseAfterWake(rt[t], spec[t]) EXCEPT !.state     = "ready",
                                                        !.wake_tick = Null]
     ELSE IF rt[t].state = "blocked"
          THEN [rt[t] EXCEPT !.blocked_time = @ + 1]
          ELSE rt[t]]

AfterArrivals ==
  [t \in Tasks |-> IF t \in Arriving THEN [rt[t] EXCEPT !.state = "ready"] ELSE rt[t]]

Dispatched(r) ==
  [r EXCEPT !.state          = "running",
            !.first_dispatch = IF @ = Null THEN tick ELSE @]

\* onTaskTick(): only the CFS-inspired policy accounts virtual runtime.
onTaskTick(r, s) ==
  IF policy = "cfs_like"
  THEN [r EXCEPT !.vruntime = @ + vruntimeDelta(combineWeight(s.weight, GroupWeight(s)))]
  ELSE r

Ticked(r, s) ==
  onTaskTick([r EXCEPT !.remaining       = @ - 1,
                       !.executed        = @ + 1,
                       !.phase_remaining = @ - 1,
                       !.last_execution  = tick], s)

shouldBlockAfterExecution(r, s) ==
  /\ s.phases # <<>>
  /\ r.phase_remaining = 0
  /\ r.phase_index + 1 <= Len(s.phases)

\* Mutant: the wait counted from the tick that has just been executed.
WakesOneEarly(r, p) ==
  [r EXCEPT !.state           = "blocked",
            !.phase_index     = @ + 1,
            !.phase_remaining = p.ticks,
            !.wake_tick       = tick + p.ticks]

\* The wait phase p that follows ends the task's turn until wake_tick.
Blocked(r, p) ==
  [r EXCEPT !.state           = "blocked",
            !.phase_index     = @ + 1,
            !.phase_remaining = p.ticks,
            !.wake_tick       = tick + 1 + p.ticks]

Completed(r) == [r EXCEPT !.state = "complete", !.completion = tick + 1]

\* Task t executes for one tick, and completes, blocks or goes on.
Executed(t) ==
  LET r == Ticked(rt[t], spec[t])
  IN  CASE r.remaining = 0 -> Completed(r)
        [] r.remaining # 0 /\ shouldBlockAfterExecution(r, spec[t]) ->
             Blocked(r, spec[t].phases[r.phase_index + 1])
        [] OTHER -> r

\* The errors of a tick of execution: the task has had its tick already, or
\* its next phase is not a wait.
BadExecution(t) ==
  \/ rt[t].last_execution = tick
  \/ LET r == Ticked(rt[t], spec[t])
     IN  /\ r.remaining # 0
         /\ shouldBlockAfterExecution(r, spec[t])
         /\ spec[t].phases[r.phase_index + 1].kind # "wait"

\* History: the ready tasks that a tick of execution leaves waiting.
CountWaiting ==
  /\ waited' = [t \in Tasks |-> IF rt[t].state = "ready" THEN waited[t] + 1 ELSE waited[t]]
  /\ streak' = [t \in Tasks |-> IF rt[t].state = "ready" THEN streak[t] + 1 ELSE 0]

-----------------------------------------------------------------------------
(* The policies                                                            *)

UsesQueue == policy \in {"fcfs", "round_robin"}

\* deadline.betterCandidate(): no deadline is later than any deadline.
EarlierDeadline(a, b) == a # Null /\ (b = Null \/ a < b)

\* betterCandidate() of the two choosing policies; ties go to input_order.
betterCandidate(t, u) ==
  IF policy = "cfs_like"
  THEN \/ rt[t].vruntime < rt[u].vruntime
       \/ rt[t].vruntime = rt[u].vruntime /\ t < u
  ELSE \/ EarlierDeadline(spec[t].deadline, spec[u].deadline)
       \/ spec[t].deadline = spec[u].deadline /\ t < u

\* The task a scan over S keeps, Null when S is empty.
Best(S) ==
  IF S = {} THEN Null
  ELSE CHOOSE t \in S : \A u \in S \ {t} : betterCandidate(t, u)

-----------------------------------------------------------------------------
(* The result                                                              *)

\* finalizeResult(): the metrics of a completed task.
TaskMetrics(t) ==
  LET turnaround == rt[t].completion - spec[t].arrival
  IN  [turnaround |-> turnaround,
       waiting    |-> turnaround - spec[t].burst - rt[t].blocked_time,
       response   |-> rt[t].first_dispatch - spec[t].arrival]

\* The loop ends once every task has completed, and the report is made.
Finalize ==
  /\ pc = "wake"
  /\ Len(completion_order) >= N
  /\ report' = [t \in Tasks |-> TaskMetrics(t)]
  /\ pc' = "done"
  /\ UNCHANGED <<spec, policy, quantum, rt, tick, completion_order, waited, streak>>

-----------------------------------------------------------------------------
(* Properties of either loop                                               *)

\* The report of finalizeResult() is true: the waiting time it derives by
\* subtraction (engine.zig:288, unsigned) is the number of ticks the task was
\* ready and did not run, the rest of its turnaround is its burst and its wait
\* phases, its first dispatch came after its waiting began, and the completion
\* order lists every task once, by completion time.
ReportIsTrue ==
  pc = "done" =>
    /\ \A t \in Tasks :
         /\ report[t].waiting = waited[t]
         /\ report[t].turnaround =
              spec[t].burst + waited[t] + TicksOf("wait", spec[t].phases, 1, Len(spec[t].phases))
         /\ report[t].response \in 0..waited[t]
         /\ rt[t].executed = spec[t].burst
    /\ Len(completion_order) = N
    /\ ToSet(completion_order) = Tasks
    /\ \A i, j \in Tasks : i < j =>
         rt[completion_order[i]].completion <= rt[completion_order[j]].completion

\* simulate() returns a report for every scenario that validates: every task
\* that arrives, sleeps or is preempted runs again until it completes, and no
\* error of a tick (TaskExecutedTwiceInSameTick, InvalidTaskPhaseTransition) is
\* met on the way.
Completes == <>(pc = "done")
=============================================================================
