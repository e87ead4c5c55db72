# A TLA+ model of xsprof (exasphere)

xsprof is a Linux scheduler and memory profiler. This directory holds TLA+
modules that model its stateful parts, TLC configurations that check them on
small instances, and TLAPS proofs of the properties that matter most for every
value of the constants. A scheduler simulator in Zig is kept beside the profiler
and is modelled too, and so is the machinery that produces and judges the
evidence for the project's sched_ext scheduler: the microVM lab, the VM harness
matrix and the manual proof job with their checks. Line numbers refer to the files under `src/`.

## 1. The system

The path of an event through the program:

    kernel ring buffers --> LiveCapture / BpfLoader --> record (journal, JSONL)
                                                          |
      SchedCollector <-- wakeups, switches                v
          |                                        timeline (Chrome trace)
          v
      Aggregates --> Advisor              daemon (stdio) --> transcript --> replay

| Component | State it keeps | Operations | Interacts with | What is hard |
|---|---|---|---|---|
| `RingBuffer` (`include/xsprof/ring_buffer.hpp`) | cells, `head_`, `tail_` | `push`, `pop`, `empty` | one producer thread, one consumer thread | memory order, stale loads, wraparound |
| `SchedCollector` (`src/sched/collector.cpp`) | pending wakeups, three counters, the window | `record_wakeup`, `record_switch`, `set_correlation_window_ns` | fed from per-CPU buffers | events out of order, unsigned cutoff |
| `LiveCapture` (`src/collectors/live_capture.cpp`) | descriptors, mappings, `slots`, `remaining_ms`, summary | `probe`, `run` (open, mmap, enable, poll, drain, clean up) | the kernel writes the mapped buffers meanwhile | overflow, early and interrupted `poll`, failures in the middle |
| `record` (`src/cli/main.cpp`) | the events, the sink, the exit code | probe, capture, write the journal | `LiveCapture`, `BpfLoader` | what a reader of the journal can know about loss |
| timeline export (`src/viz/chrome_trace.cpp`) | the batch, the gap flag, the previous timestamp | `stream_timeline_chunked`, `replay_from_journal`, windows, chunks | reads the journal | chunk and window boundaries, where a loss marker goes |
| daemon (`src/daemon/daemon.cpp`) | `seq` | `run_foreground_stdio`, `process_action_line`, `replay_transcript` | operator's actions, transcript file | kills, restarts, torn lines, `from_seq` |
| `BpfLoader` and `SafetyGate` (`src/bpf/loader.cpp`, `src/safety/safety.cpp`) | object, links, ring buffer | `load`, `capture`, `decide` | libbpf; the attached programs (`bpf/*.bpf.c`) | release on every exit, nothing without authority |
| memory collector, pipeline, advisor, proc readers, JSON, privacy filter | counters; no state of their own | parsing, aggregation, rules | feed each other | numeric edges, absent data |
| simulator (`simulator/src/sim`, `simulator/src/policies`, Zig) | `runtimes`, ready queues, the core's current task and counters | per tick: wakeups, arrivals, preemption, rebalancing, dispatch, execution | scenario files, traces, reports | several things in one tick, migration, derived waiting times |
| microVM lab (`qa/vm/run_microvm_live_lab.sh`, `microvm_guest_init.sh`, `microvm_report_*.py`) | the object, the scratch directory, the serial log, the bundle; one `manifest-provenance.json` for all runs | build, read the repository, boot, attach, mutate, roll back, scan, parse, write, check | git, qemu under `timeout(1)`, other runs on the machine | edits and rebuilds in between, guest faults, timeouts, kills, two runs at once |
| lab evidence checks and release gate (`qa/live_*.py`, `qa/lab_summary_*.py`, `qa/runtime_sample_*.py`, `qa/release_gate.sh`) | none; they read a bundle and the repository | accept or refuse | the lab's files | what is asked of a file the lab fills with constants |
| VM harness matrix (`qa/vm/vm_harness_matrix*`) | rows, events, the manifest, the exit code | per scenario: probe, shape, delegate, write the row | the backend, tools and the marker of the machine | values probed twice, late backends, residue |
| matrix, benchmark and protected-core checks (`qa/matrix_*.py`, `qa/benchmark_output_*.py`, `qa/protected_core_*.py`) | none | accept or refuse | the harness's files | agreement with the emitter |
| manual proof job (`.github/workflows/manual-vm-proof.yml`, `qa/runner_*_check.py`, `qa/evidence_*_check.py`) | the proofs and the evidence manifest | harness, gates, review, substrate, cleanliness, evidence, packaging | the approvals API, the runner's receipts | retries, a step of several failing |
| contract, schema and governance checks, drills | none | comparisons, straight-line scripts | documents and fixtures | nothing a model would reach |

`PROJECT.json` lists every component with its status, and under `hazards` the
places where a test would hardly reach the fault, with the properties aimed at
them.

What makes each component correct:

* **Ring**: no cell is written and read at once; it is a bounded FIFO queue
  however stale the other thread's index is; nobody is refused for ever.
* **Correlation**: each wakeup is counted exactly once; on an ordered feed the
  greedy match correlates as many wakeups as any matching could.
* **Capture**: each kernel record is in exactly one place; slot order is kept;
  descriptors and mappings are returned on every exit; it ends, in time.
* **Journal and timeline**: nothing is lost, repeated or moved at a boundary;
  damage is marked where it happened.
* **Daemon**: answers are numbered without gaps; replay accepts what one run
  wrote and nothing that was spliced together.
* **Simulator**: a valid scenario completes; every runnable task is in one place;
  what runs is what the policy promises; the report's times are the real ones.
* **BPF**: fail-closed, nothing left behind, each whole record once.
* **Lab**: a bundle the gate accepts is of a run that really happened, on the
  object and the tree that are there now (with one exception, an object replaced
  between hash and copy); an honest run is accepted; the edits
  the checks' self-tests make are refused on every bundle; every run ends.
* **Matrix and proof job**: the harness writes what its own contract accepts,
  with known exceptions; a packaged PASS is of four good guests on a clean and
  approved runner; the job ends, and fails only for known reasons.

## 2. Modules

Every module names the source file it translates; `PROJECT.json` maps each
definition to its lines.

**`SpscRing`** has the two threads of `RingBuffer` as two program counters. Each
side has its own view of the other's index (`tailSeen`, `headSeen`); a release
store becomes visible to the other side's acquire load later, by
`HeadBecomesVisible` / `TailBecomesVisible`. So a load may be stale, but never
older than one it has already seen, which is what the C++ memory model gives
here. `BoundedFifo` is the abstract queue: a push may be rejected at any time (a
stale full) and a pop may find nothing (a stale empty), but elements leave in
order and the capacity is respected. `ImplementsFifo` is the refinement, with
`Contents` as the mapping.

**`SchedCorrelation`** keeps the pending wakeups as a set of records with the
call number as identity, in place of the vector in call order. `log` is history
for the reference definition: `Matchable` is the largest number of wakeups any
one-to-one assignment to switches could correlate.

**`LiveCapture`** is one action per step of `run()`: the descriptor and mapping
of each slot, the `ioctl`, each `poll`, the reading of `data_head` (`DrainBegin`),
then each record of the buffer (`DrainRecord`; `snap` is the head that was read and
`parsed` how far the loop is) and the store of `data_tail` (`StoreTail`), which gives
the space back. The kernel writes between any two of them (`Emit`): a record that
does not fit is counted in `klost` and reported by a `PERF_RECORD_LOST` in front
of the next that does. A sample's decoded fields are left out; its slot and number
remain.

**`RecordCommand`** extends it with `cmd_record`, which probes, runs the capture,
chooses the sink and writes one row per event.

**`Timeline`** reads an arbitrary journal line by line. Every in-memory export is
an operator on the whole journal, so that the streaming one can be compared
with it when the journal ends: `InOrder` is the loop of `replay_from_journal`, the
selected lines in their order. The abstraction is that every event becomes one
trace event, which is what `export_events` does for each `EventKind`.

**`Daemon`** has the daemon, which can be killed with its last lines unwritten
or one of them torn, an editor who appends other rows, and the replay, row by
row. A row remembers which run wrote it, which the code cannot see. An edited row may
have `host_mutation` true, false, absent or no boolean; `ValidEvent` refuses the first
only, as `as_bool()` does.

**`BpfCapture`** is `load()` and `capture()`. An `AuditContext` is the set of its
grants. The attached programs fire between any two steps, without bound: the first
`MaxEvents` events are told apart and every later one has the same number (`Beyond`).
A record may be shorter than its struct, and `handle_event` passes over it. What is in
the map when the object is closed is `abandoned`.

**`SimTask`** has what the two loops of `engine.zig` share: the scenario that
`validate()` accepts, chosen in `SimInit`, the `RuntimeTask` of each task as a record,
what a wakeup, a dispatch and a tick do to it, the order of each policy and the
report. `waited` and `streak` are history. An error return of a tick is the
stage `error`, which the invariants show not to be reached.

**`SimSingleCore`** is `simulateSingleCore`, five steps to a tick: wakeups, arrivals,
preemption (policy or group quota), choice, execution. Given the scenario it
is deterministic; the many behaviours are the many scenarios.

**`SimMultiCore`** is `simulateMulticore`: a queue and a current task per core. An
arrival (`Arrive`, on the least loaded core of the least loaded domain) and a
migration (`Migrate`) are a step each, since each changes the loads that the next one
reads; the other functions of a tick are one step each. The group counters it writes
and never reads are left out, as is the trace of both loops.

**`LabEvidence`** is the lab's files and their checks as operators, no state:
`parse_serial` and the payloads of `microvm_report_*.py`, then what each check
accepts. The parser's dictionary by event is `ByEvent`, the last of the rows of an
event. A file is a record of the fields that some check compares; a missing
file or field is `Missing`. `Tampered` makes the edits that the self-tests of the
checks make by hand.

**`MicrovmLab`** is the runner script, one action per command that reads or
writes something shared, and the guest's `/init` in five stretches, each with the
outcomes it can have. The repository is a list of commits, HEAD, two kinds of files
(the BPF source and the rest) in the tree, and the built object; anyone may
edit, commit, reset or rebuild in between (`EditBpf`, `EditRest`, `Commit`, `Reset`,
`GateBuild`), and a content that was there before may come back. The build, the sha256
of the object and its copy into the guest are steps of their own (`Build`,
`HashObject`, `Launch`); `mixed` is history, the runs under which the object was
replaced by another between the last two. A killed runner leaves its qemu to
`timeout(1)`. `Accepts` is the verdict of the release gate now, in every state.

**`MatrixEvidence`** is what `vm_harness_matrix_emit.py` writes and what the matrix,
event, benchmark, telemetry and protected-core checks accept. A matrix run is a
record of its manifest, its row directories and its event stream; a row stands
for `matrix-run.json` and the artifacts beside it. It extends `LabEvidence`, since a
live-backend row holds a lab bundle and every row a sample file.

**`ProofEvidence`** adds the four proofs of the job, each as the workflow writes it and
as its check accepts it: review, substrate, cleanliness, evidence manifest; and
the comparison of two bundles.

**`ManualProof`** composes them: the scenario loop of `vm_harness_matrix.sh` with both
probes of a row, the delegation to the backend (whose outcomes are those
`MicrovmLab` reaches, one representative bundle each, and one for each thing the
guest's dumps of its scheduler's maps may lack, `PolicyFaults`), and the steps of the
job. A plan is the command line: the mode, the scenarios, forced missing tools, at a
desk or in CI.

How the five compose:

    MicrovmLab --- LabEvidence --- MatrixEvidence --- ProofEvidence --- ManualProof
    (runs, guests)    (bundle)        (rows)           (proofs)      (harness, job)

## 3. What TLC checks

| Run | Bounds | Shows |
|---|---|---|
| `ring` | capacity 2 (three cells), two values | `NoDataRace`, `ImplementsFifo`, `KeepsMoving` |
| `correlation` | two tasks, one CPU, times 0..3, windows 0 and 1, five calls | `Conservation`, `GreedyIsOptimal` |
| `record` | two slots, buffers of two records, four records, a whole slice and a shorter one | `RecordsAccounted`, `SlotOrder`, `SlotLifecycle`, `JournalFaithful`, `EndsInTime` |
| `timeline` | journals of up to five lines, timestamps 0, 1, 3, 7, gap 2, chunks of 1, 2 and 3 | `ChunksAreSlices`, `MarkersWhereTheyBelong`, `WindowsPartition` |
| `daemon` | transcripts of four lines, two runs, each value of `host_mutation` | `AnswersNumbered`, `OwnTranscriptReplays`, `SplicesRejected`, `AcceptedIsSound` |
| `bpf_capture` | two programs that fire without bound, a ring of two, four events told apart, whole and short records, a whole slice and a shorter one | `NothingUnauthorized`, `NothingLeftBehind`, `EachEventOnce`, `Returns` |
| `sim_single` | four tasks of six valid kinds, four policies, quantum 1 and 2, two groups | `OneStory`, `PolicyHonoured`, `ReportIsTrue`, `Completes` |
| `sim_multi` | five tasks of four kinds on three cores, no domains and two | `OnePlace`, `IdleCoreExplained`, `CorePolicyHonoured` |
| `lab` | two runs, one of the live backend and one of a bounded workload, two contents of each kind of file, rebuilds at any time, two acts of the developer (edit, undo, commit, reset) or one fault or kill, every self-test edit | `AcceptedWasReal`, `AcceptedIsCurrent`, `HonestAccepted`, `TamperedRejected`, `RunsEnd` |
| `proof` | the CI job and nine command lines at a desk, two disturbances, three requests for the approval | `OwnManifestExplained`, `JobFailureExplained`, `ProofPassWasReal`, `TamperedProofRejected`, `ComparableExplained`, `JobEnds` |
| `record_loss`, `daemon_replay` | as above | a violation each, see section 5 |

What the less obvious ones show. `SlotLifecycle`: every descriptor and mapping is
returned on every exit, and no slot is enabled before the last is mapped.
`EndsInTime`: `run()` never asks `poll` for more than the duration in all, and the
command ends. `AcceptedWasReal` rests on the rows the parser refuses, since the
summary's PASS fields are constants. It and `AcceptedIsCurrent` name the one way in
which a guest that ran another object is accepted: the object was replaced between the
run's sha256 and its copy, and the source came back (`mixed`). `Returns` likewise names
the one way not to return, a single `ring_buffer__poll` that goes on consuming for
ever. `OwnManifestExplained` and `JobFailureExplained` are
equivalences or complete lists of causes: they say not only that the evidence
is good when all is well, but exactly when the harness makes a manifest its own check
refuses, and why the job can end without a bundle.

Why the bounds are enough. A ring of three cells wraps within a few operations,
and full, empty and one-element states all occur. Five calls contain two wakeups of
a task, a switch that could answer either, and the pruning of one that is too
old. Four records overflow a buffer of two, leave a loss to report and
still let the other slot have a record; a third slot would repeat the second.
Five lines give a full chunk, a partly filled one and a bad line before, between
and after them. Four rows hold a torn line between two runs. Four tasks are a
running one, two of its group or of another, and a late or sleeping one; the
quota preemption that runs a task against the order of virtual runtime occurs.
Three cores are the fewest on which a core can idle next to waiting work, and
that case occurs as well. Two lab runs are the fewest that share a machine and a
provenance file; two acts of the developer are an edit and its undoing, with the
builds of the other run and of the gate at any point between them, so that every mix of
two states of the repository occurs. A fault or a kill costs as much as two such acts
(`FaultCost`): the causes are told apart, and the faults of one run (`Faulty`) meet every
state of the other. Two disturbances in
the proof job let a fault of a guest meet one of the machine or of the runner; six of the
map faults, which only the suite check reads, take both (`GuestCost`);
the code asks for the approval six times, which three attempts do not tell apart.

Four events told apart outlive a ring of two, and the events behind them, all with one
number, keep it full for ever where a behaviour needs that.

All bounds on counters are constants: `MaxCalls`, `MaxRecords`, `MaxLines`,
`MaxRows`, `MaxRuns`, `MaxEvents`, `MaxDisturbances`, `MaxAttempts`; the simulator needs none, as its scenarios end.
Deadlock is checked, but for `correlation`, where the feed simply ends after
`MaxCalls` calls, for the simulator, where `simulate()` returns, and for `lab` and
`proof`, whose scripts end.

**Fairness.** `SpscRing`: both threads keep running once they are in a call, the
consumer keeps calling, and a store becomes visible eventually (C++ requires
it of atomics within a reasonable time). `RecordCommand` and `BpfCapture`: the
command's own thread is scheduled. Nothing is assumed of the kernel: it may
write or not, `poll` may be interrupted every time, and system calls may fail or
succeed. Nor is it assumed that the programs pause: libbpf consumes
until the buffer is empty, and where they never let it be, the second case of `Returns`
holds.
`SimSingleCore`: the loop runs on. `MicrovmLab`: some script that can go on to its next
command does, or `timeout(1)` fires, which is weaker than fairness to each run and enough,
since a run has finitely many steps; nothing is assumed of the guest. `ManualProof`: the shell goes on, and the backend ends by itself or by
`timeout(1)`; nothing is assumed of the approvals API.
The other modules state no liveness.

## 4. What is proved

TLAPS checks these for every value of the constants that satisfies the named
assumptions (`RingAssumption`, `CorrelationAssumption`, `CaptureAssumption`,
`TimelineAssumption`, `DaemonAssumption`, `BpfAssumption`,
`LabAssumption`, `SimAssumption`, `CoresAssumption`: types, sizes greater than zero and
the bounds that `validate()` puts on weights and quotas; `EvidenceAssumption` and
`FilesAssumption`: `None` and `Missing`, which stand for what is not there, are
different from what may be there; TLC evaluates them in every run). Unless noted, each invariant below was first checked by TLC on the instance of
the component's run.

* **`SpscRingProofs`**: `RingTypeOK`, `RingNoDataRace`, `RingImplementsFifo`. The
  inductive invariant orders the four indices along the circle, `tailSeen`,
  `tail`, `headSeen`, `head` (`CyclicOrder`), so that a stale view is always on the
  safe side; `RoomHeld` and `SampleHeld` keep what the full and empty tests found
  true until the cell is written or read, and `Carried` says that the consumer's
  copy is the sample at `tail`.
* **`SchedCorrelationProofs`**: `CorrelationTypeOK`, `WakeupsConserved`,
  `CorrelationIsOptimal`. The invariant adds to the sum that `pending` is finite and
  that call numbers are unique, so that marking one record changes the cardinality by
  one. Optimality is carried by a certificate (`Accounts`): beside the matching built so
  far, a vertex cover of the same size (`Covered`), which bounds every other matching
  (`CoverBounds`). A switch that finds a record joins the cover; one that finds none
  trades switches of its task and CPU for the wakeups they were spent on, which leaves
  no pair uncovered because the search is first in, first matched (`Fifo`). `Listed`
  ties the vector to the log: what the prune takes is out of reach of every later
  switch. `Accounts` asks for a matching instead of naming one, so TLC cannot evaluate
  it; TLC checks `GreedyIsOptimal` itself.
* **`RecordCommandProofs`**: `CaptureSlotOrder`, `CaptureRecordsAccounted`,
  `CaptureSlotLifecycle`, `RecordJournalFaithful`, `RecordInTime`, for any number of slots, records and
  buffer sizes. `Sequenced` says per slot that what was captured, then what lies in
  the buffer, increases, and that it is older than the next record of the kernel;
  `Below` keeps `parsed <= snap <= Len(ring)`, so that the store of `data_tail` gives
  back what was read and no more although the kernel goes on writing. `Held` says
  at each point of `run()` which descriptors and mappings exist, `Budget` that the
  time waited and the time left stay within the duration (the safety half of
  `EndsInTime`), `Answer` and `Written` what the command has done with the result.
  The account of the records is inductive together with `Below`: a sum of counts is the
  size of a set of numbered units (`Total`), so that a step at one slot changes each sum
  by what it changes there (`TotalAt`), and storing `data_tail` only renumbers the units.
* **`TimelineProofs`**: `TimelineChunksAreSlices`, `TimelineMarkersWhereTheyBelong`,
  `TimelineWindowsPartition`, for every journal, chunk size and cut. The invariant
  compares the streaming export with the in-memory one on the lines read so far:
  the chunks and the batch are the slices of that prefix, and a chunk is marked if
  and only if a line that spoils it was read while it was filled. Selecting a
  prefix of the journal and then one more line is a lemma about `InOrder`.
* **`DaemonProofs`**: `DaemonAnswersNumbered`, `ReplayAcceptedIsSound`,
  `ReplaySplicesRejected`, `ReplayOwnTranscript`, for transcripts of any length and
  any history of kills and edits. `TornLast` (only the last line of a run can be
  torn), `Numbered` (a row is numbered by its distance to the last, while the daemon
  is up) and `Boundaries` (a new run starts at one) describe the transcript,
  `Replayed` and `Copied` the part of it that the replay has read.
* **`BpfCaptureProofs`**: `LoaderTypeOK`, `LoaderFailClosed`, `LoaderReleases`,
  `LoaderEachEventOnce`. `HeldAt` says what is held at each point of the two
  functions, and that no point behind the gate is reached without authority;
  `Ordered` says that the numbers handed out and then those in the map increase, and
  `Accounted` that short records are never handed out and that each event told apart is
  handed out, in the ring, short, dropped or abandoned.
* **`MicrovmLabProofs`**: `LabInvariant`, `LabAcceptedWasReal`,
  `LabAcceptedIsCurrent`, `LabFiles`, `LabHonestAccepted`,
  `LabTamperedRejected`, for any number of runs and of edits, resets,
  faults, kills and timeouts, and any set of contents that may come and go. `Witnessed` says that every row of a serial log is true
  of the guest that wrote it and stays so: a row about the knobs, the kernel or the
  workload is written in a stretch after which the guest no longer changes them. So
  what `parse_serial` takes happened (`ReportHappened`), and `Filed` carries that over
  to the files, which outlive the log. `Carried`, within `Progress`, says that the object in
  the guest is the one that was hashed unless the run is in `mixed`: between hash and
  copy, either nothing replaced the file or the replacement put the run there. The hash
  is compared with the object on disk, so for the other runs all three are the same.
  The order of contents plays no part.
  The other two rest on a second invariant (`EInv`) about each field of the files.
  `Nominal` follows a guest that has met no fault: its samples show a live workload, no
  rejected task and no scheduler before the attach and after the rollback. `Genuine` is
  the shape of every report that `parse_serial` let through, `Spotless` what a nominal
  guest adds; with `Scanned` (no other qemu), `Signed` (the provenance names what the run
  read) and the adapter's own checks this is all that the consumers ask for. After an
  edit, `Spoilt` says that no state of the repository makes the bundle acceptable; the
  37 edits are the cases of `EditsSpoil`. One of them shows why the checks look at each
  counter as well as at its growth: where the counters were unavailable, the edit
  `counter-growth` grows nothing, and the bundle is refused only because the first
  sample then has a number without its events.

* **`SimProofs`**: `SingleOneStory`, `SinglePolicy`, `SingleReport` of the single-core
  loop and `MultiOnePlace`, `MultiIdle`, `MultiPolicy`, `MultiReport` of the multi-core
  one, for every scenario that validates: any number of tasks and cores, any phases,
  quantum, groups and domains. Both invariants (`SingleInv`, `MultiInv`) rest on an
  account of each task. `PhaseOK`: what it has left is the rest of its phase and the
  cpu phases after it. `TimeOK`: its arrival and the ticks it ran, waited and slept add
  up to the present, and what is left of a sleep is what is missing from its wait phases;
  `Seen` says whether the wakeups of the tick are counted yet. When the task completes,
  the ledger is the report, so the unsigned subtraction of `finalizeResult` cannot wrap.
  The ticks of the phases are the size of a set of pairs (`TicksIn`), which lets
  lemmas about cardinalities replace an induction over the phases.
  The Round Robin bound is not inductive as it stands: `Waits` bounds the wait of the
  i-th task of a queue by the turns still before it, counting the running task's
  quantum. `ChoiceOK` and `OrderOK` carry the result of the preemption test to
  selection, and `RebalancedOK` what the loop over idle cores found when it stopped.
  `PlacesOK` puts each task where its state and its `assigned_core` say, which is what
  makes executing all cores in one step the same as one after the other.

Some theorems have no run of their own (the type theorems, `RecordInTime`,
`LabInvariant`, `LabFiles`, `SingleInvariant`, `MultiInvariant`, and `MultiReport`, whose
property the single-core run checks): TLC meets them through the other properties.

Only model-checked:

* liveness (`KeepsMoving`, `EndsInTime` apart from its safety half, `Returns`,
  `Completes`, `RunsEnd`, `JobEnds`), which is outside the prover's reach;
* the properties of `ManualProof`, whose plans and disturbances are a finite list that
  TLC covers.

## 5. Where code and documents disagree

* **`record_loss`**: the capture counts lost samples; `record` neither writes a
  marker nor reports the number, while `ARCHITECTURE.md` requires a sample-loss
  `Marker`. The timeline of such a journal shows no unsafe mark.
* **`daemon_replay`**: a row without a number resets `prev_seq`, so replay accepts
  a transcript whose numbers go back, while the README says that it validates a
  monotonic sequence. With numbers in every row it does (`AcceptedIsSound`), and
  the daemon itself always writes one.

Three more are in `PROJECT.json` with the passing run whose property states what the
code does instead:

* `daemon.hpp:108` says that replay validates each row "with host_mutation=false".
  `event_from_json` refuses `true` only (`daemon.cpp:202`); a row without the flag, or
  with a value that is no boolean (`json.hpp:103`), is accepted (`AcceptedIsSound`).
* `bpf_loader.hpp:40-41` says that `capture` collects "for duration_ms". The time left is
  looked at between two calls of `ring_buffer__poll` only (`loader.cpp:210`), and one call
  consumes for as long as the programs keep the ring filled (`Returns`).
* `governance-gate.md:53` requires a bundle validated "against the current git SHA and
  BPF object". The hash is taken at `run_microvm_live_lab.sh:122` and the file is copied
  into the guest at `microvm_rootfs.sh:48`: an edit, a rebuild by another run or by the
  gate in between, and the edit undone before the gate's rebuild, and the gate accepts the
  bundle of a guest that ran another object (`AcceptedWasReal`, `AcceptedIsCurrent`).

Found while modelling, without a run of its own; where a property names the case
it is given:

* `run()` subtracts a whole slice from `remaining_ms` when `poll` returns early
  (`live_capture.cpp:323`), so a busy capture ends before `cfg.duration_ms`. It
  never exceeds it (`EndsInTime`).
* The workflow says that non-PASS bundles "remain packageable with explicit
  reasons" (`manual-vm-proof.yml:160`). Not so when residue turns a row with a missing
  tool into FAIL, when the samples of a refused workload run are copied into its row,
  when a tool goes missing between the two probes of a row, when HEAD moves under a
  passing live backend, or when git fails and the audit ids end in "unknown": the
  harness's own manifest is refused and there is no bundle. The same holds at a desk
  for fixture and VM rows in one manifest and for a scenario named twice
  (`OwnManifestExplained`).
* The cleanliness step takes an ephemeral runner's registration receipt together with a
  removal receipt, or without the claim of no reuse; its validator refuses both
  (`JobFailureExplained`).
* The suite check asks more of the guest's map dumps than the checks of the samples, the
  row and the backend, which take a dump that is not available and counters that are 0
  (`protected_core_suite_check.py:127-151`): a job of four PASS rows fails there when the
  cgroup row has no policy map, no DSQ evidence, no cgroup init, no weight value, weight
  generation or weight callback, or a move without a generation (`JobFailureExplained`).
* Only the live-backend row is held to the full lab bundle check and to the row's
  commit; a workload row passes with a scheduler that the kernel threw out, and its
  commit is never compared (`ProofPassWasReal` says so).
* The comparison of two bundles looks at no outcome (`ComparableExplained`); the
  evidence manifest check does not compare its outcome with those of the substrate
  and cleanliness proofs, which agree only because the job writes them together.
* The harness exits with 0 although residue made a row FAIL or a fixture row is an
  INCIDENT. Fixture scenarios on a marked machine claim
  `vm-live` with synthetic samples: the matrix check takes them, the telemetry check
  does not.
* A sample whose count of `set_weight` calls and whose flag for them disagree is refused
  (`runtime_sample_policy_abi.py:186`), and the benchmark records of a row are canned
  text, whatever the guest ran.

## 6. Not modelled

Parsing of `/proc`, `/sys` and schedstat lines, the JSON parser, redaction and
path confinement (string conversions); the layout of trace events; the advisor
and the memory collector (planned); the JSON-RPC helpers, which nothing calls;
the simulator's parsers, reports, analysis and terminal UI; libbpf, the kernel,
qemu and the C++ runtime, which appear only as external actions.

Of the lab and the job: the discovery of qemu, nix and the kernel and the root file
system; fixture mode of the lab; the static gates before the VM work and the assertion
that provenance files exist (`manual-vm-proof.yml` 77-91, 182-234); the release gate's
lock directory, file list and version checks; the order of alerts in runtime samples;
the run-all summary; the arithmetic of the benchmark parsers; the spelling rules of the
privacy and field checks (one flag of a file each); the rollback,
incident and stress drills, which are straight-line scripts; and the checks that only
compare documents, schemas, source text or transcripts with fixed lists
(governance, schema, OpenRPC, frontend, BPF ABI, verifier log, attestation, golden
transcripts). They keep no state and have no order to get wrong.

## 7. Plan

In order:

1. *(done)* Ring, correlation, capture, record, timeline, daemon, BPF loader.
2. *(done)* The simulator's single-core and multi-core engines. Left: an abstract
   specification of a scheduler that both loops implement.
3. *(done)* The microVM lab, the VM harness matrix and the manual proof job, with
   the checks that judge their evidence.
4. Journal composition: the `--bpf` path of `record`, and timestamps in the
   journal, so that rows out of time order meet the timeline's gap test.
5. An algorithms module: the advisor's rules over aggregates that were or were
   not collected, window parsing, path confinement, the hugepage counters of the
   memory collector.
6. Proofs. *(done)* Ring, correlation, loader, `RecordCommand`, `Timeline`, `Daemon`,
   `MicrovmLab` and both engines of the simulator. Left: `ManualProof`.
