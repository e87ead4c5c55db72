------------------------------ MODULE LabEvidence ------------------------------
(***************************************************************************)
(* The evidence of one microVM lab run, as data: what                      *)
(* qa/vm/microvm_report_*.py writes for a serial log, and what the checks  *)
(* in qa/ accept.  Pure operators, shared by the run that writes a bundle  *)
(* (MicrovmLab) and by the gates that read it.                             *)
(*                                                                         *)
(* A file is a record of the fields some check compares; a field that may  *)
(* be absent is Missing.  Wording, timestamps and paths that are fixed by  *)
(* the output directory are left out.                                      *)
(***************************************************************************)
EXTENDS Integers, Sequences, FiniteSets, SequencesExt, FiniteSetsExt

CONSTANTS
    None,     \* no such value: an empty ops file, no snapshot, no object yet
    Missing   \* a field, or a file, that is not there

Minimal == "zigsched_minimal"
Unavailable == -1

\* What identifies a dirty worktree: HEAD and the content of the files.
Snapshots == [head : Nat, bpf : Nat, rest : Nat]

\* What is not there is told apart from everything that may be there.
ASSUME EvidenceAssumption ==
    /\ None \notin Snapshots /\ None \notin {"", Minimal}
    /\ Missing \notin Snapshots /\ Missing \notin Int /\ Missing \notin BOOLEAN

Scenarios == {"live-backend", "bounded"}
Families == {"cgroup.weight", "cpu.max", "uclamp", "topology.offline_cpu"}

-----------------------------------------------------------------------------
(* qa/vm/microvm_rootfs_guest_init.sh: each knob is written, read, written *)
(* back and read again; a broken one is not what it was before.            *)

emit_mutation_families(broken) ==
    LET order == <<"cgroup.weight", "cpu.max", "uclamp", "topology.offline_cpu">>
    IN  [i \in DOMAIN order |-> [event |-> "mutation_family", family |-> order[i],
                                 status |-> IF order[i] \in broken THEN "FAIL" ELSE "PASS"]]

-----------------------------------------------------------------------------
(* qa/vm/microvm_report_parse.py: the serial log. *)

\* The places of the rows of an event.
RowsOf(rows, event) == {i \in DOMAIN rows : rows[i].event = event}

REQUIRED_EVENTS == {"boot", "tuple", "workload", "before", "register", "unregister",
                    "stale_target_refusal", "duplicate_rollback_refusal"}

\* by_event: a later row of the same event replaces the earlier one.
ByEvent(rows, event) == rows[Max(RowsOf(rows, event))]

\* Every execution of a scenario must have passed, and there must be one.
require_workload_pass(rows) ==
    LET executions == RowsOf(rows, "workload_execution")
    IN  /\ executions # {}
        /\ \A i \in executions : rows[i].status = "PASS"

\* Mutant: a knob that was not restored is no reason to refuse.
ValidateRowsButMutations(rows) ==
    /\ require_workload_pass(rows)
    /\ ByEvent(rows, "register").rc = 0 /\ ByEvent(rows, "register").facts.ops = Minimal
    /\ ByEvent(rows, "unregister").rc = 0 /\ ByEvent(rows, "unregister").facts.state = "disabled"
    /\ ByEvent(rows, "tuple").btf

validate_rows(rows) ==
    LET register == ByEvent(rows, "register")
        unregister == ByEvent(rows, "unregister")
        stale == ByEvent(rows, "stale_target_refusal")
        duplicate == ByEvent(rows, "duplicate_rollback_refusal")
    IN  /\ require_workload_pass(rows)
        /\ register.rc = 0 /\ register.facts.ops = Minimal
        /\ unregister.rc = 0 /\ unregister.facts.state = "disabled"
        /\ stale.status = "REFUSE" /\ stale.rc # 0
        /\ duplicate.status = "REFUSE" /\ duplicate.rc # 0
        /\ ByEvent(rows, "tuple").btf
        /\ \A i \in RowsOf(rows, "mutation_family") : rows[i].status = "PASS"

require_rows(rows) ==
    /\ \A event \in REQUIRED_EVENTS : RowsOf(rows, event) # {}
    /\ Families \subseteq {rows[i].family : i \in RowsOf(rows, "mutation_family")}
    /\ validate_rows(rows)

SampleEvents == <<"before", "register", "unregister">>

\* observed_digest, observed_cgroup_status: a sample without membership ends the report.
MembershipObserved(rows) ==
    \A i \in DOMAIN SampleEvents : ByEvent(rows, SampleEvents[i]).facts.member

\* A torn line is no JSON: json.loads raises and nothing is reported.
parse_serial(rows) ==
    /\ RowsOf(rows, "torn") = {}
    /\ require_rows(rows)
    /\ MembershipObserved(rows)

-----------------------------------------------------------------------------
(* qa/vm/microvm_report_summary.py and _outputs.py: the files. *)

\* policy_abi_from_event: what the guest could read of the maps of its scheduler,
\* the counters as "more than none".  The log says what was amiss, or "observed";
\* a stats or events map that cannot be dumped leaves no DSQ evidence.
policy_abi_from_event(facts) ==
    [map |-> facts.weight # "none", knobs |-> facts.weight # "none",
     dsq |-> facts.weight \notin {"none", "no-dsq"},
     init |-> facts.weight \notin {"none", "no-init"},
     lastWeight |-> facts.weight \notin {"none", "no-weight"},
     weightGeneration |-> facts.weight \notin {"none", "no-generation"},
     moves |-> facts.weight # "none", moveGeneration |-> facts.weight \notin {"none", "unmoved"}]

sample_row(rows, i) ==
    LET facts == ByEvent(rows, SampleEvents[i]).facts
        ops == IF facts.ops = "" THEN None ELSE facts.ops
        state == IF facts.state # "" THEN facts.state
                 ELSE IF ops = Minimal THEN "enabled" ELSE "disabled"
    IN  [sequence |-> i, state |-> state, ops |-> ops, enableSeq |-> facts.enableSeq,
         phase |-> IF ops = Minimal THEN "during_attach"
                   ELSE IF i = 1 THEN "before_attach" ELSE "after_rollback",
         rejected |-> facts.rejected, events |-> facts.rejected,
         alive |-> facts.alive, member |-> TRUE,
         weightCalls |-> facts.weight \notin {"none", "uncalled"},
         weightObserved |-> facts.weight \notin {"none", "uncalled", "unobserved"},
         policy |-> policy_abi_from_event(facts), private |-> FALSE,
         wellFormed |-> TRUE, telemetry |-> TRUE, abi |-> "v3", source |-> "vm_serial_sched_ext"]

build_sample_rows(rows) == [i \in DOMAIN SampleEvents |-> sample_row(rows, i)]

daemon_row(sample) == [event |-> "runtime_sample", ops |-> sample.ops, hostMutation |-> FALSE]

AllAlive(samples) == \A i \in DOMAIN samples : samples[i].alive

workload_execution_summary(rows, scenario) ==
    [status |-> ByEvent(rows, "workload_execution").status, hostMutation |-> FALSE, scenario |-> scenario]

observe_summary_payload(rows, samples, scenario) ==
    [mode |-> "vm-live", eligible |-> FALSE, count |-> Len(samples),
     finalState |-> Last(samples).state, finalOps |-> Last(samples).ops,
     snapshotState |-> Last(samples).state, snapshotOps |-> Last(samples).ops,
     rolledBack |-> TRUE, aliveAll |-> AllAlive(samples),
     workload |-> workload_execution_summary(rows, scenario)]

partial_evidence_payload(env) ==
    [ops |-> Minimal, target |-> "lab", rollback |-> "PASS", postState |-> "disabled",
     objectSha |-> env.objectSha, transcript |-> TRUE, hostMutation |-> FALSE, eligible |-> FALSE]

live_attach_payload(env) ==
    [action |-> "act", mode |-> "vm-live", head |-> env.head, marker |-> TRUE, private |-> FALSE,
     hostMutation |-> FALSE]

\* One ledger line; its snapshot and transcript are the files it hashes.
write_rollback_outputs ==
    <<[audit |-> "AUD", rollback |-> "RB", snapshotAudit |-> "AUD", snapshotRollback |-> "RB",
       snapshotHash |-> TRUE, transcriptHash |-> TRUE]>>

NoBundle == [summary |-> Missing, partial |-> Missing, attach |-> Missing, observe |-> Missing,
             samples |-> <<>>, daemon |-> <<>>, ledger |-> <<>>]

\* write_verifier_outputs and write_observe_outputs; the summary is still to come.
Outputs(env, rows, scenario) ==
    LET samples == build_sample_rows(rows)
    IN  [summary |-> Missing, partial |-> partial_evidence_payload(env), attach |-> live_attach_payload(env),
         observe |-> observe_summary_payload(rows, samples, scenario), samples |-> samples,
         daemon |-> [i \in DOMAIN samples |-> daemon_row(samples[i])], ledger |-> write_rollback_outputs]

\* Mutant: the snapshot of a dirty tree is left out.
SummaryWithoutSnapshot(env) ==
    [status |-> "PASS", mode |-> "vm-live", head |-> env.head, objectSha |-> env.objectSha,
     dirty |-> env.dirty, snapshot |-> Missing,
     hostMutation |-> FALSE, fresh |-> TRUE, marker |-> TRUE, rollback |-> "PASS",
     releaseUse |-> FALSE, eligible |-> TRUE, stages |-> <<"PASS">>,
     cleanup |-> [receipt |-> TRUE, scanBefore |-> env.scanBefore, scanAfter |-> env.scanAfter,
                  leftovers |-> FALSE]]

summary_payload(env) ==
    [status |-> "PASS", mode |-> "vm-live", head |-> env.head, objectSha |-> env.objectSha,
     dirty |-> env.dirty, snapshot |-> IF env.dirty THEN env.snapshot ELSE Missing,
     hostMutation |-> FALSE, fresh |-> TRUE, marker |-> TRUE, rollback |-> "PASS",
     releaseUse |-> FALSE, eligible |-> TRUE, stages |-> <<"PASS", "PASS", "PASS", "PASS">>,
     cleanup |-> [receipt |-> TRUE, scanBefore |-> env.scanBefore, scanAfter |-> env.scanAfter,
                  leftovers |-> FALSE]]

\* The incident report of a timeout has neither object, marker nor rollback result.
emit_timeout_report(env) ==
    [summary_payload(env) EXCEPT !.status = "INCIDENT", !.objectSha = Missing, !.snapshot = Missing,
         !.marker = Missing, !.rollback = Missing, !.releaseUse = Missing, !.eligible = FALSE,
         !.stages = <<"INCIDENT">>]

\* The PASS summaries and attach proofs that a run can write: none is Missing.
Receipts == [receipt : BOOLEAN, scanBefore : BOOLEAN, scanAfter : BOOLEAN, leftovers : BOOLEAN]

SummaryFiles ==
    [status : {"PASS"}, mode : {"vm-live"}, head : Nat \cup {None}, objectSha : Nat \cup {None},
     dirty : BOOLEAN, snapshot : Snapshots \cup {None, Missing}, hostMutation : BOOLEAN, fresh : BOOLEAN,
     marker : BOOLEAN, rollback : {"PASS"}, releaseUse : BOOLEAN, eligible : BOOLEAN,
     stages : Seq({"PASS"}), cleanup : Receipts]

AttachFiles ==
    [action : {"act"}, mode : {"vm-live"}, head : Nat \cup {None}, marker : BOOLEAN, private : BOOLEAN,
     hostMutation : BOOLEAN]

ASSUME FilesAssumption ==
    Missing \notin SummaryFiles /\ Missing \notin AttachFiles /\ Missing \notin Receipts \cup {"act"}

-----------------------------------------------------------------------------
(* qa/partial_attach_check.py, qa/audit_ledger_check.py *)

validate_evidence(partial) ==
    /\ partial # Missing
    /\ ~partial.hostMutation /\ ~partial.eligible
    /\ partial.ops = Minimal
    /\ partial.target = "lab"
    /\ partial.rollback = "PASS" /\ partial.postState \in {"disabled", "previous"}
    /\ partial.objectSha # Missing
    /\ partial.transcript

validate_record(row) ==
    /\ row.audit # "secret"
    /\ row.snapshotHash /\ row.transcriptHash
    /\ row.snapshotAudit = row.audit /\ row.snapshotRollback = row.rollback

validate_ledger(ledger) ==
    /\ ledger # <<>>
    /\ \A i \in DOMAIN ledger : validate_record(ledger[i])
    /\ IsInjective([i \in DOMAIN ledger |-> ledger[i].audit])

(* qa/runtime_sample_*.py *)

\* A map that is there names cpu.weight as an observed knob.
validate_cgroup_policy_map(row) == row.policy.map => row.policy.knobs

\* Set-weight callbacks that fired unobserved, or were observed without firing, are
\* refused; none at all is not.
validate_cgroup_callback_stats(row) == row.weightCalls <=> row.weightObserved

\* The metadata, the fixed semantics of each knob and the policy map of ABI v3.
validate_v3_policy_abi(row) ==
    row.abi = "v3" /\ validate_cgroup_policy_map(row) /\ validate_cgroup_callback_stats(row)

\* No key and no text that could name a secret, a command line or a claim.
reject_private_leaks(value) == ~value.private

\* The row has the fields it should have, each of its type and in its range.
validate_root_fields(row) == row.wellFormed

validate_sample(row) ==
    /\ reject_private_leaks(row) /\ validate_root_fields(row) /\ row.member
    /\ row.state \in {"disabled", "enabling", "enabled", "disabling"}
    /\ validate_v3_policy_abi(row)

validate_sched_ext_sequence(samples) ==
    /\ \A i, j \in DOMAIN samples : i < j =>
          /\ samples[i].sequence < samples[j].sequence
          /\ samples[i].enableSeq # Unavailable /\ samples[j].enableSeq # Unavailable
               => samples[i].enableSeq <= samples[j].enableSeq
    /\ \A i \in DOMAIN samples :
          /\ samples[i].phase = "before_attach" => samples[i].state # "enabled"
          /\ samples[i].phase = "after_rollback" =>
                samples[i].state = "disabled" /\ samples[i].ops = None

\* A file of samples with no row in it is refused.
load_jsonl(samples) == samples # <<>>

validate_file(samples) ==
    /\ load_jsonl(samples)
    /\ \A i \in DOMAIN samples : validate_sample(samples[i])
    /\ validate_sched_ext_sequence(samples)

(* qa/lab_summary_observe.py *)

\* A bounded workload that passed may be gone by the last sample; a sleep may not.
workload_execution_passed(observe) ==
    /\ observe.workload.status = "PASS" /\ ~observe.workload.hostMutation
    /\ observe.workload.scenario # "live-backend"

validate_sample_series(observe, samples) ==
    /\ Len(samples) >= 3 /\ Len(samples) = observe.count
    /\ \E i \in DOMAIN samples : samples[i].ops = Minimal
    /\ \A i \in DOMAIN samples : reject_private_leaks(samples[i])
    /\ observe.aliveAll = AllAlive(samples)
    /\ AllAlive(samples) \/ workload_execution_passed(observe)

DaemonShowsPolicy(daemon) ==
    \E i \in DOMAIN daemon : daemon[i].event = "runtime_sample" /\ daemon[i].ops = Minimal

validate_snapshot(observe) ==
    /\ observe.rolledBack
    /\ observe.snapshotState = observe.finalState /\ observe.snapshotOps = observe.finalOps

validate_observe(b) ==
    /\ b.observe # Missing
    /\ ~b.observe.eligible
    /\ validate_file(b.samples) /\ validate_ledger(b.ledger)
    /\ validate_sample_series(b.observe, b.samples)
    /\ DaemonShowsPolicy(b.daemon)
    /\ validate_snapshot(b.observe)

(* qa/live_behavior_check.py *)

validate_vm_live_gate(summary) ==
    summary.mode = "vm-live" /\ summary.marker = TRUE /\ summary.rollback = "PASS"

\* A number counts only where the events were readable.
validate_required_counter_fact(row) ==
    row.rejected # Missing /\ (row.rejected # Unavailable => row.events # Unavailable)

\* Mutant: the facts are checked sample by sample and never compared.
CountersMayGrow(samples) == \A i \in DOMAIN samples : validate_required_counter_fact(samples[i])

validate_counter_growth(samples) ==
    /\ \A i \in DOMAIN samples : validate_required_counter_fact(samples[i])
    /\ LET first == samples[1].rejected
           last == Last(samples).rejected
       IN  first # Unavailable /\ last # Unavailable => last <= first

validate_partial_behavior(partial) ==
    partial.ops = Minimal /\ partial.target = "lab" /\ partial.objectSha # Missing

validate_observe_behavior(observe) ==
    /\ observe.mode = "vm-live"
    /\ observe.aliveAll \/ workload_execution_passed(observe)
    /\ observe.rolledBack

validate_samples(samples, observe) ==
    /\ Len(samples) >= 3
    /\ samples[1].ops # Minimal
    /\ \E i \in 2 .. Len(samples) - 1 : samples[i].ops = Minimal
    /\ Last(samples).ops # Minimal /\ Last(samples).state \in {"disabled", "previous"}
    /\ observe.aliveAll = AllAlive(samples)
    /\ AllAlive(samples) \/ workload_execution_passed(observe)
    /\ \A i \in DOMAIN samples : samples[i].member
    /\ validate_counter_growth(samples)

validate_daemon_events(daemon) ==
    /\ \A i \in DOMAIN daemon : daemon[i].hostMutation = FALSE
    /\ DaemonShowsPolicy(daemon)

validate_bundle(b) ==
    /\ b.summary # Missing
    /\ b.summary.status = "PASS" /\ ~b.summary.hostMutation
    /\ validate_vm_live_gate(b.summary)
    /\ validate_evidence(b.partial)
    /\ validate_observe(b)
    /\ validate_file(b.samples)
    /\ validate_ledger(b.ledger)
    /\ validate_partial_behavior(b.partial)
    /\ validate_observe_behavior(b.observe)
    /\ validate_samples(b.samples, b.observe)
    /\ validate_daemon_events(b.daemon)

(* qa/live_bundle_freshness_check.py: now is the repository at the time of *)
(* the check, [head, objectSha, snapshot], snapshot None in a clean tree.  *)

validate_cleanup(cleanup) ==
    cleanup # Missing /\ cleanup.receipt /\ cleanup.scanBefore = TRUE /\ cleanup.scanAfter = TRUE

validate_dirty_snapshot(summary, r, now, provenance) ==
    /\ now.snapshot # None
    /\ summary.snapshot = now.snapshot
    /\ provenance.snapshot = now.snapshot
    /\ provenance.head = now.head
    /\ provenance.bundle = r

\* Mutant: the object that was tested is not compared with the one on disk.
FreshForAnyObject(b, r, now, provenance) ==
    /\ b.summary # Missing
    /\ b.summary.status = "PASS" /\ b.summary.mode = "vm-live"
    /\ b.summary.head = now.head /\ b.summary.objectSha # Missing
    /\ b.summary.dirty => validate_dirty_snapshot(b.summary, r, now, provenance)
    /\ ~b.summary.hostMutation /\ b.summary.fresh
    /\ validate_cleanup(b.summary.cleanup)

validate_fresh_bundle(b, r, now, provenance) ==
    /\ b.summary # Missing
    /\ b.summary.status = "PASS" /\ b.summary.mode = "vm-live"
    /\ b.summary.head = now.head
    /\ b.summary.objectSha = now.objectSha
    /\ b.summary.dirty => validate_dirty_snapshot(b.summary, r, now, provenance)
    /\ ~b.summary.hostMutation
    /\ b.summary.fresh
    /\ validate_cleanup(b.summary.cleanup)

\* qa/release_gate.sh: freshness, behaviour, then the cleanup proof.
require_live_behavior_bundle(b, r, now, provenance) ==
    /\ validate_fresh_bundle(b, r, now, provenance)
    /\ validate_bundle(b)
    /\ ~b.summary.cleanup.leftovers

(* qa/lab_summary_backend.py and qa/live_lab_evidence_check.py: the same   *)
(* bundle as the VM backend's live summary, and its attach proof.          *)

validate_backend_live_summary(b) ==
    /\ validate_bundle(b)
    /\ b.summary.releaseUse = FALSE /\ b.summary.eligible
    /\ b.summary.stages # <<>>
    /\ \A i \in DOMAIN b.summary.stages : b.summary.stages[i] = "PASS"

validate_attach(attach, now) ==
    /\ attach # Missing
    /\ attach.action # Missing /\ ~attach.hostMutation /\ reject_private_leaks(attach)
    /\ attach.mode = "vm-live" /\ attach.marker
    /\ attach.head = now.head

-----------------------------------------------------------------------------
(* The edits of a good bundle that the self-tests of the checks try. *)

FreshnessCases == {"stale-git-sha", "mismatched-bpf-sha", "missing-cleanup-receipt", "reused-output-directory",
                   "dirty-no-snapshot", "dirty-mismatched-snapshot", "failed-status", "list-only-process-scans"}
BehaviorCases == {"no-observe", "counter-growth", "host-mutation", "all-during", "missing-counters",
                  "eventless-numeric", "bad-object", "daemon-host-mutation"}
PartialCases == {"partial-host-mutation", "partial-release", "partial-ops", "partial-target"}
LedgerCases == {"duplicate-audit", "mismatched-rollback", "secret-audit", "changed-transcript"}
ObserveCases == {"observe-release", "observe-alive", "observe-count", "private-sample", "final-state"}
SampleCases == {"sequence-repeats", "enable-seq-stale", "before-enabled", "rollback-live-ops",
                "bad-policy-abi", "incoherent-callback-stats", "malformed-sample", "zero-cgroup-digest"}
TamperCases == UNION {FreshnessCases, BehaviorCases, PartialCases, LedgerCases, ObserveCases, SampleCases}

TamperSummary(s, case) ==
    CASE case = "stale-git-sha" -> [s EXCEPT !.head = Missing]
      [] case = "mismatched-bpf-sha" -> [s EXCEPT !.objectSha = Missing]
      [] case = "missing-cleanup-receipt" -> [s EXCEPT !.cleanup = Missing]
      [] case = "reused-output-directory" -> [s EXCEPT !.fresh = FALSE]
      [] case = "dirty-no-snapshot" -> [s EXCEPT !.dirty = TRUE, !.snapshot = Missing]
      [] case = "dirty-mismatched-snapshot" -> [s EXCEPT !.dirty = TRUE, !.snapshot = None]
      [] case = "failed-status" -> [s EXCEPT !.status = "FAIL"]
      [] case = "list-only-process-scans" -> [s EXCEPT !.cleanup.scanBefore = Missing, !.cleanup.scanAfter = Missing]
      [] case = "host-mutation" -> [s EXCEPT !.hostMutation = TRUE]
      [] OTHER -> s

TamperSamples(rows, case) ==
    CASE case = "counter-growth" -> [rows EXCEPT ![3].rejected = rows[1].rejected + 1, ![3].events = rows[1].rejected + 1,
                                                 ![1].rejected = IF @ = Unavailable THEN 0 ELSE @]
      [] case = "all-during" -> [i \in DOMAIN rows |-> [rows[i] EXCEPT !.ops = Minimal, !.state = "enabled",
                                                                       !.phase = "during_attach"]]
      [] case = "missing-counters" -> [rows EXCEPT ![2].rejected = Missing]
      [] case = "eventless-numeric" -> [rows EXCEPT ![2].rejected = 0, ![2].events = Unavailable]
      [] case = "private-sample" -> [rows EXCEPT ![2].private = TRUE]
      [] case = "sequence-repeats" -> [rows EXCEPT ![2].sequence = rows[1].sequence]
      [] case = "enable-seq-stale" -> [rows EXCEPT ![1].enableSeq = 2, ![3].enableSeq = 1]
      [] case = "before-enabled" -> [rows EXCEPT ![1].state = "enabled"]
      [] case = "rollback-live-ops" -> [rows EXCEPT ![3].ops = Minimal, ![3].phase = "after_rollback"]
      [] case = "bad-policy-abi" -> [rows EXCEPT ![2].abi = "v2"]
      [] case = "incoherent-callback-stats" -> [rows EXCEPT ![2].weightCalls = TRUE, ![2].weightObserved = FALSE]
      [] case = "malformed-sample" -> [rows EXCEPT ![2].wellFormed = FALSE]
      [] case = "zero-cgroup-digest" -> [rows EXCEPT ![2].member = FALSE]
      [] OTHER -> rows

Tampered(b, case) ==
    CASE case = "no-observe" -> [b EXCEPT !.observe = Missing]
      [] case = "bad-object" -> [b EXCEPT !.partial.objectSha = Missing]
      [] case = "daemon-host-mutation" -> [b EXCEPT !.daemon[2].hostMutation = Missing]
      [] case = "partial-host-mutation" -> [b EXCEPT !.partial.hostMutation = TRUE]
      [] case = "partial-release" -> [b EXCEPT !.partial.eligible = TRUE]
      [] case = "partial-ops" -> [b EXCEPT !.partial.ops = "other"]
      [] case = "partial-target" -> [b EXCEPT !.partial.target = "system"]
      [] case = "duplicate-audit" -> [b EXCEPT !.ledger = @ \o @]
      [] case = "mismatched-rollback" -> [b EXCEPT !.ledger[1].rollback = "other"]
      [] case = "secret-audit" -> [b EXCEPT !.ledger[1].audit = "secret"]
      [] case = "changed-transcript" -> [b EXCEPT !.ledger[1].transcriptHash = FALSE]
      [] case = "observe-release" -> [b EXCEPT !.observe.eligible = TRUE]
      [] case = "observe-alive" -> [b EXCEPT !.observe.aliveAll = ~@]
      [] case = "observe-count" -> [b EXCEPT !.observe.count = @ + 1]
      [] case = "final-state" -> [b EXCEPT !.observe.finalState = "enabled"]
      [] OTHER -> [b EXCEPT !.summary = TamperSummary(@, case), !.samples = TamperSamples(@, case)]

AttachCases == {"surrogate", "missing-action", "missing-marker", "stale-attach", "private-log"}

TamperedAttach(attach, case) ==
    CASE case = "surrogate" -> [attach EXCEPT !.mode = "host-safe-surrogate"]
      [] case = "missing-action" -> [attach EXCEPT !.action = Missing]
      [] case = "missing-marker" -> [attach EXCEPT !.marker = FALSE]
      [] case = "stale-attach" -> [attach EXCEPT !.head = Missing]
      [] case = "private-log" -> [attach EXCEPT !.private = TRUE]
=============================================================================
