---------------------------- MODULE MatrixEvidence ----------------------------
(***************************************************************************)
(* The evidence of one VM harness matrix run, as data: what                *)
(* qa/vm/vm_harness_matrix_emit.py writes for a row, and what the matrix,  *)
(* daemon-event, benchmark, telemetry and protected-core checks accept.    *)
(*                                                                         *)
(* A matrix run is a record [manifest, files, events]: the index file, the *)
(* row directories by scenario, and the daemon-event stream.  A row record *)
(* stands for matrix-run.json and the artifacts beside it.  A path is only *)
(* "inside" its directory or not, a hash only right or wrong; identifiers, *)
(* closed field lists and JSON syntax come down to one field, wellFormed.  *)
(***************************************************************************)
EXTENDS LabEvidence

\* The file parses to an object with just the fields of its schema, each of its
\* type, none of it private or a claim.
require_only_fields(file) == file.wellFormed

\* The paths in it are relative and stay in the run's directory.
require_descendant(file) == file.inside

OUTCOMES == {"PASS", "SKIP", "REFUSE", "INCIDENT", "FAIL"}
Cgroup == "workload-cgroup-weight-quota"
Latency == "workload-interactive-latency"
Churn == "workload-scheduler-affinity-churn"
Saturation == "workload-cpu-saturation"
Hotplug == "workload-cpu-hotplug"
ForkIpc == "workload-fork-ipc-pressure"
MixedIo == "workload-mixed-io"

\* WORKLOAD_SCENARIO_METADATA: the tools of each catalogued workload.
WORKLOAD_TOOLS ==
    [s \in {Saturation, Cgroup, Latency, Churn, Hotplug, ForkIpc, MixedIo} |->
        CASE s \in {Saturation, Cgroup} -> {"stress-ng"}
          [] s = Latency -> {"cyclictest", "perf"}
          [] s = Churn -> {"stress-ng", "taskset", "chrt"}
          [] s = Hotplug -> {"cpu-hotplug-online-control"}
          [] s = ForkIpc -> {"hackbench-like"}
          [] s = MixedIo -> {"fio"}]

is_workload_scenario(s) == s \in DOMAIN WORKLOAD_TOOLS
RequiredTools(s) == IF is_workload_scenario(s) THEN WORKLOAD_TOOLS[s] ELSE {"builtin-churn"}
ThresholdSource(s) == IF is_workload_scenario(s) \/ s = "live-backend" THEN "record-only" ELSE "fixture"
workload_semantics(s) ==
    IF s = Cgroup THEN "cgroup" ELSE IF s = Hotplug THEN "hotplug" ELSE None

-----------------------------------------------------------------------------
(* qa/benchmark_output_*.py: one parsed, or deferred, tool output. *)

SUPPORTED == {"cyclictest", "fio", "perf_bench_sched_messaging", "stress_ng"}
UNSUPPORTED == {"rtla", "perf_sched"}

tool_for(family) ==
    CASE family \in {"perf_bench_sched_messaging", "perf_sched"} -> "perf"
      [] family = "stress_ng" -> "stress-ng"
      [] OTHER -> family

\* parse_metrics, build_record: a supported family has metrics, a deferred one none.
build_record(family) ==
    [family |-> family, tool |-> tool_for(family), metrics |-> (family \in SUPPORTED),
     status |-> IF family \in SUPPORTED THEN "RECORDED" ELSE "UNSUPPORTED_DEFERRED",
     parser |-> IF family \in SUPPORTED THEN "PARSED" ELSE "UNSUPPORTED_DEFERRED",
     wellFormed |-> TRUE, recordOnly |-> TRUE, claim |-> FALSE, private |-> FALSE, finite |-> TRUE,
     rawPrivate |-> FALSE, rawSha |-> TRUE, sha |-> TRUE, inside |-> TRUE]

\* qa/benchmark_output_privacy.py: a key counts as forbidden in snake, camel or
\* compact spelling; a number must be finite.
record_leaks(record) == record.private \/ ~record.finite

validate_benchmark_record(record) ==
    /\ require_only_fields(record) /\ ~record_leaks(record)
    /\ record.recordOnly /\ ~record.claim
    /\ record.tool = tool_for(record.family)
    /\ \/ /\ record.status = "RECORDED" /\ record.parser = "PARSED"
          /\ record.family \in SUPPORTED /\ record.metrics
       \/ /\ record.status = "UNSUPPORTED_DEFERRED" /\ record.parser = "UNSUPPORTED_DEFERRED"
          /\ record.family \in UNSUPPORTED /\ ~record.metrics

bench_families(s) ==
    CASE s = Latency -> <<"cyclictest", "perf_bench_sched_messaging", "rtla", "perf_sched">>
      [] s \in {Saturation, Cgroup} -> <<"stress_ng">>
      [] s = Churn -> <<"stress_ng", "perf_sched">>
      [] s = "live-backend" -> <<"perf_sched">>
      [] s = ForkIpc -> <<"perf_bench_sched_messaging">>
      [] s = MixedIo -> <<"fio">>
      [] OTHER -> <<>>

\* An empty list is left out of the workload spec altogether.
write_benchmarks(s, missing) ==
    IF ThresholdSource(s) # "record-only" \/ missing # "" \/ bench_families(s) = <<>> THEN Missing
    ELSE [i \in DOMAIN bench_families(s) |-> build_record(bench_families(s)[i])]

\* qa/matrix_benchmark_provenance.py: the raw output is scanned as text, then as JSON.
validate_raw_output_privacy(record) == ~record.rawPrivate

validate_record_references(record) ==
    record.rawSha /\ require_descendant(record) /\ validate_raw_output_privacy(record)

validate_entries(bench) ==
    bench # Missing =>
        /\ bench # <<>>
        /\ IsInjective([i \in DOMAIN bench |-> bench[i].family])
        /\ \A i \in DOMAIN bench :
              /\ bench[i].sha /\ validate_benchmark_record(bench[i])
              /\ validate_record_references(bench[i])

-----------------------------------------------------------------------------
(* qa/vm/vm_harness_matrix_emit.py: the files of a row. *)

\* The synthetic samples: always one enable and one rollback, whatever the outcome.
runtime_sample(i, s, outcome) ==
    LET weight == s = Cgroup /\ i = 2 /\ outcome = "PASS"
    IN  [sequence |-> i, state |-> IF i = 2 THEN "enabled" ELSE "disabled",
         ops |-> IF i = 2 THEN Minimal ELSE None, enableSeq |-> IF i = 1 THEN 0 ELSE 41,
         phase |-> <<"before_attach", "during_attach", "after_rollback">>[i],
         rejected |-> 0, events |-> 0, alive |-> (outcome = "PASS"), member |-> TRUE,
         weightCalls |-> weight, weightObserved |-> weight, private |-> FALSE,
         policy |-> policy_abi_from_event([weight |-> IF weight THEN "observed" ELSE "none"]),
         wellFormed |-> TRUE, telemetry |-> TRUE, abi |-> "v3", source |-> "vm_harness_matrix_row"]

\* shape: what scenario_shape or the live path decided; missing: the tool that is
\* not there, probed once more while the row is written.
row(s, outcome, shape, sha, missing) ==
    [scenario |-> s, runId |-> "this-run", outcome |-> outcome, mode |-> shape.mode,
     required |-> shape.marker, present |-> shape.marker, wellFormed |-> TRUE, inside |-> TRUE,
     markerProof |-> IF shape.marker THEN [present |-> TRUE, mode |-> "vm-live"] ELSE Missing,
     git |-> [expected |-> sha, actual |-> sha, dirty |-> FALSE],
     pre |-> [state |-> "disabled", seq |-> Unavailable], post |-> [state |-> "disabled", seq |-> Unavailable],
     spec |-> [scenario |-> s, tools |-> RequiredTools(s), source |-> ThresholdSource(s), missing |-> missing,
               semantics |-> workload_semantics(s), bench |-> write_benchmarks(s, missing), private |-> FALSE,
               sha |-> TRUE],
     capability |-> [scenario |-> s, tools |-> RequiredTools(s), source |-> ThresholdSource(s),
                     status |-> outcome, missing |-> missing, private |-> FALSE],
     samples |-> [i \in 1 .. 3 |-> runtime_sample(i, s, outcome)], samplesLocal |-> TRUE,
     incident |-> [scenario |-> s, outcome |-> outcome], rollback |-> [scenario |-> s],
     cleanup |-> [scenario |-> s, status |-> "PASS", leftovers |-> FALSE],
     refusal |-> [scenario |-> s], privacy |-> [status |-> "PASS", found |-> FALSE],
     backend |-> Missing, logs |-> 4, abi |-> "v1", hostMutation |-> FALSE, eligible |-> FALSE]

\* overlay-backend, overlay-workload: the guest's samples replace the synthetic ones.
\* Only the former looks at the status of the backend.
overlay(r, backend) ==
    LET live == IF backend = Missing THEN Missing ELSE backend.live
    IN  IF live = Missing \/ live.samples = <<>> \/ live.summary = Missing
             \/ (r.scenario = "live-backend" /\ backend.status # "PASS")
          THEN [r EXCEPT !.backend = backend]
          ELSE [r EXCEPT !.backend = backend, !.samples = live.samples]

event(seq, name, status, s, sha) ==
    [seq |-> seq, event |-> name, status |-> status, scenario |-> s, audit |-> sha,
     hostMutation |-> FALSE, private |-> FALSE]

manifest_row(s, outcome) == [scenario |-> s, outcome |-> outcome, path |-> s]

manifest(mode, fixture, rows) ==
    [runId |-> "this-run", dir |-> "this-run", mode |-> mode, fixture |-> fixture, rowCount |-> Len(rows),
     rows |-> rows, wellFormed |-> TRUE, hostMutation |-> FALSE, eligible |-> FALSE]

-----------------------------------------------------------------------------
(* qa/daemon_event_contract_check.py *)

\* Commits are numbered from 1; the harness writes "unknown" when git fails.
UnknownSha == 0

\* An audit id ends in the abbreviated commit: "unknown" is not hexadecimal.
validate_event_row(e, expected) ==
    /\ e.seq = expected /\ ~e.hostMutation /\ ~e.private
    /\ e.audit # UnknownSha

validate_events(events) ==
    /\ events # <<>>
    /\ \A i \in DOMAIN events : validate_event_row(events[i], i)

-----------------------------------------------------------------------------
(* qa/matrix_run_*.py *)

validate_vm_marker(r) ==
    IF r.mode = "vm-live" THEN r.required /\ r.present ELSE ~r.required /\ ~r.present

validate_pass_evidence_mode(r) == r.outcome = "PASS" => r.mode \in {"vm-live", "fixture"}

validate_git(git) == git.expected = git.actual /\ ~git.dirty

validate_scheduler_states(pre, post) ==
    /\ pre.state # Missing /\ post.state # Missing
    /\ pre.seq # Unavailable /\ post.seq # Unavailable => pre.seq <= post.seq

validate_row(r) ==
    /\ require_only_fields(r) /\ r.abi = "v1" /\ ~r.hostMutation /\ ~r.eligible
    /\ r.outcome \in OUTCOMES
    /\ r.scenario # "workload-uncatalogued"
    /\ validate_scheduler_states(r.pre, r.post)
    /\ validate_vm_marker(r)
    /\ r.privacy.status = "PASS" /\ ~r.privacy.found
    /\ validate_git(r.git)
    /\ validate_pass_evidence_mode(r)

validate_vm_marker_proof(r) ==
    /\ r.markerProof # Missing
    /\ r.markerProof.present = r.present /\ r.markerProof.mode = r.mode
    /\ r.required /\ r.present /\ r.mode = "vm-live"

validate_manifest_vm_claim(r, mode, fixture) ==
    LET authorized == fixture /\ mode \in {"host-safe", "auto"}
    IN  /\ r.mode = "fixture" => authorized
        /\ r.outcome = "PASS" /\ ~authorized => r.mode = "vm-live"
        /\ authorized => /\ ~r.present /\ r.mode # "vm-live"
                         /\ r.outcome = "PASS" => r.mode = "fixture"
        /\ r.mode = "vm-live" \/ r.present => validate_vm_marker_proof(r)

validate_workload_semantics(spec, s) == spec.semantics = workload_semantics(s)

validate_workload_spec(r) ==
    /\ ~r.spec.private /\ r.spec.sha
    /\ r.spec.scenario = r.scenario
    /\ is_workload_scenario(r.scenario) =>
          /\ r.spec.tools = RequiredTools(r.scenario)
          /\ r.spec.source = "record-only"
          /\ r.spec.missing = "" \/ r.spec.missing \in RequiredTools(r.scenario)
    /\ validate_workload_semantics(r.spec, r.scenario)
    /\ r.spec.source = "calibrated" => r.spec.bench # Missing
    /\ validate_entries(r.spec.bench)

\* Mutant: a row may name a missing tool whatever its outcome.
CapabilityAnyMissing(r) ==
    /\ ~r.capability.private /\ r.capability.scenario = r.scenario
    /\ r.capability.status = r.outcome

validate_workload_capability(r) ==
    /\ ~r.capability.private
    /\ r.capability.scenario = r.scenario
    /\ r.capability.status = r.outcome
    /\ is_workload_scenario(r.scenario) =>
          /\ r.capability.tools = RequiredTools(r.scenario) /\ r.capability.source = "record-only"
          /\ r.capability.missing = "" \/ r.capability.missing \in RequiredTools(r.scenario)
          /\ r.outcome = "SKIP" => r.capability.missing # ""
          /\ r.outcome \notin {"SKIP", "REFUSE"} => r.capability.missing = ""

validate_manifest_proof_artifacts(r) ==
    /\ validate_file(r.samples)
    /\ r.incident.scenario = r.scenario /\ r.incident.outcome = r.outcome
    /\ r.rollback # Missing /\ r.rollback.scenario = r.scenario
    /\ r.cleanup # Missing /\ r.cleanup.scenario = r.scenario /\ ~r.cleanup.leftovers
    /\ r.outcome # "FAIL" => r.cleanup.status = "PASS"
    /\ r.refusal # Missing /\ r.refusal.scenario = r.scenario

\* qa/lab_summary_backend.py: the wrapper's own summary, and its live bundle.
validate_backend_run_summary(backend) ==
    /\ backend # Missing /\ backend.status = "PASS"
    /\ backend.mode = "vm-required" /\ backend.canonical
    /\ backend.live # Missing /\ validate_backend_live_summary(backend.live)

\* A passing live backend is backed by its own bundle, clean, of the row's commit.
validate_live_backend_summary_consistency(r) ==
    r.scenario = "live-backend" /\ r.outcome = "PASS" /\ r.mode = "vm-live" =>
        /\ r.backend # Missing /\ r.backend.status = "PASS"
        /\ r.backend.live # Missing /\ r.backend.canonical
        /\ ~r.backend.live.summary.dirty
        /\ r.backend.live.summary.head = r.git.actual
        /\ validate_bundle(r.backend.live)

validate_manifest_row(r, m) ==
    /\ validate_row(r)
    /\ require_descendant(r)
    /\ validate_workload_spec(r) /\ validate_workload_capability(r)
    /\ validate_manifest_proof_artifacts(r)
    /\ validate_manifest_vm_claim(r, m.manifest.mode, m.manifest.fixture)
    /\ validate_live_backend_summary_consistency(r)
    /\ r.runId = m.manifest.runId

validate_manifest(m) ==
    /\ require_only_fields(m.manifest) /\ ~m.manifest.hostMutation /\ ~m.manifest.eligible
    /\ m.manifest.runId = "this-run" /\ m.manifest.dir = "this-run"
    /\ m.manifest.rowCount = Len(m.manifest.rows)
    /\ validate_events(m.events)
    /\ IsInjective([i \in DOMAIN m.manifest.rows |-> m.manifest.rows[i].scenario])
    /\ IsInjective([i \in DOMAIN m.manifest.rows |-> m.manifest.rows[i].path])
    /\ \A i \in DOMAIN m.manifest.rows :
          LET ref == m.manifest.rows[i]
          IN  /\ ref.path \in DOMAIN m.files
              /\ validate_manifest_row(m.files[ref.path], m)
              /\ ref.scenario = m.files[ref.path].scenario
              /\ ref.outcome = m.files[ref.path].outcome

-----------------------------------------------------------------------------
(* qa/protected_core_telemetry_check.py, qa/protected_core_suite_check.py *)

\* The loss, fairness and scheduler counters are there; the rejected counter is the
\* one in the events, unavailable when they are; the cgroup row is of ABI v3.
validate_telemetry_row(sample, s) ==
    /\ sample.telemetry
    /\ sample.rejected = sample.events
    /\ s = Cgroup => sample.abi = "v3"

validate_vm_captured_input(samples, s) ==
    /\ validate_file(samples)
    /\ \A i \in DOMAIN samples :
          /\ validate_telemetry_row(samples[i], s)
          /\ samples[i].source \in {"vm_guest_sched_ext", "vm_serial_sched_ext"}

RowOf(m, i) == m.files[m.manifest.rows[i].path]

validate_telemetry_manifest(m) ==
    \A i \in DOMAIN m.manifest.rows :
        m.manifest.rows[i].outcome = "PASS" /\ RowOf(m, i).mode = "vm-live"
            => validate_vm_captured_input(RowOf(m, i).samples, m.manifest.rows[i].scenario)

validate_suite_shape(m) ==
    LET scenarios == {m.manifest.rows[i].scenario : i \in DOMAIN m.manifest.rows}
    IN  /\ Cardinality(scenarios) = Len(m.manifest.rows)
        /\ \E latency \in {Latency, Churn} : scenarios = {"live-backend", Saturation, Cgroup, latency}
        /\ \A i \in DOMAIN m.manifest.rows : m.manifest.rows[i].outcome = "PASS"

\* The policy map, the callback counters and the DSQ counters could all be read.
PresentCgroupEvidence(sample) == sample.policy.map /\ sample.policy.dsq

\* What a sample that has them must show: the cgroup was set up, its weight set and
\* seen, and a move counted.
validate_present_cgroup_evidence(sample) ==
    PresentCgroupEvidence(sample) =>
        /\ sample.policy.knobs /\ sample.policy.init
        /\ sample.policy.lastWeight /\ sample.policy.weightGeneration
        /\ sample.policy.moves => sample.policy.moveGeneration
        /\ sample.weightCalls /\ sample.weightObserved

\* Only samples of ABI v3 are looked at; one of them has the evidence.
validate_cgroup_abi_linkage(r) ==
    LET v3 == {i \in DOMAIN r.samples : r.samples[i].abi = "v3"}
    IN  /\ \A i \in v3 : validate_present_cgroup_evidence(r.samples[i])
        /\ \E i \in v3 : PresentCgroupEvidence(r.samples[i])

validate_suite(m) ==
    /\ validate_suite_shape(m)
    /\ \A i \in DOMAIN m.manifest.rows :
          LET r == RowOf(m, i)
          IN  /\ r.samplesLocal /\ r.mode = "vm-live" /\ r.required /\ r.present
              /\ validate_vm_captured_input(r.samples, r.scenario)
              /\ r.scenario = Cgroup => validate_cgroup_abi_linkage(r)

-----------------------------------------------------------------------------
(* The edits the self-tests make to a good row.  Each assumes a passing    *)
(* row with a VM marker; some a workload row, some the live backend.       *)

RowCases == {"host-mutation-true", "release-eligible-true", "invalid-outcome", "stale-git", "dirty-git",
             "missing-vm-marker", "unsafe-path", "missing-rollback-proof", "missing-cleanup-proof",
             "missing-host-refusal-proof", "privacy-failed", "unsupported-bpf-abi", "malformed",
             "missing-sched-ext-state", "stale-enable-seq"}
BasicCases == {"row-run-id-mismatch", "internal-path-outside-root", "invalid-runtime-sample",
               "forged-pass-host-refusal", "forged-fixture", "missing-marker-proof", "marker-proof-mismatch",
               "spec-token", "capability-token"}
WorkloadCases == {"spec-scenario-mismatch", "required-tools-mismatch", "threshold-source-mismatch",
                  "semantic-label-mismatch", "uncatalogued", "capability-outcome-mismatch",
                  "pass-missing-prereq"}
BenchCases == {"bench-missing", "bench-claim", "bench-malformed", "calibrated-absent"}
ProvenanceCases == {"stale-record-hash", "traversing-record-path", "stale-raw-hash", "raw-privacy-leak"}
RecordCases == {"not-record-only", "parser-status", "nested-access-token", "nonfinite-metric"}
LiveCases == {"dirty-summary-masked", "missing-live-summary", "noncanonical-live-summary",
              "fake-unavailable-counter"}
ManifestCases == {"duplicate-scenario", "duplicate-artifact", "row-count-mismatch", "dir-mismatch",
                  "run-id-mismatch", "fixture-claim", "absolute-artifact"}
EventCases == {"host-mutation-true", "private-field", "private-text", "nonmonotonic-seq"}
RowEdits == UNION {RowCases, BasicCases, WorkloadCases, BenchCases, ProvenanceCases, RecordCases, LiveCases}

Applies(case, r) ==
    /\ r.outcome = "PASS" /\ r.mode = "vm-live"
    /\ case \in WorkloadCases => is_workload_scenario(r.scenario)
    /\ case \in BenchCases \cup ProvenanceCases \cup RecordCases => r.spec.bench # Missing
    /\ case \in LiveCases => r.scenario = "live-backend"

TamperRowFile(r, case) ==
    CASE case = "host-mutation-true" -> [r EXCEPT !.hostMutation = TRUE]
      [] case = "release-eligible-true" -> [r EXCEPT !.eligible = TRUE]
      [] case = "invalid-outcome" -> [r EXCEPT !.outcome = "SUCCESS"]
      [] case = "stale-git" -> [r EXCEPT !.git.actual = Missing]
      [] case = "dirty-git" -> [r EXCEPT !.git.dirty = TRUE]
      [] case = "missing-vm-marker" -> [r EXCEPT !.present = FALSE]
      [] case \in {"unsafe-path", "malformed"} -> [r EXCEPT !.wellFormed = FALSE]
      [] case = "missing-rollback-proof" -> [r EXCEPT !.rollback = Missing]
      [] case = "missing-cleanup-proof" -> [r EXCEPT !.cleanup = Missing]
      [] case = "missing-host-refusal-proof" -> [r EXCEPT !.refusal = Missing]
      [] case = "privacy-failed" -> [r EXCEPT !.privacy.found = TRUE]
      [] case = "unsupported-bpf-abi" -> [r EXCEPT !.abi = "v3"]
      [] case = "missing-sched-ext-state" -> [r EXCEPT !.pre.state = Missing]
      [] case = "stale-enable-seq" -> [r EXCEPT !.pre.seq = 42, !.post.seq = 41]
      [] case = "row-run-id-mismatch" -> [r EXCEPT !.runId = "other-run"]
      [] case = "internal-path-outside-root" -> [r EXCEPT !.inside = FALSE]
      [] case = "invalid-runtime-sample" -> [r EXCEPT !.samples = <<>>]
      [] case = "forged-pass-host-refusal" ->
            [r EXCEPT !.mode = "host-refusal-only", !.required = FALSE, !.present = FALSE]
      [] case = "forged-fixture" -> [r EXCEPT !.mode = "fixture", !.required = FALSE, !.present = FALSE]
      [] case = "missing-marker-proof" -> [r EXCEPT !.markerProof = Missing]
      [] case = "marker-proof-mismatch" -> [r EXCEPT !.markerProof.present = FALSE]

TamperWorkload(r, case) ==
    CASE case = "spec-token" -> [r EXCEPT !.spec.private = TRUE]
      [] case = "capability-token" -> [r EXCEPT !.capability.private = TRUE]
      [] case = "spec-scenario-mismatch" -> [r EXCEPT !.spec.scenario = MixedIo]
      [] case = "required-tools-mismatch" -> [r EXCEPT !.spec.tools = {"fio"}, !.capability.tools = {"fio"}]
      [] case = "threshold-source-mismatch" -> [r EXCEPT !.spec.source = "calibrated"]
      [] case = "semantic-label-mismatch" -> [r EXCEPT !.spec.semantics = "other"]
      [] case = "uncatalogued" -> [r EXCEPT !.scenario = "workload-uncatalogued"]
      [] case = "capability-outcome-mismatch" -> [r EXCEPT !.capability.status = "REFUSE"]
      [] case = "pass-missing-prereq" ->
            [r EXCEPT !.capability.missing = CHOOSE t \in RequiredTools(r.scenario) : TRUE]
      [] case = "calibrated-absent" -> [r EXCEPT !.spec.source = "calibrated", !.spec.bench = Missing]
      [] case = "dirty-summary-masked" -> [r EXCEPT !.backend.live.summary.dirty = TRUE]
      [] case = "missing-live-summary" -> [r EXCEPT !.backend.live = Missing]
      [] case = "noncanonical-live-summary" -> [r EXCEPT !.backend.canonical = FALSE]
      [] case = "fake-unavailable-counter" ->
            [r EXCEPT !.backend.live.samples[2].rejected = 0, !.backend.live.samples[2].events = Unavailable]

\* The self-tests of the benchmark records edit one record of a row.
TamperedRecord(record, case) ==
    CASE case \in {"bench-missing", "stale-record-hash"} -> [record EXCEPT !.sha = FALSE]
      [] case = "bench-claim" -> [record EXCEPT !.claim = TRUE]
      [] case = "bench-malformed" -> [record EXCEPT !.wellFormed = FALSE]
      [] case = "traversing-record-path" -> [record EXCEPT !.inside = FALSE]
      [] case = "stale-raw-hash" -> [record EXCEPT !.rawSha = FALSE]
      [] case = "raw-privacy-leak" -> [record EXCEPT !.rawPrivate = TRUE]
      [] case = "not-record-only" -> [record EXCEPT !.recordOnly = FALSE]
      [] case = "parser-status" ->
            [record EXCEPT !.parser = IF @ = "PARSED" THEN "UNSUPPORTED_DEFERRED" ELSE "PARSED"]
      [] case = "nested-access-token" -> [record EXCEPT !.private = TRUE]
      [] case = "nonfinite-metric" -> [record EXCEPT !.finite = FALSE]

TamperedRow(r, case) ==
    CASE case \in RowCases \cup (BasicCases \ {"spec-token", "capability-token"}) -> TamperRowFile(r, case)
      [] case \in (BenchCases \ {"calibrated-absent"}) \cup ProvenanceCases \cup RecordCases ->
            [r EXCEPT !.spec.bench[1] = TamperedRecord(@, case)]
      [] OTHER -> TamperWorkload(r, case)

TamperedManifest(m, case) ==
    LET first == m.manifest.rows[1]
    IN  CASE case = "duplicate-scenario" -> [m EXCEPT !.manifest.rows = Append(@, first), !.manifest.rowCount = @ + 1]
          [] case = "duplicate-artifact" ->
                [m EXCEPT !.manifest.rows = Append(@, [first EXCEPT !.scenario = "copy"]), !.manifest.rowCount = @ + 1]
          [] case = "row-count-mismatch" -> [m EXCEPT !.manifest.rowCount = @ + 1]
          [] case = "dir-mismatch" -> [m EXCEPT !.manifest.dir = "other-run"]
          [] case = "run-id-mismatch" -> [m EXCEPT !.manifest.runId = "other-run"]
          [] case = "fixture-claim" -> [m EXCEPT !.manifest.mode = "host-safe", !.manifest.fixture = TRUE]
          [] case = "absolute-artifact" -> [m EXCEPT !.manifest.rows[1].path = "outside"]

TamperedEvents(events, case) ==
    CASE case = "host-mutation-true" -> [events EXCEPT ![1].hostMutation = TRUE]
      [] case \in {"private-field", "private-text"} -> [events EXCEPT ![1].private = TRUE]
      [] case = "nonmonotonic-seq" -> [events EXCEPT ![1].seq = 2]

\* The edits of a good protected-core manifest: to its rows, or to the samples of
\* its first row or of its cgroup row, cut to its one attached sample.
SuiteCases == {"missing-rows", "shared-runtime", "harness-runtime", "missing-abi", "missing-cgroup-map"}

TamperedSuite(m, case) ==
    LET Edit(s, samples) == [m EXCEPT !.files[s].samples = samples]
        all == m.files["live-backend"].samples
        attached == m.files[Cgroup].samples[2]
    IN  CASE case = "missing-rows" -> [m EXCEPT !.manifest.rows = SubSeq(@, 2, 2), !.manifest.rowCount = 1]
          [] case = "shared-runtime" -> [m EXCEPT !.files[Saturation].samplesLocal = FALSE]
          [] case = "harness-runtime" ->
                Edit("live-backend", [i \in DOMAIN all |-> [all[i] EXCEPT !.source = "vm_harness_matrix_row"]])
          [] case = "missing-abi" -> Edit(Cgroup, <<[attached EXCEPT !.abi = "v2"]>>)
          [] case = "missing-cgroup-map" -> Edit(Cgroup, <<[attached EXCEPT !.policy.knobs = FALSE]>>)

TelemetryCases == {"harness-generated", "eventless-numeric", "missing-fairness", "stale-enable-seq",
                   "missing-abi", "private-field", "release-claim"}

TamperedTelemetry(samples, case) ==
    CASE case = "harness-generated" -> [samples EXCEPT ![1].source = "vm_harness_matrix_row"]
      [] case = "eventless-numeric" -> [samples EXCEPT ![1].events = Unavailable, ![1].rejected = 0]
      [] case = "missing-fairness" -> [samples EXCEPT ![1].telemetry = FALSE]
      [] case = "stale-enable-seq" -> [samples EXCEPT ![1].enableSeq = 41, ![2].enableSeq = 40]
      [] case = "missing-abi" -> [samples EXCEPT ![1].abi = "v2"]
      [] case \in {"private-field", "release-claim"} -> [samples EXCEPT ![1].private = TRUE]
=============================================================================
