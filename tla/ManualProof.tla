----------------------------- MODULE ManualProof -----------------------------
(***************************************************************************)
(* The VM harness matrix (qa/vm/vm_harness_matrix.sh), at somebody's desk  *)
(* or inside the manual VM proof job of                                    *)
(* .github/workflows/manual-vm-proof.yml.                                  *)
(*                                                                         *)
(* The harness works through its scenarios one by one; while it does, the  *)
(* repository, the VM marker file and the installed tools may change, the  *)
(* guest of a live scenario may misbehave and a process or directory of it *)
(* may be left behind.  It reads the marker and the tools several times    *)
(* for one row.  Its manifest is then checked by the matrix contract; the  *)
(* job goes on to the protected-core gates, the reviewer's approval, the   *)
(* runner's two proofs and the evidence manifest, and packages the bundle  *)
(* unless one of its checks fails.                                         *)
(***************************************************************************)
EXTENDS ProofEvidence

CONSTANTS
    Plans,           \* invocations: [where, mode, fixture, forced, git, scenarios], <<>> for the suite
    MaxAttempts,     \* requests for the approval: one more than retry_delays has entries
    MaxDisturbances  \* bound on what goes wrong in one behaviour

ASSUME ProofAssumption ==
    /\ MaxAttempts \in Nat \ {0}
    /\ MaxDisturbances \in Nat
    /\ \A p \in Plans : p.where = "ci" => p.mode = "vm-required" /\ p.scenarios = <<>> /\ ~p.fixture /\ p.git

VARIABLES
    plan,        \* the arguments, and the scenarios once they are selected
    env,         \* what the harness reads of the machine: HEAD, dirty, marker, absent tools
    pc,          \* the step the harness, then the job, is at
    h,           \* the harness's shell variables
    seen,        \* by scenario, what really happened (not read by any check)
    matrix,      \* the output directory: [manifest, files, events]
    job,         \* the proofs in evidence/lab/manual-vm-proof
    disturbances \* so far

vars == <<plan, env, pc, h, seen, matrix, job, disturbances>>

Spend(cost) ==
    /\ disturbances + cost <= MaxDisturbances
    /\ disturbances' = disturbances + cost

Disturb(bad) == Spend(IF bad THEN 1 ELSE 0)

HarnessSteps == {"select", "begin", "backend", "row", "manifest"}

-----------------------------------------------------------------------------
(* The machine, while the harness runs. *)

\* Another commit lands in the working tree: not in the job's checkout.
Commit ==
    /\ pc \in HarnessSteps /\ plan.where = "desk"
    /\ Disturb(TRUE)
    /\ env' = [env EXCEPT !.head = @ + 1]
    /\ UNCHANGED <<plan, pc, h, seen, matrix, job>>

MarkerChanges ==
    /\ pc \in HarnessSteps /\ plan.where = "desk"
    /\ Disturb(TRUE)
    /\ env' = [env EXCEPT !.marker = ~@]
    /\ UNCHANGED <<plan, pc, h, seen, matrix, job>>

\* A package is installed or removed.
ToolChanges ==
    /\ pc \in HarnessSteps
    /\ Disturb(TRUE)
    /\ \E tool \in {"stress-ng", "cyclictest"} :
         env' = [env EXCEPT !.absent = SymDiff(@, {tool})]
    /\ UNCHANGED <<plan, pc, h, seen, matrix, job>>

-----------------------------------------------------------------------------
(* qa/vm/vm_harness_matrix.sh: what a scenario is probed for. *)

\* "" if nothing is missing; without a forced answer only vm-required looks.
workload_missing_prereq(s) ==
    LET lacking == IF plan.forced # "" THEN {plan.forced} ELSE IF plan.mode = "vm-required" THEN env.absent ELSE {}
        needed == IF is_workload_scenario(s) THEN RequiredTools(s) \cap lacking ELSE {}
    IN  IF needed = {} THEN "" ELSE CHOOSE tool \in needed : TRUE

Shape(outcome, mode) == [outcome |-> outcome, mode |-> mode, marker |-> (mode = "vm-live")]

RefuseOrSkip == Shape(IF plan.mode = "vm-required" THEN "REFUSE" ELSE "SKIP", "host-refusal-only")

fixture_shape_or_vm_live(outcome) ==
    IF env.marker THEN Shape(outcome, "vm-live")
    ELSE IF plan.mode = "vm-required" THEN RefuseOrSkip ELSE Shape(outcome, "fixture")

scenario_shape(s) ==
    CASE s = "fixture-pass" -> fixture_shape_or_vm_live("PASS")
      [] s \in {"missing-qemu", "missing-kvm", "missing-kernel", "missing-nix", "missing-workload"} -> RefuseOrSkip
      [] s = "fixture-refuse" -> Shape("REFUSE", "host-refusal-only")
      [] s \in {"fixture-incident", "fixture-timeout"} -> fixture_shape_or_vm_live("INCIDENT")
      [] OTHER -> IF workload_missing_prereq(s) # "" THEN RefuseOrSkip ELSE fixture_shape_or_vm_live("PASS")

select_suite_scenarios ==
    <<"live-backend", Saturation, Cgroup, IF workload_missing_prereq(Latency) = "" THEN Latency ELSE Churn>>

IsLive(s) == s = "live-backend" \/ (is_workload_scenario(s) /\ plan.mode = "vm-required")

-----------------------------------------------------------------------------
(* qa/vm/vm_lab_backend.sh on top of the microVM runner (MicrovmLab): one   *)
(* guest each, of which only what reaches the serial log matters here.      *)

\* What the guest's reads of the scheduler's maps may lack: the policy map, the
\* DSQ evidence, one of the counters, or the generation of a move.
PolicyFaults == {"silent", "no-dsq", "no-init", "no-weight", "no-generation", "unmoved", "uncalled", "unobserved"}

GuestRuns == {"nominal", "ejected", "failed", "hung"} \cup PolicyFaults

\* Six of them differ only in what the suite check makes of the samples: a run with
\* one is otherwise undisturbed.
GuestCost(g) ==
    IF g = "nominal" THEN 0
    ELSE IF g \in PolicyFaults \ {"silent", "unobserved"} THEN MaxDisturbances ELSE 1

GuestFacts(attached, g) ==
    [state |-> IF attached THEN "enabled" ELSE "disabled", ops |-> IF attached THEN Minimal ELSE "",
     enableSeq |-> IF attached THEN 1 ELSE 0, rejected |-> 0, alive |-> TRUE, member |-> TRUE,
     weight |-> IF ~attached \/ g = "silent" THEN "none" ELSE IF g \in PolicyFaults THEN g ELSE "observed"]

\* An ejected scheduler has its rejected counter grown by the last sample.
GuestSerial == [g \in GuestRuns |->
    <<[event |-> "boot"], [event |-> "tuple", btf |-> TRUE], [event |-> "workload"],
      [event |-> "before", facts |-> GuestFacts(FALSE, g)]>>
    \o emit_mutation_families({})
    \o <<[event |-> "register", rc |-> 0, facts |-> GuestFacts(TRUE, g)],
         [event |-> "unregister", rc |-> 0,
          facts |-> [GuestFacts(FALSE, g) EXCEPT !.rejected = IF g = "ejected" THEN 1 ELSE 0, !.enableSeq = 1]],
         [event |-> "stale_target_refusal", status |-> "REFUSE", rc |-> 23],
         [event |-> "duplicate_rollback_refusal", status |-> "REFUSE", rc |-> 1],
         [event |-> "workload_execution", status |-> IF g = "failed" THEN "FAIL" ELSE "PASS"]>>]

LiveBundle(s, g) ==
    LET git == [head |-> env.head, dirty |-> env.dirty, objectSha |-> "object", snapshot |-> None,
                scanBefore |-> TRUE, scanAfter |-> TRUE]
    IN  IF g = "hung" THEN [NoBundle EXCEPT !.summary = emit_timeout_report(git)]
        ELSE IF ~parse_serial(GuestSerial[g]) THEN Missing
        ELSE [Outputs(git, GuestSerial[g], IF s = "live-backend" THEN s ELSE "bounded")
                EXCEPT !.summary = summary_payload(git)]

\* The runner exits 0 only after its own three checks; what it wrote stays.  The
\* wrapper copies the audit id of the live summary, which ends in the runner's commit.
BackendResult(g, live) ==
    LET ok == /\ live # Missing /\ g # "hung"
              /\ validate_evidence(live.partial) /\ validate_observe(live) /\ validate_file(live.samples)
    IN  [rc |-> IF ok THEN 0 ELSE 1,
         summary |-> [status |-> IF ok THEN "PASS" ELSE "REFUSE", mode |-> plan.mode, live |-> live,
                      audit |-> IF live = Missing THEN Missing ELSE live.summary.head, canonical |-> TRUE]]

\* Without qemu, kvm, a kernel or nix there is no guest.
BackendPrereq ==
    [rc |-> IF plan.mode = "vm-required" THEN 1 ELSE 0,
     summary |-> [status |-> RefuseOrSkip.outcome, mode |-> plan.mode, live |-> Missing, audit |-> Missing,
                  canonical |-> TRUE]]

live_backend_pass_shape(b) ==
    /\ b.summary # Missing /\ b.summary.status = "PASS" /\ b.summary.canonical
    /\ b.summary.live # Missing
    /\ b.summary.live.summary.status = "PASS" /\ b.summary.live.summary.mode = "vm-live"
    /\ validate_bundle(b.summary.live)
    /\ ~b.summary.live.summary.dirty
    /\ b.summary.live.summary.head = b.summary.audit

\* The workload's own gate looks at the samples, not at the bundle or the commit.
live_workload_pass_shape(s, b) ==
    /\ b.summary # Missing /\ b.summary.status = "PASS" /\ b.summary.canonical
    /\ b.summary.live # Missing /\ b.summary.live.samples # <<>>
    /\ validate_vm_captured_input(b.summary.live.samples, s)
    /\ b.summary.live.summary.status = "PASS" /\ b.summary.live.summary.mode = "vm-live"
    /\ ~b.summary.live.summary.dirty
    /\ b.summary.live.observe.workload.status = "PASS"

live_shape(s, b) ==
    IF b.rc = 0 /\ (IF s = "live-backend" THEN live_backend_pass_shape(b) ELSE live_workload_pass_shape(s, b))
      THEN Shape("PASS", "vm-live")
      ELSE Shape(IF b.rc = 124 THEN "INCIDENT" ELSE "REFUSE", "host-refusal-only")

-----------------------------------------------------------------------------
(* The harness. *)

NotSeen == [guest |-> "none", first |-> "", second |-> "", residue |-> FALSE, late |-> FALSE]
NoBackend == [rc |-> 0, summary |-> Missing]
NoProofs == [why |-> "", attempt |-> 1, lack |-> {}, runner |-> Missing, logs |-> TRUE, review |-> Missing,
             substrate |-> Missing, cleanliness |-> Missing, evidence |-> Missing]

ScenarioNow == plan.scenarios[h.i]

\* select_suite_scenarios, initialize_run_dir: HEAD is read once, for all rows.
Select ==
    /\ pc = "select"
    /\ plan' = [plan EXCEPT !.scenarios = IF @ = <<>> THEN select_suite_scenarios ELSE @]
    /\ h' = [h EXCEPT !.sha = IF plan.git THEN env.head ELSE UnknownSha]
    /\ seen' = [s \in ToSet(plan'.scenarios) |-> NotSeen]
    /\ pc' = "begin"
    /\ UNCHANGED <<env, matrix, job, disturbances>>

emit_event(events, name, status) ==
    Append(events, event(Len(events) + 1, name, status, ScenarioNow, h.sha))

\* stage_started, and the first look at the tools and the marker.
Begin ==
    /\ pc = "begin"
    /\ LET s == ScenarioNow
           missing == workload_missing_prereq(s)
           live == IsLive(s) /\ (s = "live-backend" \/ missing = "")
           shape == IF IsLive(s) THEN RefuseOrSkip ELSE scenario_shape(s)
       IN  /\ h' = IF live THEN h
                   ELSE [h EXCEPT !.shape = shape,
                                  !.fixture = @ \/ shape.mode = "fixture",
                                  !.rc = IF IsLive(s) THEN 1 ELSE @]
           /\ seen' = [seen EXCEPT ![s].first = missing]
           /\ pc' = IF live THEN "backend" ELSE "row"
    /\ matrix' = [matrix EXCEPT !.events = emit_event(@, "stage_started", "STARTED")]
    /\ UNCHANGED <<plan, env, job, disturbances>>

\* The delegation, and the shape of the row it gives: rc 99 under --fixture.  A
\* timeout may find the backend still at work or just done: bash defers the
\* signal until its child is gone and goes on to write a summary.
Backend ==
    /\ pc = "backend"
    /\ LET s == ScenarioNow
           Done(b, guest, cost, late) ==
               LET shape == live_shape(s, b)
               IN  /\ Spend(cost)
                   /\ h' = [h EXCEPT !.shape = shape, !.backend = b,
                                     !.rc = IF shape.outcome = "INCIDENT"
                                               \/ (shape.outcome = "REFUSE" /\ plan.mode = "vm-required")
                                            THEN 1 ELSE @]
                   /\ seen' = [seen EXCEPT ![s].guest = guest, ![s].late = late]
       IN  \/ plan.fixture /\ Done([NoBackend EXCEPT !.rc = 99], "none", 0, FALSE)
           \/ ~plan.fixture /\ Done(BackendPrereq, "none", 1, FALSE)
           \/ ~plan.fixture /\ Done([NoBackend EXCEPT !.rc = 124], "none", 1, TRUE)
           \/ /\ ~plan.fixture
              /\ \E g \in {r \in GuestRuns : disturbances + GuestCost(r) <= MaxDisturbances} :
                 \E live \in {LiveBundle(s, g)} : \E b \in {BackendResult(g, live)} :
                    \/ Done(b, g, GuestCost(g), FALSE)
                    \/ g = "nominal" /\ Done([b EXCEPT !.rc = 124], g, 1, TRUE)
    /\ pc' = "row"
    /\ UNCHANGED <<plan, env, matrix, job>>

RowEvent(s, outcome) ==
    IF s = "live-backend" THEN "validation"
    ELSE IF outcome = "PASS" THEN "validation"
    ELSE IF outcome \in {"SKIP", "REFUSE"} THEN "refusal" ELSE "incident"

\* The texts in the row's directory: four scans, and what the backend printed.
RowLogs == 4 + (IF h.backend = NoBackend THEN 0 ELSE IF h.backend.rc = 99 THEN 1 ELSE 2)

\* write_matrix_row with its scans and its second look at the tools, the
\* overlay, the three closing events, the line in the manifest, the exit code.
Row ==
    /\ pc = "row"
    /\ \E residue \in BOOLEAN :
         LET s == ScenarioNow
             outcome == IF residue THEN "FAIL" ELSE h.shape.outcome
             missing == workload_missing_prereq(s)
             written == [row(s, outcome, h.shape, h.sha, missing) EXCEPT !.logs = RowLogs]
             closing == emit_event(emit_event(emit_event(matrix.events, RowEvent(s, outcome), outcome),
                                              "rollback", "PASS"), "cleanup", "PASS")
         IN  /\ Disturb(residue)
             /\ matrix' = [matrix EXCEPT
                  !.files = [f \in DOMAIN @ \cup {s} |->
                               IF f # s THEN @[f] ELSE IF IsLive(s) THEN overlay(written, h.backend.summary) ELSE written],
                  !.events = closing,
                  !.manifest = Append(@, manifest_row(s, outcome))]
             /\ seen' = [seen EXCEPT ![s].second = missing, ![s].residue = residue]
             /\ h' = [h EXCEPT !.i = @ + 1, !.backend = NoBackend,
                               !.rc = IF ~IsLive(s) /\ plan.mode = "vm-required" /\ outcome \in {"REFUSE", "SKIP"}
                                      THEN 1 ELSE @]
    /\ pc' = IF h.i = Len(plan.scenarios) THEN "manifest" ELSE "begin"
    /\ UNCHANGED <<plan, env, job>>

Manifest ==
    /\ pc = "manifest"
    /\ matrix' = [matrix EXCEPT !.manifest = manifest(plan.mode, h.fixture, @)]
    /\ pc' = "contract"
    /\ UNCHANGED <<plan, env, h, seen, job, disturbances>>

\* Killed before the manifest is written: the next step finds none.
Kill ==
    /\ pc \in HarnessSteps
    /\ Disturb(TRUE)
    /\ matrix' = [matrix EXCEPT !.manifest = Missing]
    /\ pc' = "contract"
    /\ UNCHANGED <<plan, env, h, seen, job>>

-----------------------------------------------------------------------------
(* The job, after the harness. *)

Fails(why) == pc' = "failed" /\ job' = [job EXCEPT !.why = why]

ContractOk == matrix.manifest # Missing /\ validate_manifest(matrix)

\* matrix_run_contract_check --manifest; at a desk that is the end.
Contract ==
    /\ pc = "contract"
    /\ IF ContractOk THEN pc' = (IF plan.where = "ci" THEN "gates" ELSE "accepted") /\ UNCHANGED job
       ELSE Fails("contract")
    /\ UNCHANGED <<plan, env, h, seen, matrix, disturbances>>

AllPass == \A i \in DOMAIN matrix.manifest.rows : matrix.manifest.rows[i].outcome = "PASS"

\* Mutant: the gates on a passing suite are not run.
GatesSkipped ==
    /\ pc = "gates"
    /\ pc' = "review" /\ UNCHANGED <<plan, env, h, seen, matrix, job, disturbances>>

\* The suite and telemetry checks are for a passing suite; a failed exit code
\* needs a row that says so.
Gates ==
    /\ pc = "gates"
    /\ IF AllPass /\ ~(validate_suite(matrix) /\ validate_telemetry_manifest(matrix)) THEN Fails("suite")
       ELSE IF h.rc # 0 /\ AllPass THEN Fails("exit code")
       ELSE pc' = "review" /\ UNCHANGED job
    /\ UNCHANGED <<plan, env, h, seen, matrix, disturbances>>

\* Mutant: the count of requests starts over when it is used up.
ReviewForever ==
    /\ pc = "review"
    /\ \E answer \in {"approved", "transient"} :
         /\ Disturb(FALSE)
         /\ IF answer = "approved" THEN job' = [job EXCEPT !.review = normalized_review] /\ pc' = "substrate"
            ELSE pc' = "review" /\ job' = [job EXCEPT !.attempt = (@ % MaxAttempts) + 1]
    /\ UNCHANGED <<plan, env, h, seen, matrix>>

\* One request for the approvals of this run.  An answer without the approval,
\* or a 429 or 5xx, is tried again; any other error ends the job.
Review ==
    /\ pc = "review"
    /\ \E answer \in {"approved", "not yet", "transient", "fatal"} :
         /\ Disturb(answer = "fatal")
         /\ IF answer = "approved"
              THEN /\ job' = [job EXCEPT !.review = normalized_review]
                   /\ IF validate_review(normalized_review) THEN pc' = "substrate" ELSE pc' = "failed"
            ELSE IF answer = "fatal" \/ job.attempt = MaxAttempts THEN Fails("review")
            ELSE pc' = "review" /\ job' = [job EXCEPT !.attempt = @ + 1]
    /\ UNCHANGED <<plan, env, h, seen, matrix>>

\* The runner lacks nothing, or one thing.
SubstrateStep ==
    /\ pc = "substrate"
    /\ \E lack \in {{}} \cup {{x} : x \in Substrate} :
         LET proof == substrate_proof(lack, job.review)
         IN  /\ Disturb(lack # {})
             /\ IF validate_substrate(proof, job.review)
                  THEN job' = [job EXCEPT !.substrate = proof, !.lack = lack] /\ pc' = "cleanliness"
                  ELSE Fails("substrate")
    /\ UNCHANGED <<plan, env, h, seen, matrix>>

\* The three ways a runner is set up to prove it is clean, and one deviation.
GoodRunners ==
    {[jit |-> TRUE, ephemeral |-> FALSE, reused |-> FALSE, claim |-> TRUE, removal |-> "good", registration |-> "none"],
     [jit |-> FALSE, ephemeral |-> TRUE, reused |-> FALSE, claim |-> TRUE, removal |-> "none", registration |-> "good"],
     [jit |-> FALSE, ephemeral |-> FALSE, reused |-> FALSE, claim |-> TRUE, removal |-> "good", registration |-> "none"]}

Deviations(r) ==
    {[r EXCEPT !.reused = TRUE], [r EXCEPT !.claim = FALSE], [r EXCEPT !.jit = ~@], [r EXCEPT !.ephemeral = ~@]}
      \cup {[r EXCEPT !.removal = x] : x \in {"none", "good", "bad"} \ {r.removal}}
      \cup {[r EXCEPT !.registration = x] : x \in {"none", "good", "bad"} \ {r.registration}}

CleanlinessStep ==
    /\ pc = "cleanliness"
    /\ \E good \in GoodRunners : \E runner \in {good} \cup Deviations(good) :
         /\ Disturb(runner # good)
         /\ IF CleanlinessRefused(runner) THEN Fails("receipt")
            ELSE IF ~validate_cleanliness(cleanliness_proof(runner))
              THEN pc' = "failed" /\ job' = [job EXCEPT !.why = "cleanliness", !.runner = runner]
            ELSE /\ job' = [job EXCEPT !.cleanliness = cleanliness_proof(runner), !.runner = runner]
                 /\ pc' = "evidence"
    /\ UNCHANGED <<plan, env, h, seen, matrix>>

\* The evidence manifest over everything; once it is accepted the bundle is
\* packed, uploaded and attested.
EvidenceStep ==
    /\ pc = "evidence"
    /\ \E logs \in BOOLEAN :
         LET e == evidence_manifest(matrix, job.substrate, job.cleanliness, logs)
         IN  /\ Disturb(~logs)
             /\ IF e.outcome = "PASS" /\ e.bench # "records" THEN Fails("evidence")
                ELSE IF validate_evidence_manifest(e, job.review)
                  THEN pc' = "packaged" /\ job' = [job EXCEPT !.evidence = e]
                  ELSE pc' = "failed" /\ job' = [job EXCEPT !.why = "evidence", !.logs = logs]
    /\ UNCHANGED <<plan, env, h, seen, matrix>>

-----------------------------------------------------------------------------
(* Properties. *)

\* The harness is done: what it wrote is about to be checked, and does not change.
Written == pc = "contract" /\ matrix.manifest # Missing

\* A row whose tool went missing while it was at work, or was missing when
\* residue turned a refusal into a failure.
ToolLost(s) == seen[s].second # "" /\ (seen[s].residue \/ (seen[s].first = "" /\ matrix.files[s].outcome # "REFUSE"))

\* A refused workload whose half-good samples were copied into its row.
BadSamplesKept(s) == IsLive(s) /\ s # "live-backend" /\ seen[s].guest = "unobserved"

\* Rows of a real VM next to fixture rows, or under --fixture.
MixedModes ==
    /\ h.fixture /\ plan.mode # "vm-required"
    /\ \E s \in DOMAIN seen : matrix.files[s].mode = "vm-live"

\* A live backend that passed on another commit than the one in the rows.
HeadMoved ==
    \E s \in DOMAIN seen \cap {"live-backend"} :
        matrix.files[s].outcome = "PASS" /\ matrix.files[s].backend.live.summary.head # h.sha

\* The harness writes what its own contract check accepts, except in exactly
\* these cases: no git, a scenario named twice, a tool lost between two probes
\* of one row, samples of a refused guest kept, fixture and VM rows mixed, HEAD
\* moved.  The workflow counts on it: "non-PASS SKIP/REFUSE/INCIDENT/FAIL/BLOCKED
\* bundles remain packageable with explicit reasons".
OwnManifestExplained ==
    Written =>
        (~validate_manifest(matrix) <=>
            \/ ~plan.git
            \/ ~IsInjective(plan.scenarios)
            \/ \E s \in DOMAIN seen : ToolLost(s) \/ BadSamplesKept(s)
            \/ MixedModes
            \/ HeadMoved)

\* The job fails, and leaves no bundle, for these reasons only.  Two are about
\* proofs it wrote itself: an ephemeral runner's registration receipt is refused
\* unless the proof passes without a removal receipt, and a passing suite is
\* refused only for what the guest of the cgroup row could read of its scheduler's
\* maps: no policy map or no DSQ evidence, or with both no cgroup init, no weight
\* value, no weight generation, no weight callback, or moves without a generation.
\* Those are in no other check: the guest's own samples pass, and so do its row
\* and the backend.
JobFailureExplained ==
    pc = "failed" /\ plan.where = "ci" =>
        \/ job.why = "contract" /\ (matrix.manifest = Missing \/ ~validate_manifest(matrix))
        \/ job.why = "suite" /\ seen[Cgroup].guest \in PolicyFaults \ {"unobserved"}
        \/ job.why \in {"review", "receipt"}
        \/ /\ job.why = "cleanliness"
           /\ ~job.runner.jit /\ job.runner.ephemeral /\ job.runner.registration = "good"
           /\ job.runner.removal = "good" \/ ~job.runner.claim \/ job.runner.reused
        \/ job.why = "evidence" /\ ~job.logs

\* A bundle that says PASS: each of the four guests attached, rolled back and
\* finished its workload, in time and leaving nothing behind; that of the cgroup
\* row read all of its scheduler's maps, with the weight callback in them; the
\* backend's summary is one lab_summary_check accepts; the reviewer approved; the
\* runner had everything and was not used before; the live backend ran the commit
\* in the rows, unmodified.  (A scheduler the kernel threw out is noticed in the
\* live backend only.)
ProofPassWasReal ==
    pc = "packaged" /\ job.evidence.outcome = "PASS" =>
        /\ \A s \in DOMAIN seen :
              /\ seen[s].guest \notin {"none", "failed", "hung", "unobserved"} /\ ~seen[s].residue /\ ~seen[s].late
              /\ \A i \in DOMAIN matrix.files[s].samples :
                    matrix.files[s].samples[i].source = "vm_serial_sched_ext"
        /\ seen["live-backend"].guest # "ejected" /\ seen[Cgroup].guest \notin PolicyFaults
        /\ validate_backend_run_summary(matrix.files["live-backend"].backend)
        /\ h.rc = 0 /\ h.sha = env.head /\ ~env.dirty
        /\ job.review.status = "approved" /\ job.lack = {}
        /\ job.runner.claim /\ ~job.runner.reused

\* What the comparison is given as the other side: the bundle of a run in which
\* nothing went wrong.
NominalBundle ==
    LET suite == <<"live-backend", Saturation, Cgroup, Latency>>
        files == [s \in ToSet(suite) |-> [row(s, "PASS", Shape("PASS", "vm-live"), 1, "") EXCEPT !.logs = 6]]
    IN  evidence_manifest([manifest |-> manifest("vm-required", FALSE, [i \in 1 .. 4 |-> manifest_row(suite[i], "PASS")]),
                           files |-> files, events |-> <<>>],
                          substrate_proof({}, normalized_review), [outcome |-> "PASS"], TRUE)

\* Two bundles compare exactly when they hold the same kind of run, not when it
\* went equally well: a packaged bundle compares with that of a flawless run
\* unless it took the churn row, a workload's tool was missing at one of the two
\* probes of its row, or there was no object.  A timed-out, refused or residual
\* guest, an unclean runner, make no difference to it.
ComparableExplained ==
    pc = "packaged" =>
        /\ compare(NominalBundle, job.evidence, {}) <=>
              /\ Latency \in DOMAIN seen /\ "bpf" \notin job.lack
              /\ \A s \in DOMAIN seen : seen[s].first = "" /\ seen[s].second = ""
        /\ \A case \in CompareCases : ~compare(job.evidence, TamperedBundle(job.evidence, case), {})

ManifestOfPass == \E i \in DOMAIN matrix.manifest.rows : Applies("stale-git", RowOf(matrix, i))

\* Every edit the self-tests and the invalid fixtures make to a good row (which
\* the manifest's check then refuses with it), manifest or proof is refused, made to any evidence the harness and the job
\* can produce.
TamperedProofRejected ==
    /\ pc \in {"accepted", "gates"} =>
         /\ \A i \in DOMAIN matrix.manifest.rows, case \in RowEdits :
               Applies(case, RowOf(matrix, i)) =>
                   ~validate_manifest_row(TamperedRow(RowOf(matrix, i), case), matrix)
         /\ ManifestOfPass => \A case \in ManifestCases : ~validate_manifest(TamperedManifest(matrix, case))
         /\ \A case \in EventCases : ~validate_events(TamperedEvents(matrix.events, case))
    /\ pc = "gates" /\ AllPass /\ validate_suite(matrix) =>
         /\ \A case \in SuiteCases : ~validate_suite(TamperedSuite(matrix, case))
         /\ \A i \in DOMAIN matrix.manifest.rows, case \in TelemetryCases :
               ~validate_vm_captured_input(TamperedTelemetry(RowOf(matrix, i).samples, case), RowOf(matrix, i).scenario)
    /\ pc = "packaged" =>
         /\ \A case \in ReviewCases : ~validate_review(TamperedReview(job.review, case))
         /\ job.substrate.outcome = "PASS" =>
               \A case \in SubstrateCases : ~validate_substrate(TamperedSubstrate(job.substrate, case), job.review)
         /\ \A case \in CleanlinessCases :
               CleanlinessApplies(case, job.cleanliness) =>
                   ~validate_cleanliness(TamperedCleanliness(job.cleanliness, case))
         /\ job.evidence.outcome = "PASS" =>
               \A case \in EvidenceCases : ~validate_evidence_manifest(TamperedEvidence(job.evidence, case), job.review)

\* The job ends, whatever the guests and the approvals API do: timeout(1) ends
\* a backend, the requests are counted.
JobEnds == pc = "select" ~> pc \in {"accepted", "failed", "packaged"}

-----------------------------------------------------------------------------
Init ==
    /\ plan \in Plans
    /\ env \in [head : {1}, dirty : BOOLEAN, marker : IF plan.where = "ci" THEN {FALSE} ELSE BOOLEAN,
                absent : {{}, {"cyclictest"}}]
    /\ pc = "select"
    /\ h = [sha |-> UnknownSha, i |-> 1, shape |-> Shape("SKIP", "fixture"), backend |-> NoBackend, fixture |-> plan.fixture,
            rc |-> 0]
    /\ seen = <<>>
    /\ matrix = [manifest |-> <<>>, files |-> <<>>, events |-> <<>>]
    /\ job = NoProofs
    /\ disturbances = 0

HarnessNext == Select \/ Begin \/ Backend \/ Row \/ Manifest
JobNext == Contract \/ Gates \/ Review \/ SubstrateStep \/ CleanlinessStep \/ EvidenceStep

Next == Commit \/ MarkerChanges \/ ToolChanges \/ Kill \/ HarnessNext \/ JobNext

\* The shell goes on to its next command; the backend ends by itself or by timeout(1).
Spec == Init /\ [][Next]_vars /\ WF_vars(HarnessNext) /\ WF_vars(JobNext)
=============================================================================
