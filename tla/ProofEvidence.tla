---------------------------- MODULE ProofEvidence ----------------------------
(***************************************************************************)
(* The four proofs the manual VM proof job adds to a matrix run: the       *)
(* normalised reviewer approval, the runner's substrate, its cleanliness,  *)
(* and the evidence manifest that binds them.  For each, what              *)
(* .github/workflows/manual-vm-proof.yml writes and what the check in qa/  *)
(* accepts.  A proof is a record of the fields some check compares;        *)
(* wellFormed stands for its schema, closed field lists, path shapes and   *)
(* the private keys and texts that are scanned for.                        *)
(***************************************************************************)
EXTENDS MatrixEvidence

\* The proof has the fields of its schema and no other.
only_fields(proof) == proof.wellFormed

\* What no proof may claim.
Claims == [hostMutation |-> FALSE, release |-> FALSE, production |-> FALSE]
NoClaim(proof) == proof.claims = Claims

\* An artifact reference {path, sha256, schema_role}: the hash is right or not.
ref(role) == [role |-> role, sha |-> TRUE]
validate_ref(reference, role) == reference # Missing /\ reference.sha /\ reference.role = role

-----------------------------------------------------------------------------
(* protected-environment-review.json, qa/protected_environment_review_check.py *)

\* The approval rows of the API that select_review takes say all of this.
normalized_review ==
    [wellFormed |-> TRUE, status |-> "approved", environment |-> "vm-proof-manual", identity |-> "reviewer",
     comment |-> "acknowledged", runId |-> "run", runUrl |-> "run", apiUrl |-> "run", claims |-> Claims]

validate_review(review) ==
    /\ review # Missing
    /\ only_fields(review) /\ NoClaim(review)
    /\ review.runUrl = review.runId /\ review.apiUrl = review.runUrl
    /\ review.environment = "vm-proof-manual"
    /\ review.status = "approved" /\ review.identity # ""
    /\ review.comment = "acknowledged"

ReviewCases == {"api-url-repo-mismatch", "host-mutation-true", "malformed", "missing-reviewer-identity",
                "missing-run-url", "non-approved-state", "release-eligible-true", "run-url-id-mismatch",
                "wrong-comment", "wrong-env"}

TamperedReview(review, case) ==
    CASE case = "api-url-repo-mismatch" -> [review EXCEPT !.apiUrl = "other"]
      [] case = "host-mutation-true" -> [review EXCEPT !.claims.hostMutation = TRUE]
      [] case = "malformed" -> [review EXCEPT !.wellFormed = FALSE]
      [] case = "missing-reviewer-identity" -> [review EXCEPT !.identity = ""]
      [] case = "missing-run-url" -> [review EXCEPT !.runUrl = ""]
      [] case = "non-approved-state" -> [review EXCEPT !.status = "pending"]
      [] case = "release-eligible-true" -> [review EXCEPT !.claims.release = TRUE]
      [] case = "run-url-id-mismatch" -> [review EXCEPT !.runUrl = "other", !.apiUrl = "other"]
      [] case = "wrong-comment" -> [review EXCEPT !.comment = "other"]
      [] case = "wrong-env" -> [review EXCEPT !.environment = "other"]

-----------------------------------------------------------------------------
(* runner-substrate-proof.json, qa/runner_substrate_proof_check.py *)

Substrate == {"qemu", "version", "accel", "kvm", "release", "config", "btf", "sched_ext", "bpf"}

\* What the emitter finds lacking on the runner, reported one reason each.  The
\* version is asked of a qemu that is there, the accelerator of one with a version.
unavailable_reasons(lack, review) ==
    {r \in lack : /\ r = "version" => "qemu" \notin lack
                  /\ r = "accel" => {"qemu", "version"} \cap lack = {}}
      \cup (IF validate_review(review) THEN {} ELSE {"reviewer"})

substrate_proof(lack, review) ==
    LET reasons == unavailable_reasons(lack, review)
        usable == {"qemu", "version"} \cap lack = {}
    IN  [wellFormed |-> TRUE, claims |-> Claims, outcome |-> IF reasons = {} THEN "PASS" ELSE "SKIP",
         labels |-> TRUE, group |-> TRUE, name |-> TRUE,
         environment |-> "vm-proof-manual", runUrl |-> "run",
         reviewer |-> IF validate_review(review) THEN "approved" ELSE "unavailable",
         identity |-> IF validate_review(review) THEN review.identity ELSE "unavailable",
         review |-> ref("protected-environment-review"),
         qemu |-> usable, version |-> usable, kvm |-> ("kvm" \notin lack),
         accel |-> IF usable /\ {"kvm", "accel"} \cap lack = {} THEN "kvm" ELSE "unavailable",
         release |-> ("release" \notin lack), config |-> ("config" \notin lack),
         btf |-> ("btf" \notin lack), schedExt |-> ("sched_ext" \notin lack),
         bpf |-> IF "bpf" \in lack THEN "bpf-skip-json" ELSE "bpf-metadata",
         attestation |-> "pending-post-run-github-attestation", reasons |-> reasons]

validate_runner(p) == p.labels /\ (p.outcome = "PASS" => p.group /\ p.name)

validate_environment(p) ==
    /\ p.environment = "vm-proof-manual"
    /\ p.runUrl = "" => p.outcome # "PASS" /\ p.reviewer # "approved"
    /\ p.reviewer # "approved" => p.outcome # "PASS"

\* A mismatch would need a reason in the reference, which nobody writes.
validate_protected_review(p, review) ==
    /\ validate_ref(p.review, "protected-environment-review")
    /\ validate_review(review)
    /\ review.runUrl = p.runUrl /\ review.identity = p.identity

\* A placeholder config hash needs its reason; a pass needs all of the kernel.
validate_kernel(p) ==
    /\ p.config \/ (p.outcome # "PASS" /\ "config" \in p.reasons)
    /\ p.outcome = "PASS" => p.release /\ p.btf /\ p.schedExt

validate_substrate(p, review) ==
    /\ only_fields(p) /\ NoClaim(p)
    /\ p.outcome \in {"PASS", "SKIP", "REFUSE"}
    /\ validate_runner(p)
    /\ validate_environment(p)
    /\ validate_protected_review(p, review)
    /\ p.qemu => p.version
    /\ p.accel = "kvm" => p.qemu /\ p.kvm
    /\ p.outcome = "PASS" => p.qemu /\ p.kvm /\ p.accel = "kvm" /\ p.reasons = {}
    /\ p.outcome # "PASS" => p.reasons # {}
    /\ validate_kernel(p)
    /\ p.bpf = "bpf-skip-json" => p.outcome # "PASS"
    /\ p.attestation \in {"pending-post-run-github-attestation", "verified-by-operator", "unavailable"}
    /\ p.attestation = "unavailable" => p.outcome # "PASS"

\* The edits of the self-test and of fixtures/runner-substrate-proof/invalid, all
\* made to a proof that says PASS.
SubstrateCases == {"absolute-path", "missing-protected-review", "protected-review-hash-mismatch",
                   "protected-review-role-mismatch", "release-claim", "production-claim",
                   "fake-attestation-pass", "empty-qemu-version-pass", "missing-runner-group-pass",
                   "missing-runner-name-pass", "pass-bpf-skip-json", "pass-btf-unavailable",
                   "pass-placeholder-config-sha", "pass-reviewer-unavailable", "pass-sched-ext-unavailable",
                   "pass-tcg-accel", "pass-unsupported-release"}

TamperedSubstrate(p, case) ==
    CASE case = "absolute-path" -> [p EXCEPT !.wellFormed = FALSE]
      [] case = "missing-protected-review" -> [p EXCEPT !.review = Missing]
      [] case = "protected-review-hash-mismatch" -> [p EXCEPT !.review.sha = FALSE]
      [] case = "protected-review-role-mismatch" -> [p EXCEPT !.review.role = "runner-substrate-proof"]
      [] case = "release-claim" -> [p EXCEPT !.claims.release = TRUE]
      [] case = "production-claim" -> [p EXCEPT !.claims.production = TRUE]
      [] case = "fake-attestation-pass" -> [p EXCEPT !.attestation = "PASS"]
      [] case = "empty-qemu-version-pass" -> [p EXCEPT !.version = FALSE]
      [] case = "missing-runner-group-pass" -> [p EXCEPT !.group = FALSE]
      [] case = "missing-runner-name-pass" -> [p EXCEPT !.name = FALSE]
      [] case = "pass-bpf-skip-json" -> [p EXCEPT !.bpf = "bpf-skip-json"]
      [] case = "pass-btf-unavailable" -> [p EXCEPT !.btf = FALSE]
      [] case = "pass-placeholder-config-sha" -> [p EXCEPT !.config = FALSE]
      [] case = "pass-reviewer-unavailable" -> [p EXCEPT !.reviewer = "unavailable"]
      [] case = "pass-sched-ext-unavailable" -> [p EXCEPT !.schedExt = FALSE]
      [] case = "pass-tcg-accel" -> [p EXCEPT !.accel = "tcg"]
      [] case = "pass-unsupported-release" -> [p EXCEPT !.release = FALSE]

-----------------------------------------------------------------------------
(* runner-cleanliness-proof.json, qa/runner_cleanliness_proof_check.py *)

\* A receipt named by an environment variable must be a file of the right name,
\* size and words: anything else ends the step.
ReceiptOk(receipt) == receipt # "bad"

CleanlinessKind(r) == IF r.jit THEN "jit" ELSE IF r.ephemeral THEN "ephemeral" ELSE "clean_machine"

\* The registration receipt is only looked at on an ephemeral runner.
CleanlinessRefused(r) ==
    ~ReceiptOk(r.removal) \/ (CleanlinessKind(r) = "ephemeral" /\ ~ReceiptOk(r.registration))

\* r: the runner's environment, [jit, ephemeral, reused, claim, removal, registration].
cleanliness_proof(r) ==
    LET kind == CleanlinessKind(r)
        noReuse == IF r.claim /\ ~r.reused THEN "PASS" ELSE "REFUSE"
        removal == IF r.removal = "good" THEN "removed"
                   ELSE IF kind = "ephemeral" THEN "not_applicable" ELSE "unavailable"
        registration == IF kind = "ephemeral" /\ r.registration = "good"
                          THEN [role |-> "ephemeral-runner-registration-receipt", sha |-> TRUE, matches |-> TRUE]
                          ELSE Missing
        accounted == removal = "removed" \/ (kind = "ephemeral" /\ registration # Missing)
    IN  [wellFormed |-> TRUE, claims |-> Claims,
         outcome |-> IF noReuse = "PASS" /\ accounted THEN "PASS" ELSE "SKIP",
         runUrl |-> TRUE, labels |-> TRUE, kind |-> kind, proofOfKind |-> TRUE,
         noReuse |-> noReuse, sameRunner |-> r.reused,
         removal |-> removal, receiptSha |-> TRUE, registration |-> registration,
         review |-> ref("protected-environment-review"), substrate |-> ref("runner-substrate-proof")]

validate_no_reuse(p) == p.outcome = "PASS" => p.noReuse = "PASS" /\ ~p.sameRunner

\* Mutant: an ephemeral runner needs a removal receipt as well.
RemovalAlways(p) == (p.outcome = "PASS" => p.removal = "removed") /\ (p.removal = "removed" => p.receiptSha)

validate_removal(p) ==
    /\ p.outcome = "PASS" => p.removal = "removed" \/ (p.kind = "ephemeral" /\ p.removal = "not_applicable")
    /\ p.removal = "removed" => p.receiptSha

\* The receipt belongs to a pass without a removal receipt, and to nothing else.
validate_ephemeral_registration(p) ==
    IF p.outcome = "PASS" /\ p.kind = "ephemeral" /\ p.removal = "not_applicable"
      THEN validate_ref(p.registration, "ephemeral-runner-registration-receipt") /\ p.registration.matches
      ELSE p.registration = Missing

\* Mutant: a runner may serve two runs.
CleanlinessReused(p) ==
    /\ only_fields(p) /\ NoClaim(p) /\ p.outcome \in {"PASS", "SKIP", "REFUSE"}
    /\ p.labels /\ validate_removal(p) /\ validate_ephemeral_registration(p)

validate_cleanliness(p) ==
    /\ only_fields(p) /\ NoClaim(p)
    /\ p.outcome \in {"PASS", "SKIP", "REFUSE"}
    /\ p.outcome = "PASS" => p.runUrl /\ p.proofOfKind
    /\ p.labels
    /\ validate_no_reuse(p)
    /\ validate_removal(p)
    /\ validate_ephemeral_registration(p)
    /\ validate_ref(p.review, "protected-environment-review")
    /\ validate_ref(p.substrate, "runner-substrate-proof")

CleanlinessCases == {"reused-runner", "missing-removal", "labels-only", "release-claim",
                     "missing-ephemeral-registration", "missing-reviewer-artifact", "substrate-role-mismatch"}

\* The self-test's good proof is a JIT runner's; the registration case is the
\* one for an ephemeral runner.
CleanlinessApplies(case, p) ==
    /\ p.outcome = "PASS"
    /\ case = "missing-ephemeral-registration" => p.registration # Missing
    /\ case = "missing-removal" => p.removal = "removed"

TamperedCleanliness(p, case) ==
    CASE case = "reused-runner" -> [p EXCEPT !.sameRunner = TRUE]
      [] case = "missing-removal" -> [p EXCEPT !.removal = "unavailable"]
      [] case = "labels-only" -> [p EXCEPT !.proofOfKind = FALSE]
      [] case = "release-claim" -> [p EXCEPT !.claims.release = TRUE]
      [] case = "missing-ephemeral-registration" -> [p EXCEPT !.registration = Missing]
      [] case = "missing-reviewer-artifact" -> [p EXCEPT !.review.sha = FALSE]
      [] case = "substrate-role-mismatch" -> [p EXCEPT !.substrate.role = "protected-environment-review"]

-----------------------------------------------------------------------------
(* evidence-manifest.json, qa/evidence_manifest_check.py *)

REQUIRED_ROLES == {"matrix-row", "rollback-proof", "cleanup-proof", "host-refusal-proof", "privacy-scan",
                   "static-verification-log", "runner-substrate-proof", "runner-cleanliness-proof",
                   "protected-environment-review"}
BENCHMARK_NA_OUTCOMES == {"SKIP", "REFUSE", "BLOCKED"}

\* The runner's proofs come first, then refusals, skips and incidents of rows.
manifest_outcome(m, substrate, cleanliness) ==
    LET outcomes == {m.manifest.rows[i].outcome : i \in DOMAIN m.manifest.rows}
    IN  CASE substrate.outcome # "PASS" -> substrate.outcome
          [] cleanliness.outcome # "PASS" -> cleanliness.outcome
          [] "REFUSE" \in outcomes -> "REFUSE"
          [] "SKIP" \in outcomes -> "SKIP"
          [] outcomes \cap {"FAIL", "INCIDENT"} # {} -> "BLOCKED"
          [] OTHER -> "PASS"

ROW_ROLES == {"matrix-row", "rollback-proof", "cleanup-proof", "host-refusal-proof", "privacy-scan"}

\* How many artifacts there are of each role: every row brings one of each row
\* role, its scans and logs and its benchmark records.
role_counts(m, substrate) ==
    LET rows == DOMAIN m.manifest.rows
        bench == {i \in rows : RowOf(m, i).spec.bench # Missing}
    IN  [role \in REQUIRED_ROLES \cup {"matrix-manifest", "benchmark-provenance", "bpf-metadata", "bpf-skip-json"} |->
            CASE role \in ROW_ROLES -> Len(m.manifest.rows)
              [] role = "static-verification-log" -> 1 + MapThenSumSet(LAMBDA i : RowOf(m, i).logs, rows)
              [] role = "benchmark-provenance" -> MapThenSumSet(LAMBDA i : Len(RowOf(m, i).spec.bench), bench)
              [] role \in {"bpf-metadata", "bpf-skip-json"} -> IF role = substrate.bpf THEN 1 ELSE 0
              [] OTHER -> 1]

\* logs: the static logs can be scanned and hold nothing private.
evidence_manifest(m, substrate, cleanliness, logs) ==
    LET outcome == manifest_outcome(m, substrate, cleanliness)
        markers == {RowOf(m, i).present : i \in DOMAIN m.manifest.rows}
        bench == {i \in DOMAIN m.manifest.rows : RowOf(m, i).spec.bench # Missing}
    IN  [wellFormed |-> TRUE, claims |-> Claims, outcome |-> outcome,
         marker |-> IF outcome = "PASS" THEN markers = {TRUE} ELSE TRUE \in markers,
         counts |-> role_counts(m, substrate), inside |-> TRUE, sha |-> TRUE,
         rows |-> {m.manifest.rows[i].scenario : i \in DOMAIN m.manifest.rows},
         tuple |-> "tuple", git |-> "sha", bpf |-> substrate.bpf,
         bench |-> IF bench # {} THEN "records" ELSE "not_applicable", appliesTo |-> BENCHMARK_NA_OUTCOMES,
         private |-> ~logs, attestation |-> TRUE, tracked |-> TRUE]

validate_benchmark_not_applicable(e) ==
    e.outcome \in BENCHMARK_NA_OUTCOMES /\ e.outcome \in e.appliesTo

validate_evidence_manifest(e, review) ==
    /\ only_fields(e) /\ NoClaim(e)
    /\ e.outcome \in {"PASS", "SKIP", "REFUSE", "BLOCKED"}
    /\ e.outcome = "PASS" => e.marker
    /\ e.inside /\ e.sha
    /\ \A role \in REQUIRED_ROLES : e.counts[role] > 0
    /\ e.bench = "not_applicable" => validate_benchmark_not_applicable(e)
    /\ e.attestation /\ e.tracked
    /\ validate_review(review)
    /\ ~e.private

EvidenceCases == {"missing-hash", "absolute-path", "traversing-path", "missing-outcome", "missing-marker",
                  "missing-rollback", "missing-cleanup", "missing-host-refusal", "missing-protected-review",
                  "host-mutation", "release-eligible", "production-claim", "untracked-source",
                  "missing-attestation", "pass-benchmark-not-applicable", "refuse-benchmark-missing-outcome",
                  "private-artifact"}

\* All made to a manifest that says PASS.
TamperedEvidence(e, case) ==
    CASE case = "missing-hash" -> [e EXCEPT !.sha = FALSE]
      [] case \in {"absolute-path", "traversing-path"} -> [e EXCEPT !.inside = FALSE]
      [] case = "missing-outcome" -> [e EXCEPT !.outcome = Missing]
      [] case = "missing-marker" -> [e EXCEPT !.marker = FALSE]
      [] case = "missing-rollback" -> [e EXCEPT !.counts["rollback-proof"] = 0]
      [] case = "missing-cleanup" -> [e EXCEPT !.counts["cleanup-proof"] = 0]
      [] case = "missing-host-refusal" -> [e EXCEPT !.counts["host-refusal-proof"] = 0]
      [] case = "missing-protected-review" -> [e EXCEPT !.counts["protected-environment-review"] = 0]
      [] case = "host-mutation" -> [e EXCEPT !.claims.hostMutation = TRUE]
      [] case = "release-eligible" -> [e EXCEPT !.claims.release = TRUE]
      [] case = "production-claim" -> [e EXCEPT !.claims.production = TRUE]
      [] case = "untracked-source" -> [e EXCEPT !.tracked = FALSE]
      [] case = "missing-attestation" -> [e EXCEPT !.attestation = FALSE]
      [] case = "pass-benchmark-not-applicable" -> [e EXCEPT !.bench = "not_applicable", !.appliesTo = {"REFUSE"}]
      [] case = "refuse-benchmark-missing-outcome" ->
            [e EXCEPT !.outcome = "REFUSE", !.bench = "not_applicable", !.appliesTo = {"SKIP"}]
      [] case = "private-artifact" -> [e EXCEPT !.private = TRUE]

-----------------------------------------------------------------------------
(* qa/evidence_bundle_compare_check.py: two bundles, without their outcomes. *)

COMPARE_ROLES == (REQUIRED_ROLES \ {"static-verification-log"}) \cup {"matrix-manifest"}

reject_release_claims(e) == NoClaim(e)

benchmark_state(e) == <<e.bench, IF e.bench = "records" THEN e.counts["benchmark-provenance"] ELSE 0>>

index_bundle(e) ==
    /\ reject_release_claims(e)
    /\ e.inside /\ e.sha
    /\ \A role \in COMPARE_ROLES : e.counts[role] > 0
    /\ \A role \in {"matrix-manifest", "runner-substrate-proof", "protected-environment-review"} : e.counts[role] = 1
    /\ e.counts["bpf-metadata"] + e.counts["bpf-skip-json"] = 1

\* Mutant: the roles are compared, not how many artifacts each has.
CompareRoleSets(left, right, expected) ==
    /\ index_bundle(left) /\ index_bundle(right)
    /\ left.rows = right.rows
    /\ "tuple" \in expected \/ left.tuple = right.tuple
    /\ "bpf" \in expected \/ left.bpf = right.bpf

\* expected: the changes the caller has announced.
compare(left, right, expected) ==
    /\ index_bundle(left) /\ index_bundle(right)
    /\ left.counts = right.counts
    /\ left.rows = right.rows
    /\ "tuple" \in expected \/ left.tuple = right.tuple
    /\ "git" \in expected \/ left.git = right.git
    /\ "bpf" \in expected \/ left.bpf = right.bpf
    /\ benchmark_state(left) = benchmark_state(right)

CompareCases == {"missing-cleanup", "row-mismatch", "bpf-mismatch", "tuple-mismatch", "production-claim", "unsafe-path"}

TamperedBundle(e, case) ==
    CASE case = "missing-cleanup" -> [e EXCEPT !.counts["cleanup-proof"] = 0]
      [] case = "row-mismatch" -> [e EXCEPT !.rows = {"live-backend"}]
      [] case = "bpf-mismatch" -> [e EXCEPT !.bpf = "other"]
      [] case = "tuple-mismatch" -> [e EXCEPT !.tuple = "other"]
      [] case = "production-claim" -> [e EXCEPT !.claims.production = TRUE]
      [] case = "unsafe-path" -> [e EXCEPT !.inside = FALSE]
=============================================================================
