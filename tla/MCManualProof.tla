---- MODULE MCManualProof ----
(* The proof job, and the harness at a desk in every mode, with fixture rows,
   forced and real missing tools, a scenario named twice, and no git. *)
EXTENDS ManualProof

Desk(mode, scenarios) ==
    [where |-> "desk", mode |-> mode, fixture |-> FALSE, forced |-> "", git |-> TRUE, scenarios |-> scenarios]

MCPlans ==
    {[Desk("vm-required", <<>>) EXCEPT !.where = "ci"],
     Desk("vm-required", <<"live-backend", "fixture-pass">>),
     Desk("vm-required", <<Saturation, "fixture-incident", "missing-qemu">>),
     Desk("host-safe", <<"live-backend", "fixture-pass">>),
     Desk("auto", <<"fixture-pass", "fixture-refuse", "missing-nix">>),
     Desk("host-safe", <<"fixture-pass", "fixture-pass">>),
     [Desk("host-safe", <<"live-backend", Saturation>>) EXCEPT !.fixture = TRUE],
     [Desk("auto", <<Saturation, Hotplug>>) EXCEPT !.forced = "stress-ng"],
     [Desk("vm-required", <<Saturation, Churn>>) EXCEPT !.forced = "taskset"],
     [Desk("host-safe", <<"fixture-pass">>) EXCEPT !.git = FALSE]}
====
