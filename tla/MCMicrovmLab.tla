---- MODULE MCMicrovmLab ----
(* Two runs in one repository, one of the live backend's sleep, one of a
   bounded workload, and every edit of a bundle that a self-test tries. *)
EXTENDS MicrovmLab
CONSTANTS r1, r2

MCScenario == (r1 :> "live-backend") @@ (r2 :> "bounded")
MCTampering == TamperCases
====
