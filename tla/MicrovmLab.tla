------------------------------ MODULE MicrovmLab ------------------------------
(***************************************************************************)
(* The microVM live lab: qa/vm/run_microvm_live_lab.sh builds the BPF      *)
(* object, reads the git state, boots a throw-away guest, and turns the    *)
(* guest's serial log into an evidence bundle (qa/vm/microvm_report_*.py). *)
(* The bundle is judged later, against whatever the working tree is then,  *)
(* by the checks of the release gate.  The checks themselves are the pure  *)
(* operators of LabEvidence; this module is about who writes what when.    *)
(*                                                                         *)
(* Three parties interleave: the developer (tree), the runs (each with its *)
(* own output directory, all under one parent, so that they share one      *)
(* manifest-provenance.json), and the guests.  A guest may deviate from    *)
(* the nominal script, may panic with a torn last line, or may hang until  *)
(* timeout(1) ends it.                                                     *)
(***************************************************************************)
EXTENDS LabEvidence

CONSTANTS
    Runs,            \* lab runs, each with a fresh --out directory
    Scenario,        \* Runs -> Scenarios, the --scenario argument
    Faulty,          \* the runs whose guest may leave its script
    Contents,        \* what the BPF source, or the rest of the worktree, may hold
    MaxDisturbances, \* bound on git commands, edits, guest faults and kills in all
    Tampering        \* the after-the-fact edits of a bundle that are tried

ASSUME LabAssumption ==
    /\ None \notin Runs
    /\ Scenario \in [Runs -> Scenarios]
    /\ Faulty \subseteq Runs
    /\ Contents \subseteq Nat /\ 0 \in Contents
    /\ MaxDisturbances \in Nat
    /\ Tampering \subseteq TamperCases

VARIABLES
    tree,        \* the developer's repository: the commits, HEAD, the worktree
    object,      \* content that zig-out/bpf/zigsched_minimal.bpf.o was built from
    mixed,       \* runs whose object was replaced between hash and copy (history)
    provenance,  \* run-all/manifest-provenance.json
    pc,          \* where each runner script is
    run,         \* the shell variables of each run, and what it really did
    guest,       \* the virtual machine of each run
    serial,      \* the rows of its serial.txt
    bundle,      \* the files in its output directory
    disturbances \* what they have cost so far

vars == <<tree, object, mixed, provenance, pc, run, guest, serial, bundle, disturbances>>

-----------------------------------------------------------------------------
(* The developer.  A sha256 is the content itself, which may come back: an *)
(* edit is undone, a stash put aside, an earlier commit checked out.       *)

Dirty == [bpf |-> tree.bpf, rest |-> tree.rest] # tree.log[tree.head]

\* The hash of `git status` and `git diff HEAD`: HEAD and the worktree fix it.
SnapshotHash == [head |-> tree.head, bpf |-> tree.bpf, rest |-> tree.rest]

\* The interleavings are bounded by what disturbs a nominal run, not by length:
\* what the developer does costs one, a fault of a guest or a script as much as
\* an edit and its undoing.
FaultCost == 2

Disturb(cost) ==
    /\ disturbances + cost <= MaxDisturbances
    /\ disturbances' = disturbances + cost

EditBpf ==
    /\ Disturb(1)
    /\ \E c \in Contents \ {tree.bpf} : tree' = [tree EXCEPT !.bpf = c]
    /\ UNCHANGED <<object, mixed, provenance, pc, run, guest, serial, bundle>>

EditRest ==
    /\ Disturb(1)
    /\ \E c \in Contents \ {tree.rest} : tree' = [tree EXCEPT !.rest = c]
    /\ UNCHANGED <<object, mixed, provenance, pc, run, guest, serial, bundle>>

Commit ==
    /\ Disturb(1)
    /\ Dirty
    /\ tree' = [tree EXCEPT !.log = Append(@, [bpf |-> tree.bpf, rest |-> tree.rest]),
                            !.head = Len(tree.log) + 1]
    /\ UNCHANGED <<object, mixed, provenance, pc, run, guest, serial, bundle>>

\* git reset --hard, to HEAD or to another commit.
Reset ==
    /\ Disturb(1)
    /\ \E c \in DOMAIN tree.log :
         /\ Dirty \/ c # tree.head
         /\ tree' = [tree EXCEPT !.head = c, !.bpf = tree.log[c].bpf, !.rest = tree.log[c].rest]
    /\ UNCHANGED <<object, mixed, provenance, pc, run, guest, serial, bundle>>

\* The runs that have hashed the object and not yet copied it into their guest.
Hashed == {r \in Runs : pc[r] \in {"head", "status", "snapshot", "launch"}}

\* `zig build bpf`: the one object file of the repository is replaced.
BuildObject ==
    /\ object' = tree.bpf
    /\ mixed' = IF tree.bpf = object THEN mixed ELSE mixed \cup Hashed

\* The release gate builds before it looks at any bundle.
GateBuild ==
    /\ object # tree.bpf
    /\ BuildObject
    /\ UNCHANGED <<tree, provenance, pc, run, guest, serial, bundle, disturbances>>

-----------------------------------------------------------------------------
(* The runner, up to the boot of the guest. *)

\* A script that has not started, or whose shell variables died with it.
NoRun ==
    [objectSha |-> None, head |-> None, dirty |-> FALSE, snapshot |-> None, scanBefore |-> TRUE,
     scanAfter |-> TRUE, attempt |-> 1, rc |-> 0, ranObject |-> None, scratch |-> FALSE,
     tampered |-> "no"]

NoGuest ==
    [pc |-> "none", faulty |-> FALSE, kernel |-> "disabled", sysfs |-> TRUE, enableSeq |-> 0,
     rejected |-> 0, weight |-> "none", alive |-> TRUE, attached |-> FALSE, restored |-> FALSE,
     completed |-> FALSE, reg |-> [rc |-> 1, id |-> 0, ops |-> "", state |-> ""]]

Goto(r, label) == pc' = [pc EXCEPT ![r] = label]

QemuAlive == {r \in Runs : guest[r].pc \notin {"none", "off"}}

\* The output directory is new; the first process scan is taken.
Start(r) ==
    /\ pc[r] = "idle"
    /\ run' = [run EXCEPT ![r].scanBefore = (QemuAlive = {})]
    /\ Goto(r, "build")
    /\ UNCHANGED <<tree, object, mixed, provenance, guest, serial, bundle, disturbances>>

Build(r) ==
    /\ pc[r] = "build"
    /\ BuildObject
    /\ Goto(r, "hash")
    /\ UNCHANGED <<tree, provenance, run, guest, serial, bundle, disturbances>>

HashObject(r) ==
    /\ pc[r] = "hash"
    /\ run' = [run EXCEPT ![r].objectSha = object]
    /\ Goto(r, "head")
    /\ UNCHANGED <<tree, object, mixed, provenance, guest, serial, bundle, disturbances>>

ReadHead(r) ==
    /\ pc[r] = "head"
    /\ run' = [run EXCEPT ![r].head = tree.head]
    /\ Goto(r, "status")
    /\ UNCHANGED <<tree, object, mixed, provenance, guest, serial, bundle, disturbances>>

ReadStatus(r) ==
    /\ pc[r] = "status"
    /\ run' = [run EXCEPT ![r].dirty = Dirty]
    /\ Goto(r, IF Dirty THEN "snapshot" ELSE "launch")
    /\ UNCHANGED <<tree, object, mixed, provenance, guest, serial, bundle, disturbances>>

ReadSnapshot(r) ==
    /\ pc[r] = "snapshot"
    /\ run' = [run EXCEPT ![r].snapshot = SnapshotHash]
    /\ Goto(r, "launch")
    /\ UNCHANGED <<tree, object, mixed, provenance, guest, serial, bundle, disturbances>>

\* The root file system gets the object file as it is now, not as it was hashed.
Launch(r) ==
    /\ pc[r] = "launch"
    /\ run' = [run EXCEPT ![r].ranObject = object, ![r].scratch = TRUE]
    /\ guest' = [guest EXCEPT ![r].pc = "boot"]
    /\ Goto(r, "running")
    /\ UNCHANGED <<tree, object, mixed, provenance, serial, bundle, disturbances>>

-----------------------------------------------------------------------------
(* The guest's /init, in the five stretches between which the runs differ. *)
(* A stretch emits its rows and moves on; `bad` says that its outcome is   *)
(* not the nominal one.  A panic inside a stretch is one before it: the    *)
(* rows that are missing are missed by the parser either way.              *)

GuestStep(r, from, to, bad, rows, g) ==
    /\ guest[r].pc = from
    /\ bad => r \in Faulty
    /\ Disturb(IF bad THEN FaultCost ELSE 0)
    /\ guest' = [guest EXCEPT ![r] = [g EXCEPT !.pc = to, !.faulty = @ \/ bad]]
    /\ serial' = [serial EXCEPT ![r] = @ \o rows]
    /\ UNCHANGED <<tree, object, mixed, provenance, pc, run, bundle>>

\* What a sample reads from sysfs and the lab cgroup.
Facts(g, member) ==
    [state |-> IF g.sysfs THEN g.kernel ELSE "",
     ops |-> IF g.sysfs /\ g.kernel = "enabled" THEN Minimal ELSE "",
     enableSeq |-> IF g.sysfs THEN g.enableSeq ELSE Unavailable,
     rejected |-> IF g.sysfs THEN g.rejected ELSE Unavailable,
     weight |-> g.weight, alive |-> g.alive, member |-> member]

GuestBoot(r) ==
    \E btf \in BOOLEAN :
        GuestStep(r, "boot", "workload", ~btf,
                  <<[event |-> "boot"], [event |-> "tuple", btf |-> btf]>>, guest[r])

\* A missing tool or a failed cgroup assignment powers the guest off; otherwise
\* the sample before the attach follows.
GuestWorkload(r) ==
    \/ GuestStep(r, "workload", "off", TRUE,
                 <<[event |-> "workload_execution", status |-> "FAIL"], [event |-> "workload"]>>, guest[r])
    \/ \E sysfs, alive, member \in BOOLEAN :
          LET g == [guest[r] EXCEPT !.sysfs = sysfs, !.alive = alive]
          IN  GuestStep(r, "workload", "register", {sysfs, alive, member} # {TRUE},
                        <<[event |-> "workload"], [event |-> "before", facts |-> Facts(g, member)]>>, g)

\* bpftool struct_ops register: refused, or attached with or without an id that
\* /init can parse; the state and the ops are read now and reported later.
\* Then each knob is written, read, written back and read again.
GuestRegister(r) ==
    \E rc \in {0, 1}, id \in {0, 1}, weight \in {"observed", "unobserved"},
      broken \in {{}} \cup {{f} : f \in Families} :
        LET g == [guest[r] EXCEPT !.kernel = IF rc = 0 THEN "enabled" ELSE "disabled",
                                  !.enableSeq = IF rc = 0 THEN 1 ELSE 0,
                                  !.attached = (rc = 0),
                                  !.weight = IF rc = 0 THEN weight ELSE "none",
                                  !.restored = (broken = {})]
            reg == [rc |-> rc, id |-> id, ops |-> IF rc = 0 THEN Minimal ELSE "",
                    state |-> IF g.sysfs THEN g.kernel ELSE IF rc = 0 THEN "enabled" ELSE ""]
        IN  /\ rc = 1 => id = 0
            /\ GuestStep(r, "register", "registered",
                         rc = 1 \/ id = 0 \/ weight = "unobserved" \/ broken # {},
                         emit_mutation_families(broken), [g EXCEPT !.reg = reg])

\* The sched_ext watchdog may throw the scheduler out in the meantime.
GuestWatchdog(r) ==
    /\ guest[r].kernel = "enabled"
    /\ GuestStep(r, "registered", "registered", TRUE, <<>>,
                 [guest[r] EXCEPT !.kernel = "disabled", !.rejected = 1])

\* The register row, then the unregister: without an id there is none, and a
\* successful one may still be on its way ("disabling") when the state is read.
GuestUnregister(r) ==
    \E rc \in {0, 1}, kernel \in {"enabled", "disabling", "disabled"}, alive, member \in BOOLEAN :
        LET reg == guest[r].reg
            during == [guest[r] EXCEPT !.alive = @ /\ alive]
            after == [during EXCEPT !.kernel = kernel, !.weight = "none"]
            before == [Facts(during, member) EXCEPT !.state = reg.state, !.ops = reg.ops]
            facts == [Facts(after, TRUE) EXCEPT !.state = IF @ = "" THEN "disabled" ELSE @,
                                                !.ops = IF @ = "" THEN None ELSE @]
        IN  /\ reg.id = 0 => rc = 1
            /\ IF rc = 1 \/ guest[r].kernel = "disabled" THEN kernel = guest[r].kernel ELSE kernel # "enabled"
            /\ GuestStep(r, "registered", "finish",
                         ~alive \/ ~member \/ (rc = 1 /\ reg.id # 0) \/ kernel = "disabling",
                         <<[event |-> "register", rc |-> reg.rc, facts |-> before],
                           [event |-> "unregister", rc |-> rc, facts |-> facts]>>, after)

\* A stale target and a second unregister must be refused.  The sleep of
\* live-backend is killed and always reported PASS, a bounded workload by its
\* exit status.
GuestFinish(r) ==
    \E rc \in {0, 1}, ok \in BOOLEAN :
        /\ guest[r].reg.id = 0 => rc = 1
        /\ Scenario[r] = "live-backend" => ok
        /\ GuestStep(r, "finish", "off", rc = 0 \/ ~ok,
                     <<[event |-> "stale_target_refusal", status |-> "REFUSE", rc |-> 23],
                       [event |-> "duplicate_rollback_refusal", status |-> "REFUSE", rc |-> rc],
                       [event |-> "workload_execution", status |-> IF ok THEN "PASS" ELSE "FAIL"]>>,
                     [guest[r] EXCEPT !.completed = ok])

\* A panic ends qemu (-no-reboot) and may cut the last line.
GuestPanic(r) ==
    \E torn \in BOOLEAN :
        /\ guest[r].pc \notin {"none", "off"}
        /\ GuestStep(r, guest[r].pc, "off", TRUE, IF torn THEN <<[event |-> "torn"]>> ELSE <<>>, guest[r])

GuestNext(r) ==
    \/ GuestBoot(r) \/ GuestWorkload(r) \/ GuestRegister(r) \/ GuestWatchdog(r)
    \/ GuestUnregister(r) \/ GuestFinish(r) \/ GuestPanic(r)

\* qemu fails with io_uring ENOMEM before the boot event: one retry, on a fresh
\* serial file, if the memlock limit of the child can be lowered.
IoUringFailure(r) ==
    /\ pc[r] = "running" /\ guest[r].pc = "boot" /\ run[r].attempt = 1
    /\ r \in Faulty
    /\ Disturb(FaultCost)
    /\ \E supported \in BOOLEAN :
         guest' = [guest EXCEPT ![r].pc = IF supported THEN "boot" ELSE "off", ![r].faulty = ~supported]
    /\ serial' = [serial EXCEPT ![r] = <<>>]
    /\ run' = [run EXCEPT ![r].attempt = 2]
    /\ UNCHANGED <<tree, object, mixed, provenance, pc, bundle>>

\* Mutant: the second attempt starts qemu without timeout(1).
TimeoutOfFirstAttempt(r) ==
    /\ guest[r].pc \notin {"none", "off"} /\ run[r].attempt = 1
    /\ guest' = [guest EXCEPT ![r].pc = "off", ![r].faulty = TRUE]
    /\ run' = [run EXCEPT ![r].rc = 124]
    /\ UNCHANGED <<tree, object, mixed, provenance, pc, serial, bundle, disturbances>>

\* timeout(1) supervises qemu, also when the runner that started it is dead.
Timeout(r) ==
    /\ guest[r].pc \notin {"none", "off"}
    /\ guest' = [guest EXCEPT ![r].pc = "off", ![r].faulty = TRUE]
    /\ run' = [run EXCEPT ![r].rc = 124]
    /\ UNCHANGED <<tree, object, mixed, provenance, pc, serial, bundle, disturbances>>

-----------------------------------------------------------------------------
(* The runner, once qemu is gone. *)

\* The script exits with an error: its variables, scratch directory and guest
\* are gone, what it wrote stays.
Fail(r) ==
    /\ Goto(r, "failed")
    /\ run' = [run EXCEPT ![r] = NoRun]
    /\ guest' = [guest EXCEPT ![r] = NoGuest]
    /\ serial' = [serial EXCEPT ![r] = <<>>]

\* The second process scan; a timeout is reported as an incident, a lab qemu
\* still alive fails the run before anything is parsed.
ScanAfter(r) ==
    /\ pc[r] = "running" /\ guest[r].pc = "off"
    /\ LET after == [run[r] EXCEPT !.scanAfter = (QemuAlive = {})]
       IN  \/ /\ run[r].rc = 124
              /\ bundle' = [bundle EXCEPT ![r].summary = emit_timeout_report(after)]
              /\ Fail(r)
           \/ /\ run[r].rc # 124 /\ QemuAlive # {}
              /\ Fail(r)
              /\ UNCHANGED bundle
           \/ /\ run[r].rc # 124 /\ QemuAlive = {}
              /\ run' = [run EXCEPT ![r] = after]
              /\ Goto(r, "parse")
              /\ UNCHANGED <<guest, serial, bundle>>
    /\ UNCHANGED <<tree, object, mixed, provenance, disturbances>>

\* Everything but the summary is written; a row the parser refuses ends the run.
Parse(r) ==
    /\ pc[r] = "parse"
    /\ IF parse_serial(serial[r])
         THEN /\ bundle' = [bundle EXCEPT ![r] = Outputs(run[r], serial[r], Scenario[r])]
              /\ Goto(r, IF run[r].dirty THEN "provenance" ELSE "summary")
              /\ UNCHANGED <<run, guest, serial>>
         ELSE Fail(r) /\ UNCHANGED bundle
    /\ UNCHANGED <<tree, object, mixed, provenance, disturbances>>

WriteProvenance(r) ==
    /\ pc[r] = "provenance"
    /\ provenance' = [bundle |-> r, head |-> run[r].head, snapshot |-> run[r].snapshot]
    /\ Goto(r, "summary")
    /\ UNCHANGED <<tree, object, mixed, run, guest, serial, bundle, disturbances>>

WriteSummary(r) ==
    /\ pc[r] = "summary"
    /\ bundle' = [bundle EXCEPT ![r].summary = summary_payload(run[r])]
    /\ Goto(r, "checks")
    /\ UNCHANGED <<tree, object, mixed, provenance, run, guest, serial, disturbances>>

\* The adapter's own three checks; then the EXIT trap removes the scratch directory.
RunChecks(r) ==
    /\ pc[r] = "checks"
    /\ LET ok == /\ validate_evidence(bundle[r].partial)
                 /\ validate_observe(bundle[r])
                 /\ validate_file(bundle[r].samples)
       IN  Goto(r, IF ok THEN "exited" ELSE "failed")
    /\ run' = [run EXCEPT ![r].scratch = FALSE]
    /\ serial' = [serial EXCEPT ![r] = <<>>]
    /\ UNCHANGED <<tree, object, mixed, provenance, guest, bundle, disturbances>>

Ended == {"exited", "failed", "killed"}

\* SIGKILL: no trap runs; qemu goes on under timeout(1).
Kill(r) ==
    /\ pc[r] \notin Ended \cup {"idle"}
    /\ Disturb(FaultCost)
    /\ Goto(r, "killed")
    /\ UNCHANGED <<tree, object, mixed, provenance, run, guest, serial, bundle>>

\* When all runs are over: one of the edits the checkers' self-tests make to a
\* good bundle.
Tamper(r) ==
    /\ Disturb(1)
    /\ \A q \in Runs : pc[q] \in Ended /\ run[q].tampered = "no"
    /\ pc[r] = "exited" /\ validate_bundle(bundle[r])
    /\ \E case \in Tampering :
         /\ bundle' = [bundle EXCEPT ![r] = Tampered(bundle[r], case)]
         /\ run' = [run EXCEPT ![r].tampered = case]
    /\ UNCHANGED <<tree, object, mixed, provenance, pc, guest, serial>>

-----------------------------------------------------------------------------
(* What the gates see, and the properties. *)

Now == [head |-> tree.head, objectSha |-> object, snapshot |-> IF Dirty THEN SnapshotHash ELSE None]

\* The release gate's verdict on the bundle of r, were it asked now.
Accepts(r) == require_live_behavior_bundle(bundle[r], r, Now, provenance)

Untampered(r) == run[r].tampered = "no"

\* An accepted bundle happened: the guest attached a scheduler, which is off
\* again, every mutated knob was restored, the workload lived or ran to its end,
\* and what the guest was given is the object on disk - unless that file was
\* rebuilt from another source while the run stood between its sha256 and its
\* copy.  The bundle is assembled from hard-coded PASS fields
\* (microvm_report_summary.py), so this rests on the rows the parser refuses,
\* whatever the guest does and whoever rebuilds the object.
AcceptedWasReal ==
    \A r \in Runs : Accepts(r) /\ Untampered(r) =>
        /\ guest[r].attached /\ guest[r].kernel # "enabled"
        /\ guest[r].restored /\ guest[r].completed
        /\ guest[r].alive \/ Scenario[r] = "bounded"
        /\ run[r].ranObject = object \/ r \in mixed

\* The gate, which rebuilds the object first, accepts no bundle of another
\* state of the repository: HEAD and the hashed BPF source are those of the run,
\* the guest ran that source unless the object was replaced under the run, and
\* if the run saw the worktree dirty, so it is now, with the same content.  The
\* run reads object, HEAD, status and snapshot with separate commands, and every
\* content may return after an edit.
AcceptedIsCurrent ==
    \A r \in Runs : Accepts(r) /\ Untampered(r) /\ object = tree.bpf =>
        /\ run[r].head = tree.head /\ run[r].objectSha = tree.bpf
        /\ run[r].ranObject = tree.bpf \/ r \in mixed
        /\ run[r].dirty => Dirty /\ run[r].snapshot = SnapshotHash

\* A run that met no fault and no other qemu, and read the repository as it is
\* now, is accepted by every consumer of its bundle: what the emitter writes,
\* the checks take.
\* All runs share one manifest-provenance.json: if the tree was dirty, only the
\* last such run.
HonestAccepted ==
    \A r \in Runs :
        /\ pc[r] = "exited" /\ Untampered(r) /\ ~guest[r].faulty
        /\ run[r].scanBefore
        /\ run[r].head = tree.head /\ {run[r].objectSha, run[r].ranObject, object} = {tree.bpf}
        /\ run[r].dirty = Dirty
        /\ run[r].dirty => run[r].snapshot = SnapshotHash /\ provenance.bundle = r
        => Accepts(r) /\ validate_backend_live_summary(bundle[r]) /\ validate_attach(bundle[r].attach, Now)

\* Every edit the self-tests of the checks make by hand is caught on every
\* bundle a run can produce, not only on the fixture they make it to.
TamperedRejected ==
    \A r \in Runs :
        /\ Accepts(r) => Untampered(r)
        /\ pc[r] = "exited" => \A case \in AttachCases : ~validate_attach(TamperedAttach(bundle[r].attach, case), Now)

\* A run that is started ends, guest hung or not, first attempt or second:
\* timeout(1) sees to it.  No run is started twice.
RunsEnd == <>[](\A r \in Runs : pc[r] \in Ended \cup {"idle"})

-----------------------------------------------------------------------------
Init ==
    /\ tree = [log |-> <<[bpf |-> 0, rest |-> 0]>>, head |-> 1, bpf |-> 0, rest |-> 0]
    /\ object = 0 /\ mixed = {}
    /\ provenance = [bundle |-> None, head |-> 0, snapshot |-> None]
    /\ pc = [r \in Runs |-> "idle"]
    /\ run = [r \in Runs |-> NoRun]
    /\ guest = [r \in Runs |-> NoGuest]
    /\ serial = [r \in Runs |-> <<>>]
    /\ bundle = [r \in Runs |-> NoBundle]
    /\ disturbances = 0

\* What the script does by itself, one command after the other.
Advance(r) ==
    \/ Build(r) \/ HashObject(r) \/ ReadHead(r) \/ ReadStatus(r) \/ ReadSnapshot(r) \/ Launch(r)
    \/ ScanAfter(r) \/ Parse(r) \/ WriteProvenance(r) \/ WriteSummary(r) \/ RunChecks(r)

Next ==
    \/ EditBpf \/ EditRest \/ Commit \/ Reset \/ GateBuild
    \/ \E r \in Runs : \/ Start(r) \/ Advance(r) \/ IoUringFailure(r) \/ Kill(r)
                       \/ GuestNext(r) \/ Timeout(r) \/ Tamper(r)

\* Some script that can go on does, or timeout(1) ends a guest; the guests owe
\* nobody anything.
Fairness == WF_vars((\E r \in Runs : Timeout(r)) \/ (\E r \in Runs : Advance(r)))

Spec == Init /\ [][Next]_vars /\ Fairness
=============================================================================
