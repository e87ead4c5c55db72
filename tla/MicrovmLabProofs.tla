--------------------------- MODULE MicrovmLabProofs ---------------------------
(***************************************************************************)
(* Proofs about the microVM live lab: for any number of runs, any edits of *)
(* the repository, undone or not, guest faults, kills and timeouts, a      *)
(* bundle the release gate accepts was made by a guest that did what the   *)
(* bundle says, with the repository as it is now - save that the guest got *)
(* another object if that was rebuilt from another source after the run    *)
(* had hashed it.  A run without a fault is accepted by every consumer of  *)
(* its bundle, and a bundle edited as the self-tests edit it by none.      *)
(***************************************************************************)
EXTENDS MicrovmLab, FiniteSetTheorems, SequenceTheorems, TLAPS

-----------------------------------------------------------------------------
(* Types *)

RunnerPlaces == {"idle", "build", "hash", "head", "status", "snapshot", "launch", "running",
                 "parse", "provenance", "summary", "checks"} \cup Ended

GuestPlaces == {"none", "boot", "workload", "register", "registered", "finish", "off"}

Tree == [log : Seq([bpf : Nat, rest : Nat]), head : Nat, bpf : Nat, rest : Nat]

\* The shell variables of a run.
Shell ==
    [objectSha : Nat \cup {None}, head : Nat \cup {None}, dirty : BOOLEAN,
     snapshot : Snapshots \cup {None}, scanBefore : BOOLEAN, scanAfter : BOOLEAN,
     attempt : {1, 2}, rc : {0, 124}, ranObject : Nat \cup {None}, scratch : BOOLEAN,
     tampered : TamperCases \cup {"no"}]

Machine ==
    [pc : GuestPlaces, faulty : BOOLEAN, kernel : {"enabled", "disabling", "disabled"},
     sysfs : BOOLEAN, enableSeq : {0, 1}, rejected : {0, 1},
     weight : {"none", "observed", "unobserved"}, alive : BOOLEAN, attached : BOOLEAN,
     restored : BOOLEAN, completed : BOOLEAN,
     reg : [rc : {0, 1}, id : {0, 1}, ops : {"", Minimal},
            state : {"", "enabled", "disabling", "disabled"}]]

FactSet ==
    [state : {"", "enabled", "disabling", "disabled"}, ops : {"", Minimal, None},
     enableSeq : Int, rejected : {Unavailable, 0, 1}, weight : {"none", "observed", "unobserved"},
     alive : BOOLEAN, member : BOOLEAN]

\* The rows of a serial log.
Row ==
    UNION {[event : {"boot", "workload", "torn"}],
           [event : {"tuple"}, btf : BOOLEAN],
           [event : {"before"}, facts : FactSet],
           [event : {"register", "unregister"}, rc : {0, 1}, facts : FactSet],
           [event : {"mutation_family"}, family : Families, status : {"PASS", "FAIL"}],
           [event : {"stale_target_refusal", "duplicate_rollback_refusal"},
            status : {"REFUSE"}, rc : {0, 1, 23}],
           [event : {"workload_execution"}, status : {"PASS", "FAIL"}]}

TypeOK ==
    /\ tree \in Tree
    /\ object \in Nat
    /\ pc \in [Runs -> RunnerPlaces]
    /\ run \in [Runs -> Shell]
    /\ guest \in [Runs -> Machine]
    /\ serial \in [Runs -> Seq(Row)]
    /\ bundle = [r \in Runs |-> bundle[r]]

-----------------------------------------------------------------------------
(* The invariant *)

\* What a row that the guest has written says of the guest g.  A row that is not
\* there yet is one whose stretch is still to come.
Told(row, g) ==
    /\ row.event = "mutation_family" => g.pc \in {"registered", "finish", "off"}
    /\ row.event = "register" => /\ g.pc \in {"finish", "off"}
                                 /\ row.rc = 0 => g.attached = TRUE
                                 /\ row.facts.alive = TRUE => g.alive = TRUE
    /\ row.event = "unregister" => /\ g.pc \in {"finish", "off"}
                                   /\ row.rc = 0 => g.kernel # "enabled"
    /\ row.event = "workload_execution" => /\ g.pc = "off"
                                           /\ row.status = "PASS" => g.completed = TRUE

\* A knob that was not restored has a row that says so.
BreakageTold(rows, g) ==
    (\E i \in DOMAIN rows : rows[i].event = "mutation_family") /\ g.restored # TRUE =>
        \E i \in DOMAIN rows : rows[i].event = "mutation_family" /\ rows[i].status = "FAIL"

Witnessed(rows, g) ==
    /\ \A i \in DOMAIN rows : Told(rows[i], g)
    /\ BreakageTold(rows, g)
    /\ g.reg.rc = 0 => g.attached = TRUE

\* What the rest of a bundle says once the serial log is gone: b was made of it.
Happened(b, g, scenario) ==
    /\ g.pc = "off" /\ g.attached = TRUE /\ g.kernel # "enabled"
    /\ g.restored = TRUE /\ g.completed = TRUE
    /\ AllAlive(b.samples) => g.alive = TRUE
    /\ b.observe.workload.scenario = scenario

\* The run r, with variables v, hashed an object and put it in the guest, or one
\* that replaced it in between.
Carried(r, v) ==
    /\ v.objectSha \in Nat /\ v.ranObject \in Nat
    /\ v.ranObject = v.objectSha \/ r \in mixed

\* Between the hash and the copy.
Hashing == {"head", "status", "snapshot", "launch"}

BeforeLaunch == {"idle", "build", "hash", "head", "status", "snapshot", "launch"}
BeforeParse == BeforeLaunch \cup {"running", "parse"}
AfterParse == {"provenance", "summary", "checks", "exited"}

\* Where the script of r is, what its variables, machine and files hold.
Progress(r) ==
    /\ pc[r] \in BeforeLaunch => guest[r].pc = "none"
    /\ pc[r] \in BeforeParse => bundle[r] = NoBundle
    /\ pc[r] \in Hashing => run[r].objectSha \in Nat /\ (run[r].objectSha = object \/ r \in mixed)
    /\ pc[r] \in {"running", "parse"} \cup AfterParse => Carried(r, run[r])
    /\ pc[r] \in {"parse"} \cup AfterParse => guest[r].pc = "off"
    /\ pc[r] \in {"provenance", "summary"} => bundle[r].summary = Missing
    /\ run[r].tampered # "no" => pc[r] \in Ended

Shaped(b) ==
    b = [summary |-> b.summary, partial |-> b.partial, attach |-> b.attach, observe |-> b.observe,
         samples |-> b.samples, daemon |-> b.daemon, ledger |-> b.ledger]

\* A file that is there tells the truth: no file of a run that failed early, the
\* outputs of a log that was parsed, and a PASS only after all of it.
Filed(r) ==
    /\ Shaped(bundle[r])
    /\ bundle[r].observe # Missing =>
          Happened(bundle[r], guest[r], Scenario[r]) /\ pc[r] \in AfterParse \cup Ended
    /\ bundle[r].summary # Missing /\ bundle[r].summary.status = "PASS" =>
          /\ bundle[r].summary = summary_payload(run[r])
          /\ pc[r] \in {"checks"} \cup Ended
          /\ guest[r].pc = "off"
          /\ Carried(r, run[r])

RunInv(r) ==
    /\ Witnessed(serial[r], guest[r])
    /\ Progress(r)
    /\ run[r].tampered = "no" => Filed(r)

IInv == TypeOK /\ \A r \in Runs : RunInv(r)

-----------------------------------------------------------------------------
(* The last row of an event *)

\* A finite set of naturals that is not empty has a largest member.
LEMMA LargestExists ==
    ASSUME NEW S \in SUBSET Nat, IsFiniteSet(S), S # {}
    PROVE  Max(S) \in S
<1> DEFINE n == Cardinality(S)
           Upto(x) == {y \in S : y <= x}
           R == 1 .. n
           f == [x \in S |-> Cardinality(Upto(x))]
<1>1. n \in Nat /\ n # 0
  BY FS_CardinalityType, FS_EmptySet
<1>2. ASSUME NEW x \in S
      PROVE  /\ IsFiniteSet(Upto(x)) /\ Cardinality(Upto(x)) \in Nat
             /\ Cardinality(Upto(x)) <= n
             /\ Cardinality(Upto(x)) # 0
             /\ Cardinality(Upto(x)) = n => Upto(x) = S
  <2>1. Upto(x) \in SUBSET S /\ x \in Upto(x)
    OBVIOUS
  <2> QED BY <2>1, FS_Subset, FS_CardinalityType, FS_EmptySet
<1>3. ASSUME NEW x \in S, NEW y \in S, x < y
      PROVE  Cardinality(Upto(x)) < Cardinality(Upto(y))
  <2>0. x \in Nat /\ y \in Nat
    OBVIOUS
  <2>1. Upto(x) \in SUBSET Upto(y) /\ y \in Upto(y) /\ y \notin Upto(x)
    <3>1. \A z \in Nat : z <= x => z <= y
      BY <1>3, <2>0
    <3>2. y <= y /\ ~(y <= x)
      BY <1>3, <2>0
    <3> QED BY <3>1, <3>2
  <2>2. IsFiniteSet(Upto(y)) /\ Cardinality(Upto(y)) \in Nat /\ Cardinality(Upto(x)) \in Nat
    BY <1>2
  <2> HIDE DEF Upto
  <2>3. Cardinality(Upto(x)) <= Cardinality(Upto(y)) /\ Cardinality(Upto(x)) # Cardinality(Upto(y))
    BY <2>1, <2>2, FS_Subset
  <2> QED BY <2>2, <2>3
<1> HIDE DEF Upto
<1>4. ASSUME NEW x \in S, NEW y \in S, Cardinality(Upto(x)) = Cardinality(Upto(y))
      PROVE  x = y
  <2>1. Cardinality(Upto(x)) \in Nat /\ Cardinality(Upto(y)) \in Nat
    BY <1>2
  <2>2. ~(x < y) /\ ~(y < x)
    BY <1>3, <1>4, <2>1
  <2> QED BY <2>2
<1>5. f \in [S -> R]
  BY <1>1, <1>2
<1>6. f \in Injection(S, R)
  BY <1>4, <1>5 DEF Injection, IsInjective
<1>7. IsFiniteSet(R) /\ Cardinality(R) = n
  BY <1>1, FS_Interval
<1> HIDE DEF R, f
<1>8. f \in Surjection(S, R)
  BY <1>6, <1>7, FS_Injection
<1>9. n \in R
  BY <1>1 DEF R
<1>10. PICK x \in S : f[x] = n
  BY <1>8, <1>9 DEF Surjection
<1>11. Upto(x) = S
  BY <1>2, <1>10 DEF f
<1>12. \A y \in S : x >= y
  BY <1>11 DEF Upto
<1> QED BY <1>12 DEF Max

\* The row that a dictionary by event holds is a row of that event.
LEMMA ByEventIs ==
    ASSUME NEW rows \in Seq(Row), NEW event, RowsOf(rows, event) # {}
    PROVE  \E i \in DOMAIN rows : rows[i].event = event /\ ByEvent(rows, event) = rows[i]
<1>1. DOMAIN rows = 1 .. Len(rows) /\ Len(rows) \in Nat
  BY LenProperties
<1>2. IsFiniteSet(1 .. Len(rows))
  BY <1>1, FS_Interval
<1>3. RowsOf(rows, event) \in SUBSET (1 .. Len(rows))
  BY <1>1 DEF RowsOf
<1>4. IsFiniteSet(RowsOf(rows, event))
  BY <1>2, <1>3, FS_Subset
<1>5. RowsOf(rows, event) \in SUBSET Nat
  BY <1>1, <1>3
<1>6. Max(RowsOf(rows, event)) \in RowsOf(rows, event)
  BY <1>4, <1>5, LargestExists
<1> QED BY <1>6 DEF ByEvent, RowsOf

-----------------------------------------------------------------------------
(* The report *)

\* What the parser takes happened in the guest that wrote the log: each PASS
\* that the report hard-codes rests on a row the parser has looked at.
LEMMA ReportHappened ==
    ASSUME NEW rows \in Seq(Row), NEW g, g.pc = "off", Witnessed(rows, g), parse_serial(rows),
           NEW v, NEW scenario
    PROVE  Happened(Outputs(v, rows, scenario), g, scenario)
<1>1. /\ \A event \in REQUIRED_EVENTS : RowsOf(rows, event) # {}
      /\ Families \subseteq {rows[i].family : i \in RowsOf(rows, "mutation_family")}
      /\ validate_rows(rows)
  BY DEF parse_serial, require_rows
<1>2. \A i \in DOMAIN rows : Told(rows[i], g)
  BY DEF Witnessed
<1>3. PICK reg \in DOMAIN rows :
        rows[reg].event = "register" /\ ByEvent(rows, "register") = rows[reg]
  BY <1>1, ByEventIs DEF REQUIRED_EVENTS
<1>4. PICK unr \in DOMAIN rows :
        rows[unr].event = "unregister" /\ ByEvent(rows, "unregister") = rows[unr]
  BY <1>1, ByEventIs DEF REQUIRED_EVENTS
<1>5. rows[reg].rc = 0 /\ rows[unr].rc = 0
  BY <1>1, <1>3, <1>4 DEF validate_rows
<1>6. g.attached = TRUE
  BY <1>2, <1>3, <1>5 DEF Told
<1>7. g.kernel # "enabled"
  BY <1>2, <1>4, <1>5 DEF Told
<1>8. g.completed = TRUE
  <2>1. PICK i \in RowsOf(rows, "workload_execution") : rows[i].status = "PASS"
    BY <1>1 DEF validate_rows, require_workload_pass
  <2> QED BY <1>2, <2>1 DEF RowsOf, Told
<1>9. g.restored = TRUE
  <2>1. PICK i \in DOMAIN rows : rows[i].event = "mutation_family"
    BY <1>1 DEF Families, RowsOf
  <2>2. \A j \in DOMAIN rows : rows[j].event = "mutation_family" => rows[j].status = "PASS"
    BY <1>1 DEF validate_rows, RowsOf
  <2> QED BY <2>1, <2>2 DEF Witnessed, BreakageTold
<1> DEFINE b == Outputs(v, rows, scenario)
<1>10. AllAlive(b.samples) => g.alive = TRUE
  <2>1. /\ b.samples = [i \in 1 .. 3 |-> sample_row(rows, i)]
    BY DEF Outputs, build_sample_rows, SampleEvents
  <2>2. b.samples[2].alive = rows[reg].facts.alive
    <3>1. SampleEvents[2] = "register"
      BY DEF SampleEvents
    <3>2. sample_row(rows, 2).alive = ByEvent(rows, "register").facts.alive
      BY <3>1 DEF sample_row
    <3>3. b.samples[2] = sample_row(rows, 2)
      BY <2>1
    <3> QED BY <1>3, <3>2, <3>3
  <2> HIDE DEF b
  <2>3. ASSUME AllAlive(b.samples) PROVE rows[reg].facts.alive
    <3>1. 2 \in DOMAIN b.samples
      BY <2>1
    <3> QED BY <2>2, <2>3, <3>1, Zenon DEF AllAlive
  <2>4. rows[reg].facts.alive \in BOOLEAN
    <3>1. rows[reg] \in Row
      BY ElementOfSeq, LenProperties
    <3>2. rows[reg] \in [event : {"register", "unregister"}, rc : {0, 1}, facts : FactSet]
      BY <1>3, <3>1 DEF Row
    <3> QED BY <3>2 DEF FactSet
  <2>5. rows[reg].facts.alive = TRUE => g.alive = TRUE
    BY <1>2, <1>3, Zenon DEF Told
  <2> QED BY <2>3, <2>4, <2>5
<1>11. b.observe.workload.scenario = scenario
  BY DEF Outputs, observe_summary_payload, workload_execution_summary
<1> HIDE DEF b
<1>12. Happened(b, g, scenario)
  BY <1>6, <1>7, <1>8, <1>9, <1>10, <1>11 DEF Happened
<1> QED BY <1>12 DEF b

-----------------------------------------------------------------------------
(* The guest *)

Early == {"none", "boot", "workload", "register"}

\* A row stays true: before the knobs are turned there is none that could become
\* false, later the guest does not touch what its rows report.
LEMMA ToldKept ==
    ASSUME NEW row, NEW g, NEW h, Told(row, g),
           \/ g.pc \in Early
           \/ g.pc = "registered" /\ h.pc \in {"registered", "finish", "off"}
           \/ /\ g.pc = "finish" /\ h.pc = "off"
              /\ h.attached = g.attached /\ h.alive = g.alive /\ h.kernel = g.kernel
    PROVE  Told(row, h)
<1>1. CASE g.pc \in Early
  BY <1>1 DEF Told, Early
<1>2. CASE g.pc = "registered" /\ h.pc \in {"registered", "finish", "off"}
  BY <1>2 DEF Told
<1>3. CASE /\ g.pc = "finish" /\ h.pc = "off"
           /\ h.attached = g.attached /\ h.alive = g.alive /\ h.kernel = g.kernel
  BY <1>3 DEF Told
<1> QED BY <1>1, <1>2, <1>3

\* The log after a stretch of the guest, which was g and is h.
LEMMA WitnessMore ==
    ASSUME NEW rows \in Seq(Row), NEW more \in Seq(Row), NEW g, NEW h,
           Witnessed(rows, g),
           \/ g.pc \in Early
           \/ g.pc = "registered" /\ h.pc \in {"registered", "finish", "off"}
           \/ /\ g.pc = "finish" /\ h.pc = "off"
              /\ h.attached = g.attached /\ h.alive = g.alive /\ h.kernel = g.kernel,
           \A i \in DOMAIN more : Told(more[i], h),
           h.reg.rc = 0 => h.attached = TRUE,
           \/ g.pc \in Early /\ BreakageTold(more, h)
           \/ /\ h.restored = g.restored
              /\ \A i \in DOMAIN more : more[i].event # "mutation_family"
    PROVE  Witnessed(rows \o more, h)
<1> DEFINE all == rows \o more
<1>1. /\ DOMAIN rows = 1 .. Len(rows) /\ Len(rows) \in Nat
      /\ DOMAIN more = 1 .. Len(more) /\ Len(more) \in Nat
      /\ DOMAIN all = 1 .. Len(rows) + Len(more)
  BY LenProperties, ConcatProperties
<1>2. \A i \in 1 .. Len(rows) + Len(more) :
        all[i] = IF i <= Len(rows) THEN rows[i] ELSE more[i - Len(rows)]
  BY ConcatProperties
<1> HIDE DEF all
<1>3. \A i \in DOMAIN all : (\E j \in DOMAIN rows : all[i] = rows[j])
                              \/ (\E j \in DOMAIN more : all[i] = more[j])
  <2> SUFFICES ASSUME NEW i \in 1 .. Len(rows) + Len(more)
               PROVE  (\E j \in 1 .. Len(rows) : all[i] = rows[j])
                        \/ (\E j \in 1 .. Len(more) : all[i] = more[j])
    BY <1>1
  <2>1. CASE i <= Len(rows)
    <3>1. all[i] = rows[i] /\ i \in 1 .. Len(rows)
      BY <1>1, <1>2, <2>1
    <3> QED BY <3>1
  <2>2. CASE ~(i <= Len(rows))
    <3>1. all[i] = more[i - Len(rows)]
      BY <1>2, <2>2
    <3>2. \A a, b, c \in Nat : c \in 1 .. a + b /\ ~(c <= a) => c - a \in 1 .. b
      OBVIOUS
    <3>3. i - Len(rows) \in 1 .. Len(more)
      BY <1>1, <2>2, <3>2
    <3> QED BY <3>1, <3>3
  <2> QED BY <2>1, <2>2
<1>4. /\ \A j \in DOMAIN rows : \E i \in DOMAIN all : all[i] = rows[j]
      /\ \A j \in DOMAIN more : \E i \in DOMAIN all : all[i] = more[j]
  <2>1. ASSUME NEW j \in DOMAIN rows PROVE \E i \in DOMAIN all : all[i] = rows[j]
    <3>1. j \in 1 .. Len(rows) + Len(more) /\ j <= Len(rows)
      BY <1>1
    <3> QED BY <1>1, <1>2, <3>1
  <2>2. ASSUME NEW j \in DOMAIN more PROVE \E i \in DOMAIN all : all[i] = more[j]
    <3>1. \A a, b \in Nat : \A c \in 1 .. b :
            a + c \in 1 .. a + b /\ ~(a + c <= a) /\ (a + c) - a = c
      OBVIOUS
    <3>2. /\ Len(rows) + j \in 1 .. Len(rows) + Len(more) /\ ~(Len(rows) + j <= Len(rows))
          /\ (Len(rows) + j) - Len(rows) = j
      BY <1>1, <3>1
    <3>3. all[Len(rows) + j] = more[j]
      BY <1>2, <3>2
    <3> QED BY <1>1, <3>2, <3>3
  <2> QED BY <2>1, <2>2
<1>5. \A i \in DOMAIN rows : Told(rows[i], h)
  BY ToldKept DEF Witnessed
<1>6. \A i \in DOMAIN all : Told(all[i], h)
  BY <1>3, <1>5
<1>7. BreakageTold(all, h)
  <2> SUFFICES ASSUME NEW i \in DOMAIN all, all[i].event = "mutation_family", h.restored # TRUE
               PROVE  \E k \in DOMAIN all : all[k].event = "mutation_family" /\ all[k].status = "FAIL"
    BY DEF BreakageTold
  <2>1. CASE g.pc \in Early /\ BreakageTold(more, h)
    <3>1. \A j \in DOMAIN rows : rows[j].event # "mutation_family"
      BY <2>1 DEF Witnessed, Told, Early
    <3>2. PICK j \in DOMAIN more : all[i] = more[j]
      BY <1>3, <3>1
    <3>3. PICK k \in DOMAIN more : more[k].event = "mutation_family" /\ more[k].status = "FAIL"
      BY <2>1, <3>2 DEF BreakageTold
    <3> QED BY <1>4, <3>3
  <2>2. CASE /\ h.restored = g.restored
             /\ \A j \in DOMAIN more : more[j].event # "mutation_family"
    <3>1. PICK j \in DOMAIN rows : all[i] = rows[j]
      BY <1>3, <2>2
    <3>2. PICK k \in DOMAIN rows : rows[k].event = "mutation_family" /\ rows[k].status = "FAIL"
      BY <2>2, <3>1 DEF Witnessed, BreakageTold
    <3> QED BY <1>4, <3>2
  <2> QED BY <2>1, <2>2
<1>8. Witnessed(all, h)
  BY <1>6, <1>7 DEF Witnessed
<1> QED BY <1>8 DEF all

\* h is g, but for the place and the mark of a fault.
Becomes(g, to, h) ==
    /\ h.pc = to
    /\ h.attached = g.attached /\ h.alive = g.alive /\ h.kernel = g.kernel
    /\ h.restored = g.restored /\ h.completed = g.completed /\ h.reg = g.reg

\* The machine after a stretch that made it g and moved it to another place.
LEMMA Moved ==
    ASSUME NEW g \in Machine, NEW to \in GuestPlaces, NEW bad \in BOOLEAN,
           NEW h, h = [g EXCEPT !.pc = to, !.faulty = @ \/ bad]
    PROVE  h \in Machine /\ Becomes(g, to, h)
<1>1. (g.faulty \/ bad) \in BOOLEAN
  OBVIOUS
<1> QED BY <1>1 DEF Machine, Becomes

\* What is to be shown of a stretch of the guest of r.
GuestKept(r) ==
    /\ guest' \in [Runs -> Machine] /\ serial' \in [Runs -> Seq(Row)]
    /\ Witnessed(serial'[r], guest'[r])
    /\ \A q \in Runs : q # r => guest'[q] = guest[q] /\ serial'[q] = serial[q]
    /\ guest[r].pc \notin {"none", "off"}
    /\ UNCHANGED <<tree, object, mixed, provenance, pc, run, bundle>>

\* A stretch keeps the types, and the log true, if the log is true of the machine
\* that the stretch makes.
LEMMA GuestStepKeeps ==
    ASSUME TypeOK, NEW r \in Runs, Witnessed(serial[r], guest[r]),
           NEW from \in GuestPlaces \ {"none", "off"}, NEW to \in GuestPlaces, NEW bad \in BOOLEAN,
           NEW more \in Seq(Row), NEW g \in Machine,
           GuestStep(r, from, to, bad, more, g),
           \A h \in Machine : Becomes(g, to, h) => Witnessed(serial[r] \o more, h)
    PROVE  GuestKept(r)
<1>0. PICK h : h = [g EXCEPT !.pc = to, !.faulty = @ \/ bad]
  OBVIOUS
<1>1. h \in Machine /\ Becomes(g, to, h)
  BY <1>0, Moved
<1>2. guest' = [guest EXCEPT ![r] = h] /\ serial' = [serial EXCEPT ![r] = @ \o more]
  BY <1>0 DEF GuestStep
<1>3. serial[r] \o more \in Seq(Row)
  BY ConcatProperties DEF TypeOK
<1>4. Witnessed(serial[r] \o more, h)
  BY <1>1
<1>5. /\ guest'[r] = h /\ serial'[r] = serial[r] \o more
      /\ \A q \in Runs : q # r => guest'[q] = guest[q] /\ serial'[q] = serial[q]
  BY <1>2 DEF TypeOK
<1>6. guest' \in [Runs -> Machine] /\ serial' \in [Runs -> Seq(Row)]
  BY <1>1, <1>2, <1>3 DEF TypeOK
<1>7. guest[r].pc \notin {"none", "off"} /\ UNCHANGED <<tree, object, mixed, provenance, pc, run, bundle>>
  BY DEF GuestStep
<1> QED BY <1>4, <1>5, <1>6, <1>7 DEF GuestKept

\* What a sample reads is a set of facts, and its `alive' is the machine's.
LEMMA FactsType ==
    ASSUME NEW g \in Machine, NEW member \in BOOLEAN
    PROVE  Facts(g, member) \in FactSet /\ Facts(g, member).alive = g.alive
<1> DEFINE f == Facts(g, member)
<1>1. /\ g.kernel \in {"enabled", "disabling", "disabled"}
      /\ g.enableSeq \in {0, 1} /\ g.rejected \in {0, 1}
      /\ g.weight \in {"none", "observed", "unobserved"} /\ g.alive \in BOOLEAN
  BY DEF Machine
<1>2. f.state \in {"", "enabled", "disabling", "disabled"} /\ f.ops \in {"", Minimal, None}
  BY <1>1 DEF Facts
<1>3. f.enableSeq \in Int /\ f.rejected \in {Unavailable, 0, 1}
  BY <1>1 DEF Facts, Unavailable
<1>4. f.weight = g.weight /\ f.alive = g.alive /\ f.member = member
  BY DEF Facts
<1>5. f = [state |-> f.state, ops |-> f.ops, enableSeq |-> f.enableSeq, rejected |-> f.rejected,
           weight |-> f.weight, alive |-> f.alive, member |-> f.member]
  BY DEF Facts
<1> HIDE DEF f
<1>6. f \in FactSet /\ f.alive = g.alive
  BY <1>1, <1>2, <1>3, <1>4, <1>5 DEF FactSet
<1> QED BY <1>6 DEF f

\* The first stretch: the boot and the kernel tuple.
LEMMA GuestBootKeeps ==
    ASSUME TypeOK, NEW r \in Runs, Witnessed(serial[r], guest[r]), GuestBoot(r)
    PROVE  GuestKept(r)
<1>1. PICK btf \in BOOLEAN :
        GuestStep(r, "boot", "workload", ~btf,
                  <<[event |-> "boot"], [event |-> "tuple", btf |-> btf]>>, guest[r])
  BY DEF GuestBoot
<1> DEFINE a == [event |-> "boot"]
           b == [event |-> "tuple", btf |-> btf]
<1>2. a \in Row /\ b \in Row /\ a.event = "boot" /\ b.event = "tuple"
  BY DEF Row
<1> HIDE DEF a, b
<1>3. <<a, b>> \in Seq(Row) /\ DOMAIN <<a, b>> = {1, 2} /\ <<a, b>>[1] = a /\ <<a, b>>[2] = b
  BY <1>2
<1>4. guest[r].pc = "boot" /\ guest[r] \in Machine /\ serial[r] \in Seq(Row)
  BY <1>1 DEF GuestStep, TypeOK
<1>5. ASSUME NEW h \in Machine, Becomes(guest[r], "workload", h)
      PROVE  Witnessed(serial[r] \o <<a, b>>, h)
  <2>1. \A i \in DOMAIN <<a, b>> : Told(<<a, b>>[i], h) /\ <<a, b>>[i].event # "mutation_family"
    BY <1>2, <1>3 DEF Told
  <2>2. BreakageTold(<<a, b>>, h)
    BY <2>1 DEF BreakageTold
  <2>3. h.reg.rc = 0 => h.attached = TRUE
    BY <1>5 DEF Witnessed, Becomes
  <2> QED BY <1>3, <1>4, <2>1, <2>2, <2>3, WitnessMore DEF Early
<1>6. GuestStep(r, "boot", "workload", ~btf, <<a, b>>, guest[r])
  BY <1>1 DEF a, b
<1>7. "boot" \in GuestPlaces \ {"none", "off"} /\ "workload" \in GuestPlaces /\ (~btf) \in BOOLEAN
  BY DEF GuestPlaces
<1> QED BY <1>3, <1>4, <1>5, <1>6, <1>7, GuestStepKeeps

\* The workload does not start, or the sample before the attach is taken.
LEMMA GuestWorkloadKeeps ==
    ASSUME TypeOK, NEW r \in Runs, Witnessed(serial[r], guest[r]), GuestWorkload(r)
    PROVE  GuestKept(r)
<1>0. guest[r].pc = "workload" /\ guest[r] \in Machine /\ serial[r] \in Seq(Row)
  BY DEF GuestWorkload, GuestStep, TypeOK
<1>1. /\ "workload" \in GuestPlaces \ {"none", "off"}
      /\ "register" \in GuestPlaces /\ "off" \in GuestPlaces
  BY DEF GuestPlaces
<1>2. ASSUME NEW a \in Row, NEW b \in Row, NEW g \in Machine, NEW h \in Machine,
             NEW to, Becomes(g, to, h),
             a.event = "workload" \/ (a.event = "workload_execution" /\ a.status = "FAIL" /\ to = "off"),
             b.event \in {"workload", "before"},
             g.attached = guest[r].attached, g.reg = guest[r].reg
      PROVE  Witnessed(serial[r] \o <<a, b>>, h)
  <2>1. <<a, b>> \in Seq(Row) /\ DOMAIN <<a, b>> = {1, 2} /\ <<a, b>>[1] = a /\ <<a, b>>[2] = b
    OBVIOUS
  <2>2. Told(a, h) /\ Told(b, h) /\ a.event # "mutation_family" /\ b.event # "mutation_family"
    BY <1>2 DEF Told, Becomes
  <2>3. \A i \in DOMAIN <<a, b>> : Told(<<a, b>>[i], h) /\ <<a, b>>[i].event # "mutation_family"
    BY <2>1, <2>2
  <2>4. BreakageTold(<<a, b>>, h)
    BY <2>3 DEF BreakageTold
  <2>5. h.reg.rc = 0 => h.attached = TRUE
    BY <1>2 DEF Witnessed, Becomes
  <2> QED BY <1>0, <2>1, <2>3, <2>4, <2>5, WitnessMore DEF Early
<1>3. CASE GuestStep(r, "workload", "off", TRUE,
                     <<[event |-> "workload_execution", status |-> "FAIL"], [event |-> "workload"]>>,
                     guest[r])
  <2> DEFINE a == [event |-> "workload_execution", status |-> "FAIL"]
             b == [event |-> "workload"]
  <2>1. /\ a \in Row /\ b \in Row /\ a.event = "workload_execution" /\ a.status = "FAIL"
        /\ b.event = "workload"
    BY DEF Row
  <2>2. GuestStep(r, "workload", "off", TRUE, <<a, b>>, guest[r])
    BY <1>3
  <2> HIDE DEF a, b
  <2>3. \A h \in Machine : Becomes(guest[r], "off", h) => Witnessed(serial[r] \o <<a, b>>, h)
    BY <1>0, <1>2, <2>1
  <2>4. <<a, b>> \in Seq(Row) /\ TRUE \in BOOLEAN
    BY <2>1
  <2> QED BY <1>0, <1>1, <2>2, <2>3, <2>4, GuestStepKeeps
<1>4. ASSUME NEW sysfs \in BOOLEAN, NEW alive \in BOOLEAN, NEW member \in BOOLEAN, NEW g,
             g = [guest[r] EXCEPT !.sysfs = sysfs, !.alive = alive],
             GuestStep(r, "workload", "register", {sysfs, alive, member} # {TRUE},
                       <<[event |-> "workload"], [event |-> "before", facts |-> Facts(g, member)]>>, g)
      PROVE  GuestKept(r)
  <2> DEFINE a == [event |-> "workload"]
             b == [event |-> "before", facts |-> Facts(g, member)]
             bad == {sysfs, alive, member} # {TRUE}
  <2>1. g \in Machine /\ g.attached = guest[r].attached /\ g.reg = guest[r].reg
    BY <1>0, <1>4 DEF Machine
  <2>2. a \in Row /\ b \in Row /\ a.event = "workload" /\ b.event = "before"
    BY <2>1, FactsType DEF Row
  <2>3. GuestStep(r, "workload", "register", bad, <<a, b>>, g) /\ bad \in BOOLEAN
    BY <1>4
  <2> HIDE DEF a, b, bad
  <2>4. \A h \in Machine : Becomes(g, "register", h) => Witnessed(serial[r] \o <<a, b>>, h)
    BY <1>2, <2>1, <2>2
  <2>5. <<a, b>> \in Seq(Row)
    BY <2>2
  <2> QED BY <1>1, <2>1, <2>3, <2>4, <2>5, GuestStepKeeps
<1> QED BY <1>3, <1>4 DEF GuestWorkload

\* What the knobs leave behind: a row for each, and one that says so if a knob is
\* not what it was.
LEMMA MutationRows ==
    ASSUME NEW broken \in {{}} \cup {{f} : f \in Families}
    PROVE  LET more == emit_mutation_families(broken)
           IN  /\ more \in Seq(Row)
               /\ \A i \in DOMAIN more : more[i].event = "mutation_family"
               /\ broken # {} => \E i \in DOMAIN more : more[i].status = "FAIL"
<1> DEFINE order == <<"cgroup.weight", "cpu.max", "uclamp", "topology.offline_cpu">>
           more == [i \in 1 .. 4 |-> [event |-> "mutation_family", family |-> order[i],
                                      status |-> IF order[i] \in broken THEN "FAIL" ELSE "PASS"]]
<1>1. emit_mutation_families(broken) = more
  <2>1. DOMAIN order = 1 .. 4
    OBVIOUS
  <2> QED BY <2>1 DEF emit_mutation_families
<1>2. \A i \in 1 .. 4 : order[i] \in Families
  BY DEF Families
<1>3. broken # {} => \E i \in 1 .. 4 : order[i] \in broken
  BY DEF Families
<1> HIDE DEF order
<1>4. \A i \in 1 .. 4 : more[i] \in Row /\ more[i].event = "mutation_family"
  BY <1>2 DEF Row
<1>5. \A i \in 1 .. 4 : order[i] \in broken => more[i].status = "FAIL"
  OBVIOUS
<1>6. more \in [1 .. 4 -> Row]
  BY <1>4
<1> HIDE DEF more
<1>7. more \in Seq(Row) /\ DOMAIN more = 1 .. 4
  BY <1>6, SeqDef
<1> QED BY <1>1, <1>3, <1>4, <1>5, <1>7

\* bpftool registers the scheduler, and the knobs are turned.
LEMMA GuestRegisterKeeps ==
    ASSUME TypeOK, NEW r \in Runs, Witnessed(serial[r], guest[r]), GuestRegister(r)
    PROVE  GuestKept(r)
<1>1. PICK rc \in {0, 1}, id \in {0, 1}, weight \in {"observed", "unobserved"},
           broken \in {{}} \cup {{f} : f \in Families} :
        LET g == [guest[r] EXCEPT !.kernel = IF rc = 0 THEN "enabled" ELSE "disabled",
                                  !.enableSeq = IF rc = 0 THEN 1 ELSE 0,
                                  !.attached = (rc = 0),
                                  !.weight = IF rc = 0 THEN weight ELSE "none",
                                  !.restored = (broken = {})]
            reg == [rc |-> rc, id |-> id, ops |-> IF rc = 0 THEN Minimal ELSE "",
                    state |-> IF g.sysfs THEN g.kernel ELSE IF rc = 0 THEN "enabled" ELSE ""]
        IN  /\ rc = 1 => id = 0
            /\ GuestStep(r, "register", "registered",
                         rc = 1 \/ id = 0 \/ weight = "unobserved" \/ broken # {},
                         emit_mutation_families(broken), [g EXCEPT !.reg = reg])
  BY DEF GuestRegister
<1>2. PICK g : g = [guest[r] EXCEPT !.kernel = IF rc = 0 THEN "enabled" ELSE "disabled",
                                    !.enableSeq = IF rc = 0 THEN 1 ELSE 0,
                                    !.attached = (rc = 0),
                                    !.weight = IF rc = 0 THEN weight ELSE "none",
                                    !.restored = (broken = {})]
  OBVIOUS
<1>3. PICK reg : reg = [rc |-> rc, id |-> id, ops |-> IF rc = 0 THEN Minimal ELSE "",
                        state |-> IF g.sysfs THEN g.kernel ELSE IF rc = 0 THEN "enabled" ELSE ""]
  OBVIOUS
<1>4. PICK bad : bad = (rc = 1 \/ id = 0 \/ weight = "unobserved" \/ broken # {})
  OBVIOUS
<1>5. PICK k : k = [g EXCEPT !.reg = reg]
  OBVIOUS
<1>6. GuestStep(r, "register", "registered", bad, emit_mutation_families(broken), k)
  BY <1>1, <1>2, <1>3, <1>4, <1>5
<1>7. guest[r].pc = "register" /\ guest[r] \in Machine /\ serial[r] \in Seq(Row)
  BY <1>6 DEF GuestStep, TypeOK
<1>8. /\ g \in Machine /\ g.attached = (rc = 0) /\ g.restored = (broken = {})
      /\ g.kernel \in {"enabled", "disabled"}
  <2>1. PICK kernel, seq, att, w, res :
          /\ kernel = (IF rc = 0 THEN "enabled" ELSE "disabled")
          /\ seq = (IF rc = 0 THEN 1 ELSE 0) /\ att = (rc = 0)
          /\ w = (IF rc = 0 THEN weight ELSE "none") /\ res = (broken = {})
    OBVIOUS
  <2>2. /\ kernel \in {"enabled", "disabled"} /\ seq \in {0, 1} /\ att \in BOOLEAN
        /\ w \in {"none", "observed", "unobserved"} /\ res \in BOOLEAN
    BY <2>1
  <2>3. g = [guest[r] EXCEPT !.kernel = kernel, !.enableSeq = seq, !.attached = att,
                             !.weight = w, !.restored = res]
    BY <1>2, <2>1
  <2>4. g \in Machine
    BY <1>7, <2>2, <2>3 DEF Machine
  <2>5. g.attached = att /\ g.restored = res /\ g.kernel = kernel
    BY <1>7, <2>3 DEF Machine
  <2> QED BY <2>1, <2>2, <2>4, <2>5
<1>9. /\ reg \in [rc : {0, 1}, id : {0, 1}, ops : {"", Minimal},
                  state : {"", "enabled", "disabling", "disabled"}]
      /\ reg.rc = rc
  BY <1>3, <1>8
<1>10. k \in Machine /\ k.attached = (rc = 0) /\ k.restored = (broken = {}) /\ k.reg = reg
  BY <1>5, <1>8, <1>9 DEF Machine
<1> DEFINE more == emit_mutation_families(broken)
<1>11. /\ more \in Seq(Row)
       /\ \A i \in DOMAIN more : more[i].event = "mutation_family"
       /\ broken # {} => \E i \in DOMAIN more : more[i].status = "FAIL"
  BY MutationRows
<1> HIDE DEF more
<1>12. ASSUME NEW h \in Machine, Becomes(k, "registered", h)
       PROVE  Witnessed(serial[r] \o more, h)
  <2>1. \A i \in DOMAIN more : Told(more[i], h)
    BY <1>11, <1>12 DEF Told, Becomes
  <2>2. h.restored # TRUE => broken # {}
    BY <1>10, <1>12 DEF Becomes
  <2>3. BreakageTold(more, h)
    BY <1>11, <2>2 DEF BreakageTold
  <2>4. h.reg.rc = 0 => h.attached = TRUE
    BY <1>9, <1>10, <1>12 DEF Becomes
  <2> QED BY <1>7, <1>11, <2>1, <2>3, <2>4, WitnessMore DEF Early
<1>13. "register" \in GuestPlaces \ {"none", "off"} /\ "registered" \in GuestPlaces /\ bad \in BOOLEAN
  BY <1>4 DEF GuestPlaces
<1>14. GuestStep(r, "register", "registered", bad, more, k)
  BY <1>6 DEF more
<1> QED BY <1>10, <1>11, <1>12, <1>13, <1>14, GuestStepKeeps

\* The watchdog: no row yet speaks of the kernel's state.
LEMMA GuestWatchdogKeeps ==
    ASSUME TypeOK, NEW r \in Runs, Witnessed(serial[r], guest[r]), GuestWatchdog(r)
    PROVE  GuestKept(r)
<1>1. PICK g : g = [guest[r] EXCEPT !.kernel = "disabled", !.rejected = 1]
  OBVIOUS
<1>2. GuestStep(r, "registered", "registered", TRUE, <<>>, g)
  BY <1>1 DEF GuestWatchdog
<1>3. guest[r].pc = "registered" /\ guest[r] \in Machine /\ serial[r] \in Seq(Row)
  BY <1>2 DEF GuestStep, TypeOK
<1>4. /\ g \in Machine /\ g.attached = guest[r].attached /\ g.reg = guest[r].reg
      /\ g.restored = guest[r].restored
  BY <1>1, <1>3 DEF Machine
<1>5. <<>> \in Seq(Row) /\ DOMAIN <<>> = {}
  OBVIOUS
<1>6. ASSUME NEW h \in Machine, Becomes(g, "registered", h)
      PROVE  Witnessed(serial[r] \o <<>>, h)
  <2>1. h.reg.rc = 0 => h.attached = TRUE
    BY <1>4, <1>6 DEF Witnessed, Becomes
  <2>2. h.pc = "registered" /\ h.restored = guest[r].restored
    BY <1>4, <1>6 DEF Becomes
  <2> QED BY <1>3, <1>5, <2>1, <2>2, WitnessMore
<1>7. /\ "registered" \in GuestPlaces \ {"none", "off"} /\ "registered" \in GuestPlaces
      /\ TRUE \in BOOLEAN
  BY DEF GuestPlaces
<1> QED BY <1>2, <1>4, <1>5, <1>6, <1>7, GuestStepKeeps

\* The register row reports what was read then, the unregister row a state that
\* does not change any more.
LEMMA GuestUnregisterKeeps ==
    ASSUME TypeOK, NEW r \in Runs, Witnessed(serial[r], guest[r]), GuestUnregister(r)
    PROVE  GuestKept(r)
<1>1. PICK rc \in {0, 1}, kernel \in {"enabled", "disabling", "disabled"},
           alive \in BOOLEAN, member \in BOOLEAN :
        LET reg == guest[r].reg
            during == [guest[r] EXCEPT !.alive = @ /\ alive]
            after == [during EXCEPT !.kernel = kernel, !.weight = "none"]
            before == [Facts(during, member) EXCEPT !.state = reg.state, !.ops = reg.ops]
            facts == [Facts(after, TRUE) EXCEPT !.state = IF @ = "" THEN "disabled" ELSE @,
                                                !.ops = IF @ = "" THEN None ELSE @]
        IN  /\ reg.id = 0 => rc = 1
            /\ IF rc = 1 \/ guest[r].kernel = "disabled"
               THEN kernel = guest[r].kernel ELSE kernel # "enabled"
            /\ GuestStep(r, "registered", "finish",
                         ~alive \/ ~member \/ (rc = 1 /\ reg.id # 0) \/ kernel = "disabling",
                         <<[event |-> "register", rc |-> reg.rc, facts |-> before],
                           [event |-> "unregister", rc |-> rc, facts |-> facts]>>, after)
  BY DEF GuestUnregister
<1> DEFINE reg == guest[r].reg
<1>2. PICK d : d = [guest[r] EXCEPT !.alive = @ /\ alive]
  OBVIOUS
<1>3. PICK g : g = [d EXCEPT !.kernel = kernel, !.weight = "none"]
  OBVIOUS
<1>4. PICK e : e = [Facts(d, member) EXCEPT !.state = reg.state, !.ops = reg.ops]
  OBVIOUS
<1>5. PICK f : f = [Facts(g, TRUE) EXCEPT !.state = IF @ = "" THEN "disabled" ELSE @,
                                          !.ops = IF @ = "" THEN None ELSE @]
  OBVIOUS
<1>6. PICK bad : bad = (~alive \/ ~member \/ (rc = 1 /\ reg.id # 0) \/ kernel = "disabling")
  OBVIOUS
<1>7. PICK a : a = [event |-> "register", rc |-> reg.rc, facts |-> e]
  OBVIOUS
<1>8. PICK b : b = [event |-> "unregister", rc |-> rc, facts |-> f]
  OBVIOUS
<1>9. /\ IF rc = 1 \/ guest[r].kernel = "disabled"
         THEN kernel = guest[r].kernel ELSE kernel # "enabled"
      /\ GuestStep(r, "registered", "finish", bad, <<a, b>>, g)
  BY <1>1, <1>2, <1>3, <1>4, <1>5, <1>6, <1>7, <1>8
<1>10. guest[r].pc = "registered" /\ guest[r] \in Machine /\ serial[r] \in Seq(Row)
  BY <1>9 DEF GuestStep, TypeOK
<1>11. /\ reg \in [rc : {0, 1}, id : {0, 1}, ops : {"", Minimal},
                   state : {"", "enabled", "disabling", "disabled"}]
       /\ reg.rc = 0 => guest[r].attached = TRUE
  BY <1>10 DEF Machine, Witnessed
<1> HIDE DEF reg
<1>12. /\ d \in Machine /\ d.attached = guest[r].attached /\ d.reg = reg
       /\ d.restored = guest[r].restored
  <2>1. (guest[r].alive /\ alive) \in BOOLEAN
    OBVIOUS
  <2> QED BY <1>2, <1>10, <2>1 DEF Machine, reg
<1>13. /\ g \in Machine /\ g.attached = guest[r].attached /\ g.reg = reg
       /\ g.restored = guest[r].restored /\ g.alive = d.alive /\ g.kernel = kernel
  BY <1>3, <1>12 DEF Machine
<1>14. e \in FactSet /\ e.alive = d.alive
  <2>1. Facts(d, member) \in FactSet /\ Facts(d, member).alive = d.alive
    BY <1>12, FactsType
  <2>2. /\ reg.state \in {"", "enabled", "disabling", "disabled"}
        /\ reg.ops \in {"", Minimal, None}
    BY <1>11
  <2> QED BY <1>4, <2>1, <2>2 DEF FactSet
<1>15. f \in FactSet
  <2>1. Facts(g, TRUE) \in FactSet
    BY <1>13, FactsType
  <2> QED BY <1>5, <2>1 DEF FactSet
<1>16. /\ a \in Row /\ a.event = "register" /\ a.rc = reg.rc /\ a.facts = e
       /\ b \in Row /\ b.event = "unregister" /\ b.rc = rc
  BY <1>7, <1>8, <1>11, <1>14, <1>15 DEF Row
<1>17. <<a, b>> \in Seq(Row) /\ DOMAIN <<a, b>> = {1, 2} /\ <<a, b>>[1] = a /\ <<a, b>>[2] = b
  BY <1>16
<1>18. rc = 0 => kernel # "enabled"
  BY <1>9
<1>19. ASSUME NEW h \in Machine, Becomes(g, "finish", h)
       PROVE  Witnessed(serial[r] \o <<a, b>>, h)
  <2>0. /\ h.pc = "finish" /\ h.attached = guest[r].attached /\ h.alive = e.alive
        /\ h.kernel = kernel /\ h.restored = guest[r].restored /\ h.reg = reg
    BY <1>13, <1>14, <1>19 DEF Becomes
  <2>1. Told(a, h)
    BY <1>11, <1>16, <2>0 DEF Told
  <2>2. Told(b, h)
    BY <1>16, <1>18, <2>0 DEF Told
  <2>3. \A i \in DOMAIN <<a, b>> : Told(<<a, b>>[i], h) /\ <<a, b>>[i].event # "mutation_family"
    BY <1>16, <1>17, <2>1, <2>2
  <2>4. h.reg.rc = 0 => h.attached = TRUE
    BY <1>11, <2>0
  <2> QED BY <1>10, <1>17, <2>0, <2>3, <2>4, WitnessMore
<1>20. "registered" \in GuestPlaces \ {"none", "off"} /\ "finish" \in GuestPlaces /\ bad \in BOOLEAN
  BY <1>6 DEF GuestPlaces
<1> QED BY <1>9, <1>13, <1>17, <1>19, <1>20, GuestStepKeeps

\* The refusals and the end of the workload.
LEMMA GuestFinishKeeps ==
    ASSUME TypeOK, NEW r \in Runs, Witnessed(serial[r], guest[r]), GuestFinish(r)
    PROVE  GuestKept(r)
<1>1. PICK rc \in {0, 1}, ok \in BOOLEAN :
        GuestStep(r, "finish", "off", rc = 0 \/ ~ok,
                  <<[event |-> "stale_target_refusal", status |-> "REFUSE", rc |-> 23],
                    [event |-> "duplicate_rollback_refusal", status |-> "REFUSE", rc |-> rc],
                    [event |-> "workload_execution", status |-> IF ok THEN "PASS" ELSE "FAIL"]>>,
                  [guest[r] EXCEPT !.completed = ok])
  BY DEF GuestFinish
<1>2. PICK g : g = [guest[r] EXCEPT !.completed = ok]
  OBVIOUS
<1>3. PICK bad : bad = (rc = 0 \/ ~ok)
  OBVIOUS
<1>4. PICK a : a = [event |-> "stale_target_refusal", status |-> "REFUSE", rc |-> 23]
  OBVIOUS
<1>5. PICK b : b = [event |-> "duplicate_rollback_refusal", status |-> "REFUSE", rc |-> rc]
  OBVIOUS
<1>6. PICK c : c = [event |-> "workload_execution", status |-> IF ok THEN "PASS" ELSE "FAIL"]
  OBVIOUS
<1>7. GuestStep(r, "finish", "off", bad, <<a, b, c>>, g)
  BY <1>1, <1>2, <1>3, <1>4, <1>5, <1>6
<1>8. guest[r].pc = "finish" /\ guest[r] \in Machine /\ serial[r] \in Seq(Row)
  BY <1>7 DEF GuestStep, TypeOK
<1>9. /\ g \in Machine /\ g.attached = guest[r].attached /\ g.alive = guest[r].alive
      /\ g.kernel = guest[r].kernel /\ g.reg = guest[r].reg /\ g.restored = guest[r].restored
      /\ g.completed = ok
  BY <1>2, <1>8 DEF Machine
<1>10. /\ a \in Row /\ a.event = "stale_target_refusal"
       /\ b \in Row /\ b.event = "duplicate_rollback_refusal"
       /\ c \in Row /\ c.event = "workload_execution" /\ (c.status = "PASS" => ok = TRUE)
  BY <1>4, <1>5, <1>6 DEF Row
<1>11. /\ <<a, b, c>> \in Seq(Row) /\ DOMAIN <<a, b, c>> = {1, 2, 3}
       /\ <<a, b, c>>[1] = a /\ <<a, b, c>>[2] = b /\ <<a, b, c>>[3] = c
  BY <1>10
<1>12. ASSUME NEW h \in Machine, Becomes(g, "off", h)
       PROVE  Witnessed(serial[r] \o <<a, b, c>>, h)
  <2>0. /\ h.pc = "off" /\ h.attached = guest[r].attached /\ h.alive = guest[r].alive
        /\ h.kernel = guest[r].kernel /\ h.restored = guest[r].restored
        /\ h.reg = guest[r].reg /\ h.completed = ok
    BY <1>9, <1>12 DEF Becomes
  <2>1. Told(a, h) /\ Told(b, h) /\ Told(c, h)
    BY <1>10, <2>0 DEF Told
  <2>2. \A i \in DOMAIN <<a, b, c>> :
          Told(<<a, b, c>>[i], h) /\ <<a, b, c>>[i].event # "mutation_family"
    BY <1>10, <1>11, <2>1
  <2>3. h.reg.rc = 0 => h.attached = TRUE
    BY <2>0 DEF Witnessed
  <2> QED BY <1>8, <1>11, <2>0, <2>2, <2>3, WitnessMore
<1>13. "finish" \in GuestPlaces \ {"none", "off"} /\ "off" \in GuestPlaces /\ bad \in BOOLEAN
  BY <1>3 DEF GuestPlaces
<1> QED BY <1>7, <1>9, <1>11, <1>12, <1>13, GuestStepKeeps

\* A machine that stops keeps what its rows report.
LEMMA GuestPanicKeeps ==
    ASSUME TypeOK, NEW r \in Runs, Witnessed(serial[r], guest[r]), GuestPanic(r)
    PROVE  GuestKept(r)
<1>1. PICK torn \in BOOLEAN :
        /\ guest[r].pc \notin {"none", "off"}
        /\ GuestStep(r, guest[r].pc, "off", TRUE,
                     IF torn THEN <<[event |-> "torn"]>> ELSE <<>>, guest[r])
  BY DEF GuestPanic
<1>2. PICK more : more = IF torn THEN <<[event |-> "torn"]>> ELSE <<>>
  OBVIOUS
<1>3. GuestStep(r, guest[r].pc, "off", TRUE, more, guest[r])
  BY <1>1, <1>2
<1>4. guest[r].pc \in GuestPlaces /\ guest[r] \in Machine /\ serial[r] \in Seq(Row)
  BY DEF TypeOK, Machine
<1>5. more \in Seq(Row) /\ \A i \in DOMAIN more : more[i].event = "torn"
  <2>1. CASE torn
    <3> DEFINE t == [event |-> "torn"]
    <3>1. t \in Row /\ t.event = "torn"
      BY DEF Row
    <3> HIDE DEF t
    <3>2. <<t>> \in Seq(Row) /\ DOMAIN <<t>> = {1} /\ <<t>>[1] = t
      BY <3>1
    <3>3. more = <<t>>
      BY <1>2, <2>1 DEF t
    <3> QED BY <3>1, <3>2, <3>3
  <2>2. CASE ~torn
    BY <1>2, <2>2
  <2> QED BY <2>1, <2>2
<1>6. ASSUME NEW h \in Machine, Becomes(guest[r], "off", h)
      PROVE  Witnessed(serial[r] \o more, h)
  <2>0. /\ h.pc = "off" /\ h.attached = guest[r].attached /\ h.alive = guest[r].alive
        /\ h.kernel = guest[r].kernel /\ h.restored = guest[r].restored /\ h.reg = guest[r].reg
    BY <1>6 DEF Becomes
  <2>1. \A i \in DOMAIN more : Told(more[i], h) /\ more[i].event # "mutation_family"
    BY <1>5 DEF Told
  <2>2. h.reg.rc = 0 => h.attached = TRUE
    BY <2>0 DEF Witnessed
  <2>3. guest[r].pc \in Early \/ guest[r].pc = "registered" \/ guest[r].pc = "finish"
    BY <1>1, <1>4 DEF GuestPlaces, Early
  <2> QED BY <1>4, <1>5, <2>0, <2>1, <2>2, <2>3, WitnessMore
<1>7. guest[r].pc \in GuestPlaces \ {"none", "off"} /\ "off" \in GuestPlaces /\ TRUE \in BOOLEAN
  BY <1>1, <1>4 DEF GuestPlaces
<1> QED BY <1>3, <1>4, <1>5, <1>6, <1>7, GuestStepKeeps

\* Every stretch of the guest keeps its log true, and changes nothing else.
LEMMA GuestKeeps ==
    ASSUME TypeOK, NEW r \in Runs, Witnessed(serial[r], guest[r]), GuestNext(r)
    PROVE  GuestKept(r)
BY GuestBootKeeps, GuestWorkloadKeeps, GuestRegisterKeeps, GuestWatchdogKeeps,
   GuestUnregisterKeeps, GuestFinishKeeps, GuestPanicKeeps DEF GuestNext

-----------------------------------------------------------------------------
(* The runs side by side *)

\* Nothing of run q changes.
Apart(q) ==
    /\ pc'[q] = pc[q] /\ run'[q] = run[q] /\ guest'[q] = guest[q]
    /\ serial'[q] = serial[q] /\ bundle'[q] = bundle[q]

\* If the object on disk becomes another between the hash and the copy of q, that
\* is remembered.
Noted(q) ==
    /\ q \in mixed => q \in mixed'
    /\ object' = object \/ pc[q] \notin Hashing \/ q \in mixed'

\* A build notes every run that it takes the object from.
LEMMA BuildNotes ==
    ASSUME BuildObject
    PROVE  \A q \in Runs : Noted(q)
BY DEF BuildObject, Noted, Hashed, Hashing

\* What holds of a run keeps holding while the others move and the object is rebuilt.
LEMMA ApartKeeps ==
    ASSUME NEW q \in Runs, RunInv(q), Apart(q), Noted(q)
    PROVE  RunInv(q)'
<1>3. Witnessed(serial'[q], guest'[q])
  BY DEF RunInv, Apart
<1>4. Progress(q)'
  BY DEF RunInv, Apart, Noted, Progress, Carried
<1>5. run'[q].tampered = "no" => Filed(q)'
  <2> SUFFICES ASSUME run[q].tampered = "no" PROVE Filed(q)'
    BY DEF Apart
  <2>1. Filed(q)
    BY DEF RunInv
  <2> QED BY <2>1 DEF Filed, Apart, Noted, Carried
<1> QED BY <1>3, <1>4, <1>5 DEF RunInv

\* A directory with no file in it tells no lie.
LEMMA EmptyFiled ==
    ASSUME NEW r \in Runs, bundle'[r] = NoBundle
    PROVE  Filed(r)'
<1>1. Shaped(NoBundle) /\ NoBundle.observe = Missing /\ NoBundle.summary = Missing
  BY DEF NoBundle, Shaped
<1> QED BY <1>1 DEF Filed

\* A log without new rows stays true of a machine that only moved on.
LEMMA WitnessStill ==
    ASSUME NEW rows \in Seq(Row), NEW g, NEW h, Witnessed(rows, g),
           g.pc \in Early \/ (g.pc \in {"registered", "finish"} /\ h.pc = "off"),
           h.attached = g.attached, h.alive = g.alive, h.kernel = g.kernel,
           h.restored = g.restored, h.reg = g.reg
    PROVE  Witnessed(rows, h)
<1>1. <<>> \in Seq(Row) /\ DOMAIN <<>> = {} /\ rows \o <<>> = rows
  BY ConcatEmptySeq
<1>2. h.reg.rc = 0 => h.attached = TRUE
  BY DEF Witnessed
<1>3. Witnessed(rows \o <<>>, h)
  BY <1>1, <1>2, WitnessMore
<1> QED BY <1>1, <1>3

\* The developer and the gate leave the runs alone, but for the object.
LEMMA DeveloperKeeps ==
    ASSUME IInv, EditBpf \/ EditRest \/ Commit \/ Reset \/ GateBuild
    PROVE  IInv'
<1>1. UNCHANGED <<pc, run, guest, serial, bundle>>
  BY DEF EditBpf, EditRest, Commit, Reset, GateBuild
<1>2. tree \in Tree /\ object \in Nat
  BY DEF IInv, TypeOK
<1>3. tree' \in Tree /\ object' \in Nat
  <2>1. CASE EditBpf
    BY <1>2, <2>1, LabAssumption DEF EditBpf, Tree
  <2>2. CASE EditRest
    BY <1>2, <2>2, LabAssumption DEF EditRest, Tree
  <2>3. CASE Commit
    <3>1. PICK c, n : c = Append(tree.log, [bpf |-> tree.bpf, rest |-> tree.rest]) /\ n = Len(tree.log) + 1
      OBVIOUS
    <3>2. tree' = [tree EXCEPT !.log = c, !.head = n] /\ object' = object
      BY <2>3, <3>1 DEF Commit
    <3>3. c \in Seq([bpf : Nat, rest : Nat]) /\ n \in Nat
      <4>1. tree.log \in Seq([bpf : Nat, rest : Nat]) /\ [bpf |-> tree.bpf, rest |-> tree.rest] \in [bpf : Nat, rest : Nat]
        BY <1>2 DEF Tree
      <4> QED BY <3>1, <4>1, AppendProperties, LenProperties
    <3> QED BY <1>2, <3>2, <3>3 DEF Tree
  <2>4. CASE Reset
    <3>1. PICK c \in DOMAIN tree.log :
            tree' = [tree EXCEPT !.head = c, !.bpf = tree.log[c].bpf, !.rest = tree.log[c].rest]
      BY <2>4 DEF Reset
    <3>2. c \in Nat /\ tree.log[c] \in [bpf : Nat, rest : Nat]
      <4> DEFINE Commits == [bpf : Nat, rest : Nat]
      <4>1. PICK log : log = tree.log
        OBVIOUS
      <4>2. log \in Seq(Commits)
        BY <1>2, <4>1 DEF Tree
      <4> HIDE DEF Commits
      <4>3. c \in 1 .. Len(log) /\ Len(log) \in Nat
        BY <4>1, <4>2
      <4>4. log[c] \in Commits
        BY <4>2, <4>3, ElementOfSeq
      <4> QED BY <4>1, <4>3, <4>4 DEF Commits
    <3>3. tree.log[c].bpf \in Nat /\ tree.log[c].rest \in Nat
      BY <3>2
    <3> QED BY <1>2, <2>4, <3>1, <3>2, <3>3 DEF Reset, Tree
  <2>5. CASE GateBuild
    BY <1>2, <2>5 DEF GateBuild, BuildObject, Tree
  <2> QED BY <2>1, <2>2, <2>3, <2>4, <2>5
<1>4. \A q \in Runs : Noted(q)
  <2>1. CASE GateBuild
    BY <2>1, BuildNotes DEF GateBuild
  <2>2. CASE UNCHANGED <<object, mixed>>
    BY <2>2 DEF Noted
  <2> QED BY <2>1, <2>2 DEF EditBpf, EditRest, Commit, Reset
<1>5. TypeOK'
  BY <1>1, <1>3 DEF IInv, TypeOK
<1>6. \A q \in Runs : Apart(q)
  BY <1>1 DEF Apart
<1> QED BY <1>4, <1>5, <1>6, ApartKeeps DEF IInv

\* The guest: its files are still empty, since it is not switched off.
LEMMA GuestInv ==
    ASSUME IInv, NEW r \in Runs, GuestNext(r)
    PROVE  IInv'
<1>1. GuestKept(r)
  BY GuestKeeps DEF IInv, RunInv
<1>2. TypeOK' /\ UNCHANGED <<object, mixed>> /\ \A q \in Runs : Noted(q)
  BY <1>1 DEF GuestKept, IInv, TypeOK, Noted
<1>3. \A q \in Runs : q # r => Apart(q)
  BY <1>1 DEF GuestKept, Apart
<1>4. RunInv(r) /\ guest[r].pc \notin {"none", "off"} /\ pc'[r] = pc[r] /\ run'[r] = run[r]
      /\ bundle'[r] = bundle[r]
  BY <1>1 DEF GuestKept, IInv
<1>5. Progress(r)'
  BY <1>2, <1>4 DEF RunInv, Progress, Carried
<1>6. run'[r].tampered = "no" => Filed(r)'
  <2> SUFFICES ASSUME run[r].tampered = "no" PROVE Filed(r)'
    BY <1>4
  <2>1. Filed(r)
    BY <1>4 DEF RunInv
  <2>2. ~(bundle[r].observe # Missing)
    BY <1>4, <2>1 DEF Filed, Happened
  <2>3. ~(bundle[r].summary # Missing /\ bundle[r].summary.status = "PASS")
    BY <1>4, <2>1 DEF Filed
  <2> QED BY <1>4, <2>1, <2>2, <2>3 DEF Filed
<1>7. RunInv(r)'
  BY <1>1, <1>5, <1>6 DEF RunInv, GuestKept
<1> QED BY <1>2, <1>3, <1>7, ApartKeeps DEF IInv

\* A step of r alone: it is enough to look at r.
LEMMA OneRunKeeps ==
    ASSUME IInv, NEW r \in Runs, TypeOK', \A q \in Runs : Noted(q), RunInv(r)',
           \A q \in Runs \ {r} : Apart(q)
    PROVE  IInv'
BY ApartKeeps DEF IInv

-----------------------------------------------------------------------------
(* The runner *)

\* The runner before there is a file, with the guest and its log as they are.
LEMMA PrepareKeeps ==
    ASSUME IInv, NEW r \in Runs,
           Start(r) \/ Build(r) \/ HashObject(r) \/ ReadHead(r) \/ ReadStatus(r) \/ ReadSnapshot(r)
    PROVE  IInv'
<1>1. UNCHANGED <<tree, guest, serial, bundle>>
  BY DEF Start, Build, HashObject, ReadHead, ReadStatus, ReadSnapshot
<1>2. /\ pc \in [Runs -> RunnerPlaces] /\ run \in [Runs -> Shell] /\ run[r] \in Shell
      /\ tree \in Tree /\ object \in Nat
  BY DEF IInv, TypeOK
<1>3. tree.bpf \in Nat /\ tree.head \in Nat /\ SnapshotHash \in Snapshots /\ Dirty \in BOOLEAN
  BY <1>2 DEF Tree, SnapshotHash, Snapshots, Dirty
<1>4. pc[r] \in BeforeLaunch \ {"launch"}
  BY DEF Start, Build, HashObject, ReadHead, ReadStatus, ReadSnapshot, BeforeLaunch
<1> DEFINE Next1(v, to, o) ==
             /\ run' = [run EXCEPT ![r] = v] /\ v \in Shell /\ v.tampered = run[r].tampered
             /\ pc' = [pc EXCEPT ![r] = to] /\ to \in BeforeLaunch
             /\ object' = o /\ o \in {object, tree.bpf}
             /\ to \in Hashing => /\ object' = object /\ mixed' = mixed /\ v.objectSha \in Nat
                                   /\ (v.objectSha = object \/ r \in mixed)
             /\ \A q \in Runs : Noted(q)
<1>5. \E v, to, o : Next1(v, to, o)
  <2>0. ASSUME UNCHANGED <<object, mixed>> PROVE \A q \in Runs : Noted(q)
    BY <2>0 DEF Noted
  <2>1. CASE Start(r)
    <3>0. PICK quiet : quiet = (QemuAlive = {})
      OBVIOUS
    <3>1. PICK v : v = [run[r] EXCEPT !.scanBefore = quiet]
      OBVIOUS
    <3>2. v \in Shell /\ v.tampered = run[r].tampered
      <4>1. quiet \in BOOLEAN
        BY <3>0
      <4> QED BY <1>2, <3>1, <4>1 DEF Shell
    <3>3. Next1(v, "build", object)
      BY <1>2, <2>1, <2>0, <3>0, <3>1, <3>2 DEF Start, Goto, BeforeLaunch, Hashing
    <3> QED BY <3>3
  <2>2. CASE Build(r)
    <3>1. run' = [run EXCEPT ![r] = run[r]]
      BY <1>2, <2>2 DEF Build
    <3>2. /\ pc' = [pc EXCEPT ![r] = "hash"] /\ object' = tree.bpf /\ "hash" \in BeforeLaunch
          /\ "hash" \notin Hashing
      BY <2>2 DEF Build, BuildObject, Goto, BeforeLaunch, Hashing
    <3>3. \A q \in Runs : Noted(q)
      BY <2>2, BuildNotes DEF Build
    <3>4. Next1(run[r], "hash", tree.bpf)
      BY <1>2, <3>1, <3>2, <3>3
    <3> QED BY <3>4
  <2>7. CASE HashObject(r)
    <3>1. PICK v : v = [run[r] EXCEPT !.objectSha = object]
      OBVIOUS
    <3>2. v \in Shell /\ v.tampered = run[r].tampered /\ v.objectSha = object
      BY <1>2, <3>1 DEF Shell
    <3>3. UNCHANGED <<object, mixed>> /\ \A q \in Runs : Noted(q)
      BY <2>7 DEF HashObject, Noted
    <3>4. Next1(v, "head", object)
      BY <1>2, <2>7, <3>1, <3>2, <3>3 DEF HashObject, Goto, BeforeLaunch
    <3> QED BY <3>4
  <2>3. ASSUME pc[r] \in {"head", "status", "snapshot"}
        PROVE  run[r].objectSha \in Nat /\ (run[r].objectSha = object \/ r \in mixed)
    BY <2>3 DEF IInv, RunInv, Progress, Hashing
  <2>4. CASE ReadHead(r)
    <3>1. PICK v : v = [run[r] EXCEPT !.head = tree.head]
      OBVIOUS
    <3>2. v \in Shell /\ v.tampered = run[r].tampered /\ v.objectSha = run[r].objectSha
      BY <1>2, <1>3, <3>1 DEF Shell
    <3>3. pc[r] = "head"
      BY <2>4 DEF ReadHead
    <3>4. Next1(v, "status", object)
      BY <1>2, <2>3, <2>4, <2>0, <3>1, <3>2, <3>3 DEF ReadHead, Goto, BeforeLaunch
    <3> QED BY <3>4
  <2>5. CASE ReadStatus(r)
    <3>1. PICK v : v = [run[r] EXCEPT !.dirty = Dirty]
      OBVIOUS
    <3>2. v \in Shell /\ v.tampered = run[r].tampered /\ v.objectSha = run[r].objectSha
      BY <1>2, <1>3, <3>1 DEF Shell
    <3>3. pc[r] = "status"
      BY <2>5 DEF ReadStatus
    <3>4. PICK to : to = IF Dirty THEN "snapshot" ELSE "launch"
      OBVIOUS
    <3>5. Next1(v, to, object)
      BY <1>2, <2>3, <2>5, <2>0, <3>1, <3>2, <3>3, <3>4 DEF ReadStatus, Goto, BeforeLaunch
    <3> QED BY <3>5
  <2>6. CASE ReadSnapshot(r)
    <3>1. PICK v : v = [run[r] EXCEPT !.snapshot = SnapshotHash]
      OBVIOUS
    <3>2. v \in Shell /\ v.tampered = run[r].tampered /\ v.objectSha = run[r].objectSha
      BY <1>2, <1>3, <3>1 DEF Shell
    <3>3. pc[r] = "snapshot"
      BY <2>6 DEF ReadSnapshot
    <3>4. Next1(v, "launch", object)
      BY <1>2, <2>3, <2>6, <2>0, <3>1, <3>2, <3>3 DEF ReadSnapshot, Goto, BeforeLaunch
    <3> QED BY <3>4
  <2> QED BY <2>1, <2>2, <2>4, <2>5, <2>6, <2>7
<1>6. PICK v, to, o : Next1(v, to, o)
  BY <1>5
<1>7. object' \in Nat /\ \A q \in Runs : Noted(q)
  BY <1>2, <1>3, <1>6
<1>8. /\ pc' \in [Runs -> RunnerPlaces] /\ run' \in [Runs -> Shell]
      /\ pc'[r] = to /\ run'[r] = v
      /\ \A q \in Runs \ {r} : pc'[q] = pc[q] /\ run'[q] = run[q]
  BY <1>2, <1>6 DEF RunnerPlaces, BeforeLaunch
<1>9. TypeOK'
  BY <1>1, <1>7, <1>8 DEF IInv, TypeOK
<1>10. \A q \in Runs \ {r} : Apart(q)
  BY <1>1, <1>8 DEF Apart
<1>11. RunInv(r)
  BY DEF IInv
<1>12. guest[r].pc = "none" /\ bundle[r] = NoBundle /\ run[r].tampered = "no"
  BY <1>4, <1>11 DEF RunInv, Progress, BeforeLaunch, BeforeParse, Ended
<1>13. Progress(r)'
  <2>1. /\ to \in BeforeLaunch /\ v.tampered = "no"
        /\ to \in Hashing => v.objectSha \in Nat /\ (v.objectSha = object' \/ r \in mixed')
    BY <1>6, <1>12
  <2> QED BY <1>1, <1>8, <1>12, <2>1 DEF Progress, BeforeLaunch, BeforeParse, AfterParse
<1>14. Filed(r)'
  BY <1>1, <1>12, EmptyFiled
<1> QED BY <1>1, <1>7, <1>9, <1>10, <1>11, <1>13, <1>14, OneRunKeeps DEF RunInv

\* The guest gets the object as it is on disk, which is the one that was hashed
\* unless the run is noted.
LEMMA LaunchKeeps ==
    ASSUME IInv, NEW r \in Runs, Launch(r)
    PROVE  IInv'
<1>1. UNCHANGED <<tree, object, mixed, serial, bundle>> /\ pc[r] = "launch"
  BY DEF Launch
<1>2. /\ pc \in [Runs -> RunnerPlaces] /\ run \in [Runs -> Shell] /\ run[r] \in Shell
      /\ guest \in [Runs -> Machine] /\ guest[r] \in Machine /\ object \in Nat
      /\ serial[r] \in Seq(Row)
  BY DEF IInv, TypeOK
<1>3. RunInv(r)
  BY DEF IInv
<1>4. /\ guest[r].pc = "none" /\ bundle[r] = NoBundle /\ run[r].tampered = "no"
      /\ run[r].objectSha \in Nat /\ (run[r].objectSha = object \/ r \in mixed)
  BY <1>1, <1>3 DEF RunInv, Progress, BeforeLaunch, BeforeParse, Ended, Hashing
<1>5. PICK v : v = [run[r] EXCEPT !.ranObject = object, !.scratch = TRUE]
  OBVIOUS
<1>6. v \in Shell /\ v.tampered = "no" /\ v.objectSha = run[r].objectSha /\ v.ranObject = object
  BY <1>2, <1>4, <1>5 DEF Shell
<1>7. PICK g : g = [guest[r] EXCEPT !.pc = "boot"]
  OBVIOUS
<1>8. /\ g \in Machine /\ g.pc = "boot" /\ g.attached = guest[r].attached /\ g.alive = guest[r].alive
      /\ g.kernel = guest[r].kernel /\ g.restored = guest[r].restored /\ g.reg = guest[r].reg
  BY <1>2, <1>7 DEF Machine, GuestPlaces
<1>9. /\ run' = [run EXCEPT ![r] = v] /\ guest' = [guest EXCEPT ![r] = g]
      /\ pc' = [pc EXCEPT ![r] = "running"]
  BY <1>2, <1>5, <1>7 DEF Launch, Goto
<1>10. /\ pc' \in [Runs -> RunnerPlaces] /\ run' \in [Runs -> Shell] /\ guest' \in [Runs -> Machine]
       /\ pc'[r] = "running" /\ run'[r] = v /\ guest'[r] = g
       /\ \A q \in Runs \ {r} : pc'[q] = pc[q] /\ run'[q] = run[q] /\ guest'[q] = guest[q]
  BY <1>2, <1>6, <1>8, <1>9 DEF RunnerPlaces
<1>11. TypeOK'
  BY <1>1, <1>10 DEF IInv, TypeOK
<1>12. \A q \in Runs \ {r} : Apart(q)
  BY <1>1, <1>10 DEF Apart
<1>13. Witnessed(serial'[r], guest'[r])
  BY <1>1, <1>2, <1>3, <1>4, <1>8, <1>10, WitnessStill DEF RunInv, Early
<1>14. UNCHANGED <<object, mixed>> /\ \A q \in Runs : Noted(q)
  BY <1>1, <1>2 DEF Noted
<1>15. Progress(r)'
  BY <1>1, <1>2, <1>4, <1>6, <1>10, <1>14
     DEF Progress, BeforeLaunch, BeforeParse, AfterParse, Carried, Hashing
<1>16. Filed(r)'
  BY <1>1, <1>4, EmptyFiled
<1> QED BY <1>11, <1>12, <1>13, <1>14, <1>15, <1>16, OneRunKeeps DEF RunInv

\* The retry of a machine that did not boot starts a new log.
LEMMA IoUringKeeps ==
    ASSUME IInv, NEW r \in Runs, IoUringFailure(r)
    PROVE  IInv'
<1>1. UNCHANGED <<tree, object, mixed, pc, bundle>> /\ pc[r] = "running" /\ guest[r].pc = "boot"
  BY DEF IoUringFailure
<1>2. /\ run \in [Runs -> Shell] /\ run[r] \in Shell /\ object \in Nat
      /\ guest \in [Runs -> Machine] /\ guest[r] \in Machine /\ serial \in [Runs -> Seq(Row)]
  BY DEF IInv, TypeOK
<1>3. RunInv(r)
  BY DEF IInv
<1>4. /\ bundle[r] = NoBundle /\ run[r].tampered = "no"
      /\ Carried(r, run[r])
  BY <1>1, <1>3 DEF RunInv, Progress, BeforeParse, Ended
<1>5. PICK supported \in BOOLEAN :
        guest' = [guest EXCEPT ![r].pc = IF supported THEN "boot" ELSE "off", ![r].faulty = ~supported]
  BY DEF IoUringFailure
<1>6. PICK to, bad : to = (IF supported THEN "boot" ELSE "off") /\ bad = ~supported
  OBVIOUS
<1>7. to \in {"boot", "off"} /\ bad \in BOOLEAN
  BY <1>6
<1>8. PICK g : g = [guest[r] EXCEPT !.pc = to, !.faulty = bad]
  OBVIOUS
<1>9. g \in Machine /\ g.pc = to /\ g.attached = guest[r].attached /\ g.reg = guest[r].reg
  BY <1>2, <1>7, <1>8 DEF Machine, GuestPlaces
<1>10. PICK v : v = [run[r] EXCEPT !.attempt = 2]
  OBVIOUS
<1>11. /\ v \in Shell /\ v.tampered = "no" /\ v.objectSha = run[r].objectSha
       /\ v.ranObject = run[r].ranObject
  BY <1>2, <1>4, <1>10 DEF Shell
<1>12. guest' = [guest EXCEPT ![r] = g]
  BY <1>2, <1>5, <1>6, <1>8
<1>13. run' = [run EXCEPT ![r] = v] /\ serial' = [serial EXCEPT ![r] = <<>>]
  BY <1>2, <1>10 DEF IoUringFailure
<1>14. <<>> \in Seq(Row) /\ DOMAIN <<>> = {}
  OBVIOUS
<1>15. /\ run' \in [Runs -> Shell] /\ guest' \in [Runs -> Machine] /\ serial' \in [Runs -> Seq(Row)]
       /\ run'[r] = v /\ guest'[r] = g /\ serial'[r] = <<>>
       /\ \A q \in Runs \ {r} : run'[q] = run[q] /\ guest'[q] = guest[q] /\ serial'[q] = serial[q]
  BY <1>2, <1>9, <1>11, <1>12, <1>13, <1>14
<1>16. TypeOK'
  BY <1>1, <1>15 DEF IInv, TypeOK
<1>17. \A q \in Runs \ {r} : Apart(q)
  BY <1>1, <1>15 DEF Apart
<1>18. Witnessed(serial'[r], guest'[r])
  <2>1. g.reg.rc = 0 => g.attached = TRUE
    BY <1>3, <1>9 DEF RunInv, Witnessed
  <2> QED BY <1>14, <1>15, <2>1 DEF Witnessed, BreakageTold
<1>19. UNCHANGED <<object, mixed>> /\ \A q \in Runs : Noted(q)
  BY <1>1, <1>2 DEF Noted
<1>20. Progress(r)'
  BY <1>1, <1>4, <1>11, <1>15, <1>19
     DEF Progress, BeforeLaunch, BeforeParse, AfterParse, Carried, Hashing
<1>21. Filed(r)'
  BY <1>1, <1>4, EmptyFiled
<1> QED BY <1>16, <1>17, <1>18, <1>19, <1>20, <1>21, OneRunKeeps DEF RunInv

\* timeout(1), also under a runner that is dead: a machine that is on has no file yet.
LEMMA TimeoutKeeps ==
    ASSUME IInv, NEW r \in Runs, Timeout(r)
    PROVE  IInv'
<1>1. UNCHANGED <<tree, object, mixed, pc, serial, bundle>> /\ guest[r].pc \notin {"none", "off"}
  BY DEF Timeout
<1>2. /\ run \in [Runs -> Shell] /\ run[r] \in Shell /\ object \in Nat
      /\ guest \in [Runs -> Machine] /\ guest[r] \in Machine /\ serial[r] \in Seq(Row)
  BY DEF IInv, TypeOK
<1>3. RunInv(r)
  BY DEF IInv
<1>4. PICK g : g = [guest[r] EXCEPT !.pc = "off", !.faulty = TRUE]
  OBVIOUS
<1>5. /\ g \in Machine /\ g.pc = "off" /\ g.attached = guest[r].attached /\ g.alive = guest[r].alive
      /\ g.kernel = guest[r].kernel /\ g.restored = guest[r].restored /\ g.reg = guest[r].reg
  BY <1>2, <1>4 DEF Machine, GuestPlaces
<1>6. PICK v : v = [run[r] EXCEPT !.rc = 124]
  OBVIOUS
<1>7. /\ v \in Shell /\ v.tampered = run[r].tampered /\ v.objectSha = run[r].objectSha
      /\ v.ranObject = run[r].ranObject
  <2>1. v \in Shell
    <3>1. run[r] \in Shell
      BY <1>2
    <3> QED BY ONLY <1>6, <3>1 DEF Shell
  <2>2. /\ v.tampered = run[r].tampered /\ v.objectSha = run[r].objectSha
        /\ v.ranObject = run[r].ranObject
    BY <1>2, <1>6 DEF Shell
  <2> QED BY <2>1, <2>2
<1>8. guest' = [guest EXCEPT ![r] = g] /\ run' = [run EXCEPT ![r] = v]
  BY <1>2, <1>4, <1>6 DEF Timeout
<1>9. /\ run' \in [Runs -> Shell] /\ guest' \in [Runs -> Machine]
      /\ run'[r] = v /\ guest'[r] = g
      /\ \A q \in Runs \ {r} : run'[q] = run[q] /\ guest'[q] = guest[q]
  BY <1>2, <1>5, <1>7, <1>8
<1>10. TypeOK'
  BY <1>1, <1>9 DEF IInv, TypeOK
<1>11. \A q \in Runs \ {r} : Apart(q)
  BY <1>1, <1>9 DEF Apart
<1>12. Witnessed(serial'[r], guest'[r])
  <2>1. guest[r].pc \in Early \/ guest[r].pc \in {"registered", "finish"}
    BY <1>1, <1>2 DEF Machine, GuestPlaces, Early
  <2> QED BY <1>1, <1>2, <1>3, <1>5, <1>9, <2>1, WitnessStill DEF RunInv
<1>13. UNCHANGED <<object, mixed>> /\ \A q \in Runs : Noted(q)
  BY <1>1, <1>2 DEF Noted
<1>14. Progress(r)'
  BY <1>1, <1>3, <1>5, <1>7, <1>9, <1>13
     DEF RunInv, Progress, BeforeLaunch, BeforeParse, AfterParse, Carried, Hashing
<1>15. v.tampered = "no" => Filed(r)'
  <2> SUFFICES ASSUME run[r].tampered = "no" PROVE Filed(r)'
    BY <1>7
  <2>1. Filed(r)
    BY <1>3 DEF RunInv
  <2>2. ~(bundle[r].observe # Missing)
    BY <1>1, <2>1 DEF Filed, Happened
  <2>3. ~(bundle[r].summary # Missing /\ bundle[r].summary.status = "PASS")
    BY <1>1, <2>1 DEF Filed
  <2> QED BY <1>1, <2>1, <2>2, <2>3 DEF Filed
<1> QED BY <1>9, <1>10, <1>11, <1>12, <1>13, <1>14, <1>15, OneRunKeeps DEF RunInv

\* A run that fails before its report leaves no file, or that of an incident.
LEMMA FailKeeps ==
    ASSUME IInv, NEW r \in Runs, Fail(r), UNCHANGED <<tree, object, mixed>>,
           NEW b, bundle' = [bundle EXCEPT ![r] = b], Shaped(b), b.observe = Missing,
           b.summary = Missing \/ b.summary.status # "PASS"
    PROVE  IInv'
<1>1. /\ pc \in [Runs -> RunnerPlaces] /\ run \in [Runs -> Shell] /\ guest \in [Runs -> Machine]
      /\ serial \in [Runs -> Seq(Row)] /\ bundle = [q \in Runs |-> bundle[q]] /\ object \in Nat
  BY DEF IInv, TypeOK
<1>2. NoRun \in Shell /\ NoRun.tampered = "no"
  BY DEF NoRun, Shell
<1>3. NoGuest \in Machine /\ NoGuest.reg.rc = 1
  BY DEF NoGuest, Machine, GuestPlaces
<1>4. <<>> \in Seq(Row) /\ DOMAIN <<>> = {}
  OBVIOUS
<1>5. /\ pc' = [pc EXCEPT ![r] = "failed"] /\ run' = [run EXCEPT ![r] = NoRun]
      /\ guest' = [guest EXCEPT ![r] = NoGuest] /\ serial' = [serial EXCEPT ![r] = <<>>]
  BY DEF Fail, Goto
<1>6. /\ pc' \in [Runs -> RunnerPlaces] /\ run' \in [Runs -> Shell] /\ guest' \in [Runs -> Machine]
      /\ serial' \in [Runs -> Seq(Row)]
      /\ pc'[r] = "failed" /\ run'[r] = NoRun /\ guest'[r] = NoGuest /\ serial'[r] = <<>>
      /\ \A q \in Runs \ {r} : /\ pc'[q] = pc[q] /\ run'[q] = run[q] /\ guest'[q] = guest[q]
                               /\ serial'[q] = serial[q]
  BY <1>1, <1>2, <1>3, <1>4, <1>5 DEF RunnerPlaces, Ended
<1>7. /\ bundle' = [q \in Runs |-> bundle'[q]] /\ bundle'[r] = b
      /\ \A q \in Runs \ {r} : bundle'[q] = bundle[q]
  BY <1>1
<1>8. TypeOK'
  BY <1>6, <1>7 DEF IInv, TypeOK
<1>9. \A q \in Runs \ {r} : Apart(q)
  BY <1>6, <1>7 DEF Apart
<1>10. Witnessed(serial'[r], guest'[r])
  BY <1>3, <1>4, <1>6 DEF Witnessed, BreakageTold
<1>11. Progress(r)'
  BY <1>2, <1>6 DEF Progress, BeforeLaunch, BeforeParse, AfterParse, Ended, Hashing
<1>12. Filed(r)'
  BY <1>7 DEF Filed
<1>13. \A q \in Runs : Noted(q)
  BY DEF Noted
<1> QED BY <1>8, <1>9, <1>10, <1>11, <1>12, <1>13, OneRunKeeps DEF RunInv

\* The report of a timeout is no PASS.
LEMMA IncidentIsNoPass ==
    ASSUME NEW v
    PROVE  emit_timeout_report(v).status # "PASS"
BY DEF emit_timeout_report, summary_payload

\* The second scan: the guest is off when the log is parsed.
LEMMA ScanAfterKeeps ==
    ASSUME IInv, NEW r \in Runs, ScanAfter(r)
    PROVE  IInv'
<1>1. UNCHANGED <<tree, object, mixed>> /\ pc[r] = "running" /\ guest[r].pc = "off"
  BY DEF ScanAfter
<1>2. /\ pc \in [Runs -> RunnerPlaces] /\ run \in [Runs -> Shell] /\ run[r] \in Shell
      /\ bundle = [q \in Runs |-> bundle[q]] /\ object \in Nat
  BY DEF IInv, TypeOK
<1>3. RunInv(r)
  BY DEF IInv
<1>4. /\ bundle[r] = NoBundle /\ run[r].tampered = "no"
      /\ Carried(r, run[r])
  BY <1>1, <1>3 DEF RunInv, Progress, BeforeParse, Ended
<1>5. PICK quiet : quiet = (QemuAlive = {})
  OBVIOUS
<1>6. PICK v : v = [run[r] EXCEPT !.scanAfter = quiet]
  OBVIOUS
<1>7. /\ v \in Shell /\ v.tampered = "no" /\ v.objectSha = run[r].objectSha
      /\ v.ranObject = run[r].ranObject
  <2>1. quiet \in BOOLEAN
    BY <1>5
  <2> QED BY <1>2, <1>4, <1>6, <2>1 DEF Shell
<1>8. \/ bundle' = [bundle EXCEPT ![r].summary = emit_timeout_report(v)] /\ Fail(r)
      \/ bundle' = bundle /\ Fail(r)
      \/ /\ run' = [run EXCEPT ![r] = v] /\ Goto(r, "parse")
         /\ UNCHANGED <<guest, serial, bundle>>
  BY <1>5, <1>6 DEF ScanAfter
<1>9. CASE bundle' = [bundle EXCEPT ![r].summary = emit_timeout_report(v)] /\ Fail(r)
  <2>1. PICK u : u = emit_timeout_report(v)
    OBVIOUS
  <2>2. PICK b : b = [NoBundle EXCEPT !.summary = u]
    OBVIOUS
  <2>3. Shaped(b) /\ b.observe = Missing /\ b.summary = u
    BY <2>2 DEF NoBundle, Shaped
  <2>4. u.status # "PASS"
    BY <2>1, IncidentIsNoPass
  <2>5. bundle' = [bundle EXCEPT ![r] = b]
    BY <1>2, <1>4, <1>9, <2>1, <2>2
  <2> QED BY <1>1, <1>9, <2>3, <2>4, <2>5, FailKeeps
<1>10. CASE bundle' = bundle /\ Fail(r)
  <2>1. Shaped(NoBundle) /\ NoBundle.observe = Missing /\ NoBundle.summary = Missing
    BY DEF NoBundle, Shaped
  <2>2. bundle' = [bundle EXCEPT ![r] = NoBundle]
    BY <1>2, <1>4, <1>10
  <2> QED BY <1>1, <1>10, <2>1, <2>2, FailKeeps
<1>11. CASE /\ run' = [run EXCEPT ![r] = v] /\ Goto(r, "parse")
            /\ UNCHANGED <<guest, serial, bundle>>
  <2>1. /\ pc' \in [Runs -> RunnerPlaces] /\ run' \in [Runs -> Shell]
        /\ pc'[r] = "parse" /\ run'[r] = v
        /\ \A q \in Runs \ {r} : pc'[q] = pc[q] /\ run'[q] = run[q]
    BY <1>2, <1>7, <1>11 DEF Goto, RunnerPlaces
  <2>2. TypeOK'
    BY <1>1, <1>11, <2>1 DEF IInv, TypeOK
  <2>3. \A q \in Runs \ {r} : Apart(q)
    BY <1>11, <2>1 DEF Apart
  <2>4. Witnessed(serial'[r], guest'[r])
    BY <1>3, <1>11 DEF RunInv
  <2>5. UNCHANGED <<object, mixed>> /\ \A q \in Runs : Noted(q)
    BY <1>1, <1>2 DEF Noted
  <2>6. Progress(r)'
    BY <1>1, <1>4, <1>7, <1>11, <2>1, <2>5
       DEF Progress, BeforeLaunch, BeforeParse, AfterParse, Carried, Hashing
  <2>7. Filed(r)'
    BY <1>4, <1>11, EmptyFiled
  <2> QED BY <2>2, <2>3, <2>4, <2>5, <2>6, <2>7, OneRunKeeps DEF RunInv
<1> QED BY <1>8, <1>9, <1>10, <1>11

\* The report: it is written only if everything it claims is in the log.
LEMMA ParseKeeps ==
    ASSUME IInv, NEW r \in Runs, Parse(r)
    PROVE  IInv'
<1>1. UNCHANGED <<tree, object, mixed>> /\ pc[r] = "parse"
  BY DEF Parse
<1>2. /\ pc \in [Runs -> RunnerPlaces] /\ run[r] \in Shell /\ serial[r] \in Seq(Row)
      /\ bundle = [q \in Runs |-> bundle[q]] /\ object \in Nat
  BY DEF IInv, TypeOK
<1>3. RunInv(r)
  BY DEF IInv
<1>4. /\ bundle[r] = NoBundle /\ run[r].tampered = "no" /\ guest[r].pc = "off"
      /\ Carried(r, run[r])
  BY <1>1, <1>3 DEF RunInv, Progress, BeforeParse, Ended
<1>5. CASE ~parse_serial(serial[r])
  <2>1. Shaped(NoBundle) /\ NoBundle.observe = Missing /\ NoBundle.summary = Missing
    BY DEF NoBundle, Shaped
  <2>2. Fail(r) /\ bundle' = bundle
    BY <1>5 DEF Parse
  <2>3. bundle' = [bundle EXCEPT ![r] = NoBundle]
    BY <1>2, <1>4, <2>2
  <2> QED BY <1>1, <2>1, <2>2, <2>3, FailKeeps
<1>6. CASE parse_serial(serial[r])
  <2>1. PICK b : b = Outputs(run[r], serial[r], Scenario[r])
    OBVIOUS
  <2>2. PICK to : to = IF run[r].dirty THEN "provenance" ELSE "summary"
    OBVIOUS
  <2>3. to \in {"provenance", "summary"}
    BY <2>2
  <2>4. /\ bundle' = [bundle EXCEPT ![r] = b] /\ pc' = [pc EXCEPT ![r] = to]
        /\ UNCHANGED <<run, guest, serial>>
    BY <1>6, <2>1, <2>2 DEF Parse, Goto
  <2>5. Shaped(b) /\ b.summary = Missing
    BY <2>1 DEF Outputs, Shaped
  <2>6. Happened(b, guest[r], Scenario[r])
    BY <1>2, <1>3, <1>4, <1>6, <2>1, ReportHappened DEF RunInv
  <2>7. /\ pc' \in [Runs -> RunnerPlaces] /\ pc'[r] = to /\ bundle'[r] = b
        /\ bundle' = [q \in Runs |-> bundle'[q]]
        /\ \A q \in Runs \ {r} : pc'[q] = pc[q] /\ bundle'[q] = bundle[q]
    BY <1>2, <2>3, <2>4 DEF RunnerPlaces
  <2>8. TypeOK'
    BY <1>1, <2>4, <2>7 DEF IInv, TypeOK
  <2>9. \A q \in Runs \ {r} : Apart(q)
    BY <2>4, <2>7 DEF Apart
  <2>10. Witnessed(serial'[r], guest'[r])
    BY <1>3, <2>4 DEF RunInv
  <2>11. UNCHANGED <<object, mixed>> /\ \A q \in Runs : Noted(q)
    BY <1>1, <1>2 DEF Noted
  <2>12. Progress(r)'
    BY <1>4, <2>3, <2>4, <2>5, <2>7, <2>11
       DEF Progress, BeforeLaunch, BeforeParse, AfterParse, Hashing, Carried
  <2>13. Filed(r)'
    BY <2>3, <2>4, <2>5, <2>6, <2>7 DEF Filed, AfterParse
  <2> QED BY <2>8, <2>9, <2>10, <2>11, <2>12, <2>13, OneRunKeeps DEF RunInv
<1> QED BY <1>5, <1>6

\* The provenance, the end of the checks and a kill change no file of the bundle.
LEMMA PlaceKeeps ==
    ASSUME IInv, NEW r \in Runs, UNCHANGED <<tree, object, mixed, guest, bundle>>,
           NEW from, NEW to, pc[r] = from, pc' = [pc EXCEPT ![r] = to],
           \/ from = "provenance" /\ to = "summary"
           \/ from = "checks" /\ to \in {"exited", "failed"}
           \/ from \notin Ended \cup {"idle"} /\ to = "killed",
           NEW v, run' = [run EXCEPT ![r] = v], v \in Shell,
           summary_payload(v) = summary_payload(run[r]), v.ranObject = run[r].ranObject,
           v.objectSha = run[r].objectSha, v.tampered = run[r].tampered,
           NEW rows \in Seq(Row), serial' = [serial EXCEPT ![r] = rows], rows \in {serial[r], <<>>}
    PROVE  IInv'
<1>1. /\ pc \in [Runs -> RunnerPlaces] /\ run \in [Runs -> Shell] /\ serial \in [Runs -> Seq(Row)]
      /\ object \in Nat /\ bundle = [q \in Runs |-> bundle[q]]
  BY DEF IInv, TypeOK
<1>2. RunInv(r)
  BY DEF IInv
<1>3. /\ pc' \in [Runs -> RunnerPlaces] /\ run' \in [Runs -> Shell] /\ serial' \in [Runs -> Seq(Row)]
      /\ pc'[r] = to /\ run'[r] = v /\ serial'[r] = rows
      /\ \A q \in Runs \ {r} : pc'[q] = pc[q] /\ run'[q] = run[q] /\ serial'[q] = serial[q]
  BY <1>1 DEF RunnerPlaces, Ended
<1>4. TypeOK'
  BY <1>3 DEF IInv, TypeOK
<1>5. \A q \in Runs \ {r} : Apart(q)
  BY <1>3 DEF Apart
<1>6. UNCHANGED <<object, mixed>> /\ \A q \in Runs : Noted(q)
  BY <1>1 DEF Noted
<1>7. Witnessed(serial'[r], guest'[r])
  <2>1. CASE rows = serial[r]
    BY <1>2, <1>3, <2>1 DEF RunInv
  <2>2. CASE rows = <<>>
    BY <1>2, <1>3, <2>2 DEF RunInv, Witnessed, BreakageTold
  <2> QED BY <2>1, <2>2
<1>8. Carried(r, run[r]) => Carried(r, v)'
  BY <1>6 DEF Carried
<1>9. Progress(r)'
  <2>1. Progress(r)
    BY <1>2 DEF RunInv
  <2> QED BY <1>3, <1>6, <1>8, <2>1
          DEF Progress, BeforeLaunch, BeforeParse, AfterParse, Ended, Hashing
<1>10. run'[r].tampered = "no" => Filed(r)'
  <2> SUFFICES ASSUME run[r].tampered = "no" PROVE Filed(r)'
    BY <1>3
  <2>1. Filed(r)
    BY <1>2 DEF RunInv
  <2>2. bundle[r].observe # Missing => to \in AfterParse \cup Ended
    BY <1>3 DEF AfterParse, Ended
  <2>3. bundle[r].summary # Missing /\ bundle[r].summary.status = "PASS" => to \in {"checks"} \cup Ended
    BY <2>1 DEF Filed, Ended
  <2> QED BY <1>3, <1>6, <1>8, <2>1, <2>2, <2>3 DEF Filed
<1> QED BY <1>4, <1>5, <1>6, <1>7, <1>9, <1>10, OneRunKeeps DEF RunInv

\* The shared provenance is written between the report and the summary.
LEMMA WriteProvenanceKeeps ==
    ASSUME IInv, NEW r \in Runs, WriteProvenance(r)
    PROVE  IInv'
<1>1. run \in [Runs -> Shell] /\ run[r] \in Shell /\ serial \in [Runs -> Seq(Row)] /\ serial[r] \in Seq(Row)
  BY DEF IInv, TypeOK
<1>2. /\ UNCHANGED <<tree, object, mixed, guest, bundle, run, serial>>
      /\ pc[r] = "provenance" /\ pc' = [pc EXCEPT ![r] = "summary"]
  BY DEF WriteProvenance, Goto
<1>3. run' = [run EXCEPT ![r] = run[r]] /\ serial' = [serial EXCEPT ![r] = serial[r]]
  BY <1>1, <1>2
<1> QED BY <1>1, <1>2, <1>3, PlaceKeeps

\* SIGKILL leaves everything where it is.
LEMMA KillKeeps ==
    ASSUME IInv, NEW r \in Runs, Kill(r)
    PROVE  IInv'
<1>1. run \in [Runs -> Shell] /\ run[r] \in Shell /\ serial \in [Runs -> Seq(Row)] /\ serial[r] \in Seq(Row)
  BY DEF IInv, TypeOK
<1>2. /\ UNCHANGED <<tree, object, mixed, guest, bundle, run, serial>>
      /\ pc[r] \notin Ended \cup {"idle"} /\ pc' = [pc EXCEPT ![r] = "killed"]
  BY DEF Kill, Goto
<1>3. run' = [run EXCEPT ![r] = run[r]] /\ serial' = [serial EXCEPT ![r] = serial[r]]
  BY <1>1, <1>2
<1> QED BY <1>1, <1>2, <1>3, PlaceKeeps

\* The adapter's own checks read the files; the trap removes the log.
LEMMA RunChecksKeeps ==
    ASSUME IInv, NEW r \in Runs, RunChecks(r)
    PROVE  IInv'
<1>1. run \in [Runs -> Shell] /\ run[r] \in Shell /\ serial \in [Runs -> Seq(Row)]
  BY DEF IInv, TypeOK
<1>2. /\ UNCHANGED <<tree, object, mixed, guest, bundle>> /\ pc[r] = "checks"
      /\ serial' = [serial EXCEPT ![r] = <<>>]
      /\ run' = [run EXCEPT ![r].scratch = FALSE]
  BY DEF RunChecks
<1>3. PICK to \in {"exited", "failed"} : pc' = [pc EXCEPT ![r] = to]
  BY DEF RunChecks, Goto
<1>4. PICK v : v = [run[r] EXCEPT !.scratch = FALSE]
  OBVIOUS
<1>5. /\ v \in Shell /\ v.tampered = run[r].tampered /\ v.objectSha = run[r].objectSha
      /\ v.ranObject = run[r].ranObject /\ v.head = run[r].head /\ v.dirty = run[r].dirty
      /\ v.snapshot = run[r].snapshot /\ v.scanBefore = run[r].scanBefore
      /\ v.scanAfter = run[r].scanAfter
  BY <1>1, <1>4 DEF Shell
<1>6. summary_payload(v) = summary_payload(run[r])
  BY <1>5 DEF summary_payload
<1>7. run' = [run EXCEPT ![r] = v]
  BY <1>1, <1>2, <1>4
<1>8. <<>> \in Seq(Row)
  OBVIOUS
<1> QED BY <1>1, <1>2, <1>3, <1>5, <1>6, <1>7, <1>8, PlaceKeeps

\* The summary is that of the variables the script still holds.
LEMMA WriteSummaryKeeps ==
    ASSUME IInv, NEW r \in Runs, WriteSummary(r)
    PROVE  IInv'
<1>1. /\ UNCHANGED <<tree, object, mixed, run, guest, serial>> /\ pc[r] = "summary"
      /\ pc' = [pc EXCEPT ![r] = "checks"]
      /\ bundle' = [bundle EXCEPT ![r].summary = summary_payload(run[r])]
  BY DEF WriteSummary, Goto
<1>2. /\ pc \in [Runs -> RunnerPlaces] /\ bundle = [q \in Runs |-> bundle[q]] /\ object \in Nat
  BY DEF IInv, TypeOK
<1>3. RunInv(r)
  BY DEF IInv
<1>4. /\ run[r].tampered = "no" /\ guest[r].pc = "off"
      /\ Carried(r, run[r])
  BY <1>1, <1>3 DEF RunInv, Progress, AfterParse, Ended
<1>5. Filed(r)
  BY <1>3, <1>4 DEF RunInv
<1>6. PICK u : u = summary_payload(run[r])
  OBVIOUS
<1>7. PICK b : b = [bundle[r] EXCEPT !.summary = u]
  OBVIOUS
<1>8. Shaped(b) /\ b.observe = bundle[r].observe /\ b.samples = bundle[r].samples /\ b.summary = u
  BY <1>5, <1>7 DEF Filed, Shaped
<1>9. bundle' = [bundle EXCEPT ![r] = b]
  BY <1>1, <1>2, <1>6, <1>7
<1>10. /\ pc' \in [Runs -> RunnerPlaces] /\ pc'[r] = "checks" /\ bundle'[r] = b
       /\ bundle' = [q \in Runs |-> bundle'[q]]
       /\ \A q \in Runs \ {r} : pc'[q] = pc[q] /\ bundle'[q] = bundle[q]
  BY <1>1, <1>2, <1>9 DEF RunnerPlaces
<1>11. TypeOK'
  BY <1>1, <1>10 DEF IInv, TypeOK
<1>12. \A q \in Runs \ {r} : Apart(q)
  BY <1>1, <1>10 DEF Apart
<1>13. Witnessed(serial'[r], guest'[r])
  BY <1>1, <1>3 DEF RunInv
<1>14. UNCHANGED <<object, mixed>> /\ \A q \in Runs : Noted(q)
  BY <1>1, <1>2 DEF Noted
<1>15. Progress(r)'
  BY <1>1, <1>4, <1>10, <1>14 DEF Progress, BeforeLaunch, BeforeParse, AfterParse, Hashing, Carried
<1>16. Filed(r)'
  <2>1. b.observe # Missing => Happened(b, guest[r], Scenario[r])
    BY <1>5, <1>8 DEF Filed, Happened
  <2> QED BY <1>1, <1>4, <1>6, <1>8, <1>10, <1>14, <2>1 DEF Filed, AfterParse, Carried
<1> QED BY <1>11, <1>12, <1>13, <1>14, <1>15, <1>16, OneRunKeeps DEF RunInv

\* A bundle that is edited afterwards is marked, and claims nothing any more.
LEMMA TamperKeeps ==
    ASSUME IInv, NEW r \in Runs, Tamper(r)
    PROVE  IInv'
<1>1. UNCHANGED <<tree, object, mixed, pc, guest, serial>> /\ pc[r] = "exited"
  BY DEF Tamper
<1>2. PICK case \in Tampering :
        /\ bundle' = [bundle EXCEPT ![r] = Tampered(bundle[r], case)]
        /\ run' = [run EXCEPT ![r].tampered = case]
  BY DEF Tamper
<1>3. case \in TamperCases
  BY LabAssumption
<1>4. case # "no"
  BY <1>3 DEF TamperCases, FreshnessCases, BehaviorCases, PartialCases, LedgerCases,
              ObserveCases, SampleCases
<1>5. /\ run \in [Runs -> Shell] /\ run[r] \in Shell /\ object \in Nat
      /\ bundle = [q \in Runs |-> bundle[q]]
  BY DEF IInv, TypeOK
<1>6. PICK v : v = [run[r] EXCEPT !.tampered = case]
  OBVIOUS
<1>7. /\ v \in Shell /\ v.tampered = case /\ v.objectSha = run[r].objectSha
      /\ v.ranObject = run[r].ranObject
  <2> HIDE DEF TamperCases
  <2> QED BY <1>3, <1>5, <1>6 DEF Shell
<1>8. PICK b : b = Tampered(bundle[r], case)
  OBVIOUS
<1>9. run' = [run EXCEPT ![r] = v] /\ bundle' = [bundle EXCEPT ![r] = b]
  BY <1>2, <1>5, <1>6, <1>8
<1>10. /\ run' \in [Runs -> Shell] /\ run'[r] = v
       /\ bundle' = [q \in Runs |-> bundle'[q]]
       /\ \A q \in Runs \ {r} : run'[q] = run[q] /\ bundle'[q] = bundle[q]
  BY <1>5, <1>7, <1>9
<1>11. TypeOK'
  BY <1>1, <1>10 DEF IInv, TypeOK
<1>12. \A q \in Runs \ {r} : Apart(q)
  BY <1>1, <1>10 DEF Apart
<1>13. RunInv(r)
  BY DEF IInv
<1>14. Witnessed(serial'[r], guest'[r])
  BY <1>1, <1>13 DEF RunInv
<1>15. UNCHANGED <<object, mixed>> /\ \A q \in Runs : Noted(q)
  BY <1>1, <1>5 DEF Noted
<1>16. Progress(r)'
  BY <1>1, <1>7, <1>10, <1>13, <1>15
     DEF RunInv, Progress, BeforeLaunch, BeforeParse, AfterParse, Ended, Carried, Hashing
<1>17. run'[r].tampered # "no"
  BY <1>4, <1>7, <1>10
<1> QED BY <1>11, <1>12, <1>14, <1>15, <1>16, <1>17, OneRunKeeps DEF RunInv

-----------------------------------------------------------------------------
(* The lab *)

\* Before the first run there is neither a guest nor a file.
LEMMA InvInit == Init => IInv
<1> SUFFICES ASSUME Init PROVE IInv
  OBVIOUS
<1>1. NoRun \in Shell /\ NoRun.tampered = "no"
  BY DEF NoRun, Shell
<1>2. NoGuest \in Machine /\ NoGuest.reg.rc = 1 /\ NoGuest.pc = "none"
  BY DEF NoGuest, Machine, GuestPlaces
<1>3. <<>> \in Seq(Row) /\ DOMAIN <<>> = {}
  OBVIOUS
<1>4. TypeOK
  <2>1. tree \in Tree /\ object \in Nat
    <3>1. [bpf |-> 0, rest |-> 0] \in [bpf : Nat, rest : Nat]
      OBVIOUS
    <3> QED BY <3>1 DEF Init, Tree
  <2>2. pc \in [Runs -> RunnerPlaces]
    BY DEF Init, RunnerPlaces
  <2>3. run \in [Runs -> Shell] /\ guest \in [Runs -> Machine] /\ serial \in [Runs -> Seq(Row)]
    BY <1>1, <1>2, <1>3 DEF Init
  <2>4. bundle = [r \in Runs |-> bundle[r]]
    BY DEF Init
  <2> QED BY <2>1, <2>2, <2>3, <2>4 DEF TypeOK
<1>5. ASSUME NEW r \in Runs PROVE RunInv(r)
  <2>1. /\ pc[r] = "idle" /\ run[r] = NoRun /\ guest[r] = NoGuest /\ serial[r] = <<>>
        /\ bundle[r] = NoBundle
    BY DEF Init
  <2>2. Witnessed(serial[r], guest[r])
    BY <1>2, <1>3, <2>1 DEF Witnessed, BreakageTold
  <2>3. Progress(r)
    BY <1>1, <1>2, <2>1 DEF Progress, BeforeLaunch, BeforeParse, AfterParse, Hashing
  <2>4. Shaped(NoBundle) /\ NoBundle.observe = Missing /\ NoBundle.summary = Missing
    BY DEF NoBundle, Shaped
  <2>5. Filed(r)
    BY <2>1, <2>4 DEF Filed
  <2> QED BY <2>2, <2>3, <2>5 DEF RunInv
<1> QED BY <1>4, <1>5 DEF IInv

\* Every step of the lab keeps the invariant.
LEMMA InvStep == IInv /\ [Next]_vars => IInv'
<1> SUFFICES ASSUME IInv, [Next]_vars PROVE IInv'
  OBVIOUS
<1>1. CASE EditBpf \/ EditRest \/ Commit \/ Reset \/ GateBuild
  BY <1>1, DeveloperKeeps
<1>2. ASSUME NEW r \in Runs, Start(r) \/ Advance(r) \/ IoUringFailure(r) \/ Kill(r) PROVE IInv'
  BY <1>2, PrepareKeeps, LaunchKeeps, IoUringKeeps, ScanAfterKeeps, ParseKeeps,
     WriteProvenanceKeeps, WriteSummaryKeeps, RunChecksKeeps, KillKeeps DEF Advance
<1>3. ASSUME NEW r \in Runs, GuestNext(r) PROVE IInv'
  BY <1>3, GuestInv
<1>4. ASSUME NEW r \in Runs, Timeout(r) PROVE IInv'
  BY <1>4, TimeoutKeeps
<1>5. ASSUME NEW r \in Runs, Tamper(r) PROVE IInv'
  BY <1>5, TamperKeeps
<1>6. CASE UNCHANGED vars
  <2>1. UNCHANGED <<tree, object, mixed, pc, run, guest, serial, bundle>>
    BY <1>6 DEF vars
  <2>2. TypeOK'
    BY <2>1 DEF IInv, TypeOK
  <2>3. \A q \in Runs : Apart(q) /\ Noted(q)
    BY <2>1 DEF Apart, Noted
  <2> QED BY <2>2, <2>3, ApartKeeps DEF IInv
<1> QED BY <1>1, <1>2, <1>3, <1>4, <1>5, <1>6 DEF Next

\* What is written of a run is true of its guest, and its rows, files and
\* variables are of their types, in every state of the lab.
THEOREM LabInvariant == Spec => []IInv
BY InvInit, InvStep, PTL DEF Spec

\* What the gate has looked at when it accepts a bundle.
LEMMA AcceptanceMeans ==
    ASSUME NEW r \in Runs, Accepts(r)
    PROVE  /\ bundle[r].summary # Missing /\ bundle[r].summary.status = "PASS"
           /\ bundle[r].summary.head = tree.head
           /\ bundle[r].summary.objectSha = object
           /\ bundle[r].summary.dirty => validate_dirty_snapshot(bundle[r].summary, r, Now, provenance)
           /\ bundle[r].observe # Missing
           /\ AllAlive(bundle[r].samples) \/ workload_execution_passed(bundle[r].observe)
<1> DEFINE b == bundle[r]
<1>1. validate_fresh_bundle(b, r, Now, provenance) /\ validate_bundle(b)
  BY DEF Accepts, require_live_behavior_bundle
<1>2. Now.head = tree.head /\ Now.objectSha = object
  BY DEF Now
<1> HIDE DEF b
<1>3. /\ b.summary # Missing /\ b.summary.status = "PASS"
      /\ b.summary.head = Now.head /\ b.summary.objectSha = Now.objectSha
      /\ b.summary.dirty => validate_dirty_snapshot(b.summary, r, Now, provenance)
  BY <1>1, Zenon DEF validate_fresh_bundle
<1>4. b.observe # Missing
  BY <1>1, Zenon DEF validate_bundle, validate_observe
<1>5. AllAlive(b.samples) \/ workload_execution_passed(b.observe)
  BY <1>1, Zenon DEF validate_bundle, validate_samples
<1> QED BY <1>2, <1>3, <1>4, <1>5, Zenon DEF b

\* The inductive invariant and the verdict: what an accepted bundle says is true.
LEMMA AcceptedIsTrue ==
    ASSUME IInv, NEW r \in Runs, Accepts(r), Untampered(r)
    PROVE  /\ Happened(bundle[r], guest[r], Scenario[r])
           /\ bundle[r].summary = summary_payload(run[r])
           /\ run[r].objectSha = object /\ (run[r].ranObject = object \/ r \in mixed)
<1>1. Filed(r)
  BY DEF IInv, RunInv, Untampered
<1>2. /\ bundle[r].summary # Missing /\ bundle[r].summary.status = "PASS"
      /\ bundle[r].observe # Missing /\ bundle[r].summary.objectSha = object
  BY AcceptanceMeans
<1>3. Happened(bundle[r], guest[r], Scenario[r])
  BY <1>1, <1>2 DEF Filed
<1>4. /\ bundle[r].summary = summary_payload(run[r])
      /\ Carried(r, run[r])
  BY <1>1, <1>2 DEF Filed
<1>5. run[r].objectSha = object
  BY <1>2, <1>4 DEF summary_payload
<1>6. run[r].ranObject = object \/ r \in mixed
  BY <1>4, <1>5 DEF Carried
<1> QED BY <1>3, <1>4, <1>5, <1>6

\* No bundle is accepted of a guest that attached nothing, that left the scheduler
\* on or a knob turned, or whose workload did not live; and none of another
\* object than the one on disk, unless that was replaced under the run.
THEOREM LabAcceptedWasReal == Spec => []AcceptedWasReal
<1>1. IInv => AcceptedWasReal
  <2> SUFFICES ASSUME IInv, NEW r \in Runs, Accepts(r), Untampered(r)
               PROVE  /\ guest[r].attached /\ guest[r].kernel # "enabled"
                      /\ guest[r].restored /\ guest[r].completed
                      /\ guest[r].alive \/ Scenario[r] = "bounded"
                      /\ run[r].ranObject = object \/ r \in mixed
    BY DEF AcceptedWasReal
  <2>1. Happened(bundle[r], guest[r], Scenario[r]) /\ (run[r].ranObject = object \/ r \in mixed)
    BY AcceptedIsTrue
  <2>2. AllAlive(bundle[r].samples) \/ workload_execution_passed(bundle[r].observe)
    BY AcceptanceMeans
  <2>3. CASE AllAlive(bundle[r].samples)
    BY <2>1, <2>3 DEF Happened
  <2>4. CASE workload_execution_passed(bundle[r].observe)
    <3>1. Scenario[r] # "live-backend"
      BY <2>1, <2>4, Zenon DEF Happened, workload_execution_passed
    <3>2. Scenario[r] \in Scenarios
      BY LabAssumption
    <3>3. Scenario[r] = "bounded"
      BY <3>1, <3>2 DEF Scenarios
    <3> QED BY <2>1, <3>3 DEF Happened
  <2> QED BY <2>2, <2>3, <2>4
<1> QED BY <1>1, LabInvariant, PTL

\* No bundle is accepted of another HEAD, with the hash of another BPF source or,
\* if the run saw the tree dirty, of another worktree or a clean one; the guest
\* ran that source, unless the object was replaced under the run.
THEOREM LabAcceptedIsCurrent == Spec => []AcceptedIsCurrent
<1>1. IInv => AcceptedIsCurrent
  <2> SUFFICES ASSUME IInv, NEW r \in Runs, Accepts(r), Untampered(r), object = tree.bpf
               PROVE  /\ run[r].head = tree.head /\ run[r].objectSha = tree.bpf
                      /\ run[r].ranObject = tree.bpf \/ r \in mixed
                      /\ run[r].dirty => Dirty /\ run[r].snapshot = SnapshotHash
    BY DEF AcceptedIsCurrent
  <2>1. /\ bundle[r].summary = summary_payload(run[r]) /\ run[r].objectSha = object
        /\ run[r].ranObject = object \/ r \in mixed
    BY AcceptedIsTrue
  <2>2. /\ bundle[r].summary.head = tree.head
        /\ bundle[r].summary.dirty => validate_dirty_snapshot(bundle[r].summary, r, Now, provenance)
    BY AcceptanceMeans, Zenon
  <2>3. /\ bundle[r].summary.head = run[r].head /\ bundle[r].summary.dirty = run[r].dirty
        /\ run[r].dirty => bundle[r].summary.snapshot = run[r].snapshot
    BY <2>1 DEF summary_payload
  <2>4. ASSUME run[r].dirty PROVE Dirty /\ run[r].snapshot = SnapshotHash
    <3>1. validate_dirty_snapshot(bundle[r].summary, r, Now, provenance)
      BY <2>2, <2>3, <2>4, Zenon
    <3>2. Now.snapshot # None /\ bundle[r].summary.snapshot = Now.snapshot
      BY <3>1 DEF validate_dirty_snapshot
    <3>3. Dirty /\ Now.snapshot = SnapshotHash
      BY <3>2 DEF Now
    <3> QED BY <2>3, <2>4, <3>2, <3>3
  <2> QED BY <2>1, <2>2, <2>3, <2>4
<1> QED BY <1>1, LabInvariant, PTL

-----------------------------------------------------------------------------
(* What a bundle is made of *)

PolicyRows ==
    [map : BOOLEAN, knobs : BOOLEAN, dsq : BOOLEAN, init : BOOLEAN, lastWeight : BOOLEAN,
     weightGeneration : BOOLEAN, moves : BOOLEAN, moveGeneration : BOOLEAN]

SampleRows ==
    [sequence : Nat, state : {"enabled", "disabling", "disabled"}, ops : {Minimal, None},
     enableSeq : Int, phase : {"before_attach", "during_attach", "after_rollback"},
     rejected : {Unavailable, 0, 1}, events : {Unavailable, 0, 1}, alive : BOOLEAN, member : BOOLEAN,
     weightCalls : BOOLEAN, weightObserved : BOOLEAN, policy : PolicyRows, private : BOOLEAN,
     wellFormed : BOOLEAN, telemetry : BOOLEAN, abi : {"v3"}, source : {"vm_serial_sched_ext"}]

\* The i-th sample of a report.
Sampled(s, i) ==
    /\ s \in SampleRows
    /\ s.sequence = i
    /\ s.member = TRUE /\ s.private = FALSE /\ s.wellFormed = TRUE
    /\ s.events = s.rejected
    /\ s.ops # Minimal => s.phase = IF i = 1 THEN "before_attach" ELSE "after_rollback"

\* The files of a report: three samples, and what follows from them.
Genuine(b, v, scenario) ==
    /\ b.samples = <<b.samples[1], b.samples[2], b.samples[3]>>
    /\ \A i \in 1 .. 3 : Sampled(b.samples[i], i)
    /\ b.samples[2].ops = Minimal /\ b.samples[3].state = "disabled"
    /\ b.partial = partial_evidence_payload(v)
    /\ b.attach = live_attach_payload(v)
    /\ b.observe = [mode |-> "vm-live", eligible |-> FALSE, count |-> 3,
                    finalState |-> b.samples[3].state, finalOps |-> b.samples[3].ops,
                    snapshotState |-> b.samples[3].state, snapshotOps |-> b.samples[3].ops,
                    rolledBack |-> TRUE, aliveAll |-> AllAlive(b.samples),
                    workload |-> [status |-> "PASS", hostMutation |-> FALSE, scenario |-> scenario]]
    /\ b.daemon = <<daemon_row(b.samples[1]), daemon_row(b.samples[2]), daemon_row(b.samples[3])>>
    /\ b.ledger = write_rollback_outputs

\* The samples of a guest that kept to its script.
Spotless(samples) ==
    /\ \A i \in 1 .. 3 : samples[i].alive = TRUE /\ samples[i].rejected = 0
    /\ samples[1].ops = None /\ samples[3].ops = None

\* A bundle that no state of the repository makes acceptable.
Spoilt(b) ==
    \/ ~validate_bundle(b)
    \/ b.summary.head = Missing \/ b.summary.objectSha = Missing
    \/ b.summary.cleanup = Missing \/ b.summary.cleanup.scanBefore = Missing
    \/ b.summary.fresh = FALSE
    \/ b.summary.dirty = TRUE /\ b.summary.snapshot \in {None, Missing}

-----------------------------------------------------------------------------
(* The second invariant *)

\* A sample that shows nothing wrong.
Clean(row) ==
    /\ row.event \in {"before", "register", "unregister"} =>
          row.facts.alive = TRUE /\ row.facts.rejected = 0
    /\ row.event \in {"before", "unregister"} => row.facts.ops \in {"", None}

OnScript(g) ==
    /\ g.pc \notin {"finish", "off"} => g.sysfs = TRUE /\ g.alive = TRUE /\ g.rejected = 0
    /\ g.pc \in Early => g.kernel = "disabled"
    /\ g.pc = "registered" => g.reg.id = 1

\* A guest that has not left its script, and what it has written so far.
Nominal(g, rows) ==
    /\ g.pc \in {"none", "boot"} => g.faulty = FALSE
    /\ g.faulty = FALSE =>
          /\ OnScript(g)
          /\ \A i \in DOMAIN rows : Clean(rows[i])

Scanned(r) == pc[r] \in {"parse"} \cup AfterParse => run[r].scanAfter = TRUE

\* manifest-provenance.json, while it names r, has what r read.
Signed(r) ==
    provenance.bundle = r =>
        /\ pc[r] \in {"summary", "checks"} \cup Ended
        /\ provenance.head = run[r].head /\ provenance.snapshot = run[r].snapshot

\* The files, from the parse on.
Made(r) ==
    pc[r] \in AfterParse /\ run[r].tampered = "no" =>
        /\ Genuine(bundle[r], run[r], Scenario[r])
        /\ guest[r].faulty = FALSE => Spotless(bundle[r].samples)
        /\ pc[r] \in {"checks", "exited"} => bundle[r].summary = summary_payload(run[r])
        /\ pc[r] = "exited" => validate_evidence(bundle[r].partial) /\ validate_observe(bundle[r])

\* The files, once somebody has edited them.
Edited(r) ==
    run[r].tampered # "no" =>
        /\ pc[r] = "exited"
        /\ bundle[r].attach = live_attach_payload(run[r])
        /\ Spoilt(bundle[r])

FilesInv(r) ==
    /\ Nominal(guest[r], serial[r])
    /\ Scanned(r) /\ Signed(r) /\ Made(r) /\ Edited(r)

EInv == \A r \in Runs : FilesInv(r)

\* A stretch that ends where a nominal one does, in a machine and with rows that
\* a nominal one would leave.
LEMMA NominalMore ==
    ASSUME NEW rows \in Seq(Row), NEW more \in Seq(Row), NEW g, NEW h, Nominal(g, rows),
           h.pc \notin {"none", "boot"},
           h.faulty = FALSE => /\ g.faulty = FALSE /\ OnScript(h)
                               /\ \A i \in DOMAIN more : Clean(more[i])
    PROVE  Nominal(h, rows \o more)
<1> SUFFICES ASSUME h.faulty = FALSE, NEW i \in DOMAIN (rows \o more)
             PROVE  Clean((rows \o more)[i])
  BY DEF Nominal
<1> DEFINE m == Len(rows)
           n == Len(more)
<1>1. /\ m \in Nat /\ n \in Nat /\ DOMAIN rows = 1 .. m /\ DOMAIN more = 1 .. n
      /\ DOMAIN (rows \o more) = 1 .. m + n
  BY LenProperties, ConcatProperties
<1>2. \A k \in DOMAIN rows : Clean(rows[k])
  BY DEF Nominal
<1>3. CASE i <= m
  <2>1. i \in DOMAIN rows /\ (rows \o more)[i] = rows[i]
    BY <1>1, <1>3, ConcatProperties
  <2> QED BY <1>2, <2>1
<1>4. CASE ~(i <= m)
  <2>1. i - m \in DOMAIN more /\ (rows \o more)[i] = more[i - m]
    BY <1>1, <1>4, ConcatProperties
  <2> QED BY <2>1
<1> QED BY <1>3, <1>4

\* A row that is no sample shows nothing wrong.
LEMMA NoSampleClean ==
    ASSUME NEW row, row.event \notin {"before", "register", "unregister"}
    PROVE  Clean(row)
BY DEF Clean

\* A stretch of the guest, with the machine it leaves.
LEMMA NominalStep ==
    ASSUME TypeOK, NEW r \in Runs, Nominal(guest[r], serial[r]),
           NEW from, NEW to \in GuestPlaces \ {"none", "boot"}, NEW bad \in BOOLEAN,
           NEW more \in Seq(Row), NEW g \in Machine, g.faulty = guest[r].faulty,
           GuestStep(r, from, to, bad, more, g),
           ~bad /\ guest[r].faulty = FALSE =>
              /\ \A i \in DOMAIN more : Clean(more[i])
              /\ \A h : h.pc = to /\ h.sysfs = g.sysfs /\ h.alive = g.alive /\ h.rejected = g.rejected
                        /\ h.kernel = g.kernel /\ h.reg = g.reg => OnScript(h)
    PROVE  Nominal(guest'[r], serial'[r])
<1>0. PICK h : h = [g EXCEPT !.pc = to, !.faulty = @ \/ bad]
  OBVIOUS
<1>1. /\ h.pc = to /\ h.sysfs = g.sysfs /\ h.alive = g.alive /\ h.rejected = g.rejected
      /\ h.kernel = g.kernel /\ h.reg = g.reg
      /\ h.faulty = (g.faulty \/ bad)
  BY <1>0 DEF Machine
<1>2. guest' = [guest EXCEPT ![r] = h] /\ serial' = [serial EXCEPT ![r] = @ \o more]
  BY <1>0 DEF GuestStep
<1>3. guest'[r] = h /\ serial'[r] = serial[r] \o more /\ serial[r] \in Seq(Row)
  BY <1>2 DEF TypeOK
<1>4. h.faulty = FALSE => ~bad /\ guest[r].faulty = FALSE
  BY <1>1 DEF TypeOK, Machine
<1>5. h.faulty = FALSE => OnScript(h) /\ \A i \in DOMAIN more : Clean(more[i])
  BY <1>1, <1>4
<1>6. Nominal(h, serial[r] \o more)
  BY <1>1, <1>3, <1>4, <1>5, NominalMore
<1> QED BY <1>3, <1>6

\* The places and the shape of a list of two or three rows.
LEMMA TwoRows ==
    ASSUME NEW a \in Row, NEW b \in Row
    PROVE  <<a, b>> \in Seq(Row) /\ DOMAIN <<a, b>> = {1, 2} /\ <<a, b>>[1] = a /\ <<a, b>>[2] = b
OBVIOUS

\* A guest that boots with the kernel's types is still on its script.
LEMMA NominalBoot ==
    ASSUME TypeOK, NEW r \in Runs, Nominal(guest[r], serial[r]), GuestBoot(r)
    PROVE  Nominal(guest'[r], serial'[r])
<1>1. PICK btf \in BOOLEAN :
        GuestStep(r, "boot", "workload", ~btf,
                  <<[event |-> "boot"], [event |-> "tuple", btf |-> btf]>>, guest[r])
  BY DEF GuestBoot
<1>2. PICK a, b : a = [event |-> "boot"] /\ b = [event |-> "tuple", btf |-> btf]
  OBVIOUS
<1>3. a \in Row /\ b \in Row /\ a.event = "boot" /\ b.event = "tuple"
  BY <1>2 DEF Row
<1>4. GuestStep(r, "boot", "workload", ~btf, <<a, b>>, guest[r])
  BY <1>1, <1>2
<1>5. \A i \in DOMAIN <<a, b>> : Clean(<<a, b>>[i])
  BY <1>3, TwoRows, NoSampleClean
<1>6. guest[r].pc = "boot" /\ guest[r] \in Machine
  BY <1>4 DEF GuestStep, TypeOK
<1>7. ASSUME NEW h, guest[r].faulty = FALSE, h.pc = "workload",
             h.sysfs = guest[r].sysfs, h.alive = guest[r].alive,
             h.rejected = guest[r].rejected, h.kernel = guest[r].kernel
      PROVE  OnScript(h)
  BY <1>6, <1>7 DEF Nominal, OnScript, Early
<1>8. <<a, b>> \in Seq(Row) /\ "workload" \in GuestPlaces \ {"none", "boot"} /\ (~btf) \in BOOLEAN
  BY <1>3, TwoRows DEF GuestPlaces
<1> QED BY <1>4, <1>5, <1>6, <1>7, <1>8, NominalStep

\* The sample before the attach shows nothing wrong unless the stretch is marked bad.
LEMMA NominalWorkload ==
    ASSUME TypeOK, NEW r \in Runs, Nominal(guest[r], serial[r]), GuestWorkload(r)
    PROVE  Nominal(guest'[r], serial'[r])
<1>0. guest[r].pc = "workload" /\ guest[r] \in Machine
  BY DEF GuestWorkload, GuestStep, TypeOK
<1>1. /\ "register" \in GuestPlaces \ {"none", "boot"} /\ "off" \in GuestPlaces \ {"none", "boot"}
  BY DEF GuestPlaces
<1>2. CASE GuestStep(r, "workload", "off", TRUE,
                     <<[event |-> "workload_execution", status |-> "FAIL"], [event |-> "workload"]>>,
                     guest[r])
  <2>1. PICK a, b : a = [event |-> "workload_execution", status |-> "FAIL"] /\ b = [event |-> "workload"]
    OBVIOUS
  <2>2. a \in Row /\ b \in Row
    BY <2>1 DEF Row
  <2>3. GuestStep(r, "workload", "off", TRUE, <<a, b>>, guest[r])
    BY <1>2, <2>1
  <2>4. <<a, b>> \in Seq(Row) /\ TRUE \in BOOLEAN
    BY <2>2, TwoRows
  <2> QED BY <1>0, <1>1, <2>3, <2>4, NominalStep
<1>3. ASSUME NEW sysfs \in BOOLEAN, NEW alive \in BOOLEAN, NEW member \in BOOLEAN, NEW g,
             g = [guest[r] EXCEPT !.sysfs = sysfs, !.alive = alive],
             GuestStep(r, "workload", "register", {sysfs, alive, member} # {TRUE},
                       <<[event |-> "workload"], [event |-> "before", facts |-> Facts(g, member)]>>, g)
      PROVE  Nominal(guest'[r], serial'[r])
  <2>1. PICK a, b, bad : /\ a = [event |-> "workload"]
                         /\ b = [event |-> "before", facts |-> Facts(g, member)]
                         /\ bad = ({sysfs, alive, member} # {TRUE})
    OBVIOUS
  <2>2. /\ g \in Machine /\ g.faulty = guest[r].faulty /\ g.sysfs = sysfs /\ g.alive = alive
        /\ g.kernel = guest[r].kernel /\ g.rejected = guest[r].rejected
    BY <1>0, <1>3 DEF Machine
  <2>3. a \in Row /\ b \in Row /\ a.event = "workload" /\ b.event = "before" /\ b.facts = Facts(g, member)
    BY <2>1, <2>2, FactsType DEF Row
  <2>4. GuestStep(r, "workload", "register", bad, <<a, b>>, g) /\ bad \in BOOLEAN
    BY <1>3, <2>1
  <2>5. ~bad => sysfs = TRUE /\ alive = TRUE
    BY <2>1
  <2>6. ASSUME ~bad, guest[r].faulty = FALSE
        PROVE  /\ \A i \in DOMAIN <<a, b>> : Clean(<<a, b>>[i])
               /\ \A h : h.pc = "register" /\ h.sysfs = g.sysfs /\ h.alive = g.alive
                         /\ h.rejected = g.rejected /\ h.kernel = g.kernel /\ h.reg = g.reg => OnScript(h)
    <3>1. g.sysfs = TRUE /\ g.alive = TRUE /\ g.rejected = 0 /\ g.kernel = "disabled"
      BY <1>0, <2>2, <2>5, <2>6 DEF Nominal, OnScript, Early
    <3>2. Facts(g, member).alive = TRUE /\ Facts(g, member).rejected = 0 /\ Facts(g, member).ops = ""
      BY <3>1 DEF Facts
    <3>3. Clean(a) /\ Clean(b)
      BY <2>3, <3>2 DEF Clean
    <3>4. \A i \in DOMAIN <<a, b>> : Clean(<<a, b>>[i])
      BY <2>3, <3>3, TwoRows
    <3> QED BY <3>1, <3>4 DEF OnScript, Early
  <2>7. <<a, b>> \in Seq(Row)
    BY <2>3, TwoRows
  <2> QED BY <1>1, <2>2, <2>4, <2>6, <2>7, NominalStep
<1> QED BY <1>2, <1>3 DEF GuestWorkload

\* A nominal register leaves an id to unregister with.
LEMMA NominalRegister ==
    ASSUME TypeOK, NEW r \in Runs, Nominal(guest[r], serial[r]), GuestRegister(r)
    PROVE  Nominal(guest'[r], serial'[r])
<1>1. PICK rc \in {0, 1}, id \in {0, 1}, weight \in {"observed", "unobserved"},
           broken \in {{}} \cup {{f} : f \in Families} :
        LET g == [guest[r] EXCEPT !.kernel = IF rc = 0 THEN "enabled" ELSE "disabled",
                                  !.enableSeq = IF rc = 0 THEN 1 ELSE 0,
                                  !.attached = (rc = 0),
                                  !.weight = IF rc = 0 THEN weight ELSE "none",
                                  !.restored = (broken = {})]
            reg == [rc |-> rc, id |-> id, ops |-> IF rc = 0 THEN Minimal ELSE "",
                    state |-> IF g.sysfs THEN g.kernel ELSE IF rc = 0 THEN "enabled" ELSE ""]
        IN  /\ rc = 1 => id = 0
            /\ GuestStep(r, "register", "registered",
                         rc = 1 \/ id = 0 \/ weight = "unobserved" \/ broken # {},
                         emit_mutation_families(broken), [g EXCEPT !.reg = reg])
  BY DEF GuestRegister
<1>2. PICK kernel, seq, att, w, res :
        /\ kernel = (IF rc = 0 THEN "enabled" ELSE "disabled")
        /\ seq = (IF rc = 0 THEN 1 ELSE 0) /\ att = (rc = 0)
        /\ w = (IF rc = 0 THEN weight ELSE "none") /\ res = (broken = {})
  OBVIOUS
<1>3. PICK g : g = [guest[r] EXCEPT !.kernel = kernel, !.enableSeq = seq, !.attached = att,
                                    !.weight = w, !.restored = res]
  OBVIOUS
<1>4. PICK reg : reg = [rc |-> rc, id |-> id, ops |-> IF rc = 0 THEN Minimal ELSE "",
                        state |-> IF g.sysfs THEN g.kernel ELSE IF rc = 0 THEN "enabled" ELSE ""]
  OBVIOUS
<1>5. PICK bad : bad = (rc = 1 \/ id = 0 \/ weight = "unobserved" \/ broken # {})
  OBVIOUS
<1>6. PICK k : k = [g EXCEPT !.reg = reg]
  OBVIOUS
<1>7. GuestStep(r, "register", "registered", bad, emit_mutation_families(broken), k) /\ bad \in BOOLEAN
  BY <1>1, <1>2, <1>3, <1>4, <1>5, <1>6
<1>8. guest[r].pc = "register" /\ guest[r] \in Machine
  BY <1>7 DEF GuestStep, TypeOK
<1>9. /\ kernel \in {"enabled", "disabled"} /\ seq \in {0, 1} /\ att \in BOOLEAN /\ res \in BOOLEAN
      /\ w \in {"none", "observed", "unobserved"}
  BY <1>2
<1>10. /\ g \in Machine /\ g.faulty = guest[r].faulty /\ g.sysfs = guest[r].sysfs
       /\ g.alive = guest[r].alive /\ g.rejected = guest[r].rejected /\ g.kernel = kernel
  BY <1>3, <1>8, <1>9 DEF Machine
<1>11. /\ reg \in [rc : {0, 1}, id : {0, 1}, ops : {"", Minimal},
                   state : {"", "enabled", "disabling", "disabled"}]
       /\ reg.id = id
  BY <1>4, <1>9, <1>10
<1>12. /\ k \in Machine /\ k.faulty = guest[r].faulty /\ k.sysfs = guest[r].sysfs
       /\ k.alive = guest[r].alive /\ k.rejected = guest[r].rejected /\ k.reg = reg
  BY <1>6, <1>10, <1>11 DEF Machine
<1>13. /\ emit_mutation_families(broken) \in Seq(Row)
       /\ \A i \in DOMAIN emit_mutation_families(broken) : Clean(emit_mutation_families(broken)[i])
  BY MutationRows, NoSampleClean
<1>14. ASSUME ~bad, guest[r].faulty = FALSE, NEW h, h.pc = "registered", h.sysfs = k.sysfs,
              h.alive = k.alive, h.rejected = k.rejected, h.reg = k.reg
       PROVE  OnScript(h)
  <2>1. id = 1
    BY <1>5, <1>14
  <2>2. guest[r].sysfs = TRUE /\ guest[r].alive = TRUE /\ guest[r].rejected = 0
    BY <1>8, <1>14 DEF Nominal, OnScript
  <2> QED BY <1>11, <1>12, <1>14, <2>1, <2>2 DEF OnScript, Early
<1>15. "registered" \in GuestPlaces \ {"none", "boot"}
  BY DEF GuestPlaces
<1> QED BY <1>7, <1>12, <1>13, <1>14, <1>15, NominalStep

\* The watchdog is a fault.
LEMMA NominalWatchdog ==
    ASSUME TypeOK, NEW r \in Runs, Nominal(guest[r], serial[r]), GuestWatchdog(r)
    PROVE  Nominal(guest'[r], serial'[r])
<1>1. PICK g : g = [guest[r] EXCEPT !.kernel = "disabled", !.rejected = 1]
  OBVIOUS
<1>2. GuestStep(r, "registered", "registered", TRUE, <<>>, g)
  BY <1>1 DEF GuestWatchdog
<1>3. g \in Machine /\ g.faulty = guest[r].faulty
  <2>1. guest[r] \in Machine
    BY DEF TypeOK
  <2> QED BY <1>1, <2>1 DEF Machine
<1>4. "registered" \in GuestPlaces \ {"none", "boot"} /\ TRUE \in BOOLEAN /\ <<>> \in Seq(Row)
  BY DEF GuestPlaces
<1> QED BY <1>2, <1>3, <1>4, NominalStep

\* The samples of a nominal register and unregister show nothing wrong.
LEMMA NominalUnregister ==
    ASSUME TypeOK, NEW r \in Runs, Nominal(guest[r], serial[r]), GuestUnregister(r)
    PROVE  Nominal(guest'[r], serial'[r])
<1>1. PICK rc \in {0, 1}, kernel \in {"enabled", "disabling", "disabled"},
           alive \in BOOLEAN, member \in BOOLEAN :
        LET reg == guest[r].reg
            during == [guest[r] EXCEPT !.alive = @ /\ alive]
            after == [during EXCEPT !.kernel = kernel, !.weight = "none"]
            before == [Facts(during, member) EXCEPT !.state = reg.state, !.ops = reg.ops]
            facts == [Facts(after, TRUE) EXCEPT !.state = IF @ = "" THEN "disabled" ELSE @,
                                                !.ops = IF @ = "" THEN None ELSE @]
        IN  /\ reg.id = 0 => rc = 1
            /\ IF rc = 1 \/ guest[r].kernel = "disabled"
               THEN kernel = guest[r].kernel ELSE kernel # "enabled"
            /\ GuestStep(r, "registered", "finish",
                         ~alive \/ ~member \/ (rc = 1 /\ reg.id # 0) \/ kernel = "disabling",
                         <<[event |-> "register", rc |-> reg.rc, facts |-> before],
                           [event |-> "unregister", rc |-> rc, facts |-> facts]>>, after)
  BY DEF GuestUnregister
<1> DEFINE reg == guest[r].reg
<1>2. PICK d : d = [guest[r] EXCEPT !.alive = @ /\ alive]
  OBVIOUS
<1>3. PICK g : g = [d EXCEPT !.kernel = kernel, !.weight = "none"]
  OBVIOUS
<1>4. PICK e : e = [Facts(d, member) EXCEPT !.state = reg.state, !.ops = reg.ops]
  OBVIOUS
<1>5. PICK f : f = [Facts(g, TRUE) EXCEPT !.state = IF @ = "" THEN "disabled" ELSE @,
                                          !.ops = IF @ = "" THEN None ELSE @]
  OBVIOUS
<1>6. PICK bad : bad = (~alive \/ ~member \/ (rc = 1 /\ reg.id # 0) \/ kernel = "disabling")
  OBVIOUS
<1>7. PICK a : a = [event |-> "register", rc |-> reg.rc, facts |-> e]
  OBVIOUS
<1>8. PICK b : b = [event |-> "unregister", rc |-> rc, facts |-> f]
  OBVIOUS
<1>9. /\ IF rc = 1 \/ guest[r].kernel = "disabled"
         THEN kernel = guest[r].kernel ELSE kernel # "enabled"
      /\ GuestStep(r, "registered", "finish", bad, <<a, b>>, g) /\ bad \in BOOLEAN
  BY <1>1, <1>2, <1>3, <1>4, <1>5, <1>6, <1>7, <1>8
<1>10. guest[r].pc = "registered" /\ guest[r] \in Machine
  BY <1>9 DEF GuestStep, TypeOK
<1>11. reg \in [rc : {0, 1}, id : {0, 1}, ops : {"", Minimal},
                state : {"", "enabled", "disabling", "disabled"}]
  BY <1>10 DEF Machine
<1> HIDE DEF reg
<1>12. /\ d \in Machine /\ d.alive = (guest[r].alive /\ alive) /\ d.sysfs = guest[r].sysfs
       /\ d.rejected = guest[r].rejected /\ d.faulty = guest[r].faulty
  <2>1. (guest[r].alive /\ alive) \in BOOLEAN
    OBVIOUS
  <2> QED BY <1>2, <1>10, <2>1 DEF Machine
<1>13. /\ g \in Machine /\ g.alive = d.alive /\ g.kernel = kernel /\ g.sysfs = d.sysfs
       /\ g.rejected = d.rejected /\ g.faulty = guest[r].faulty
  BY <1>3, <1>12 DEF Machine
<1>14. /\ e \in FactSet /\ e.alive = d.alive
       /\ e.rejected = IF d.sysfs THEN d.rejected ELSE Unavailable
  <2>1. Facts(d, member) \in FactSet /\ Facts(d, member).alive = d.alive
    BY <1>12, FactsType
  <2>2. Facts(d, member).rejected = IF d.sysfs THEN d.rejected ELSE Unavailable
    BY DEF Facts
  <2>3. /\ reg.state \in {"", "enabled", "disabling", "disabled"}
        /\ reg.ops \in {"", Minimal, None}
    BY <1>11
  <2> QED BY <1>4, <2>1, <2>2, <2>3 DEF FactSet
<1>15. /\ f \in FactSet /\ f.alive = g.alive
       /\ f.rejected = IF g.sysfs THEN g.rejected ELSE Unavailable
       /\ g.kernel # "enabled" => f.ops = None
  <2>1. Facts(g, TRUE) \in FactSet /\ Facts(g, TRUE).alive = g.alive
    BY <1>13, FactsType
  <2>2. /\ Facts(g, TRUE).rejected = IF g.sysfs THEN g.rejected ELSE Unavailable
        /\ g.kernel # "enabled" => Facts(g, TRUE).ops = ""
    BY DEF Facts
  <2> QED BY <1>5, <2>1, <2>2 DEF FactSet
<1>16. /\ a \in Row /\ a.event = "register" /\ a.facts = e
       /\ b \in Row /\ b.event = "unregister" /\ b.facts = f
  BY <1>7, <1>8, <1>11, <1>14, <1>15 DEF Row
<1>17. ASSUME ~bad, guest[r].faulty = FALSE
       PROVE  \A i \in DOMAIN <<a, b>> : Clean(<<a, b>>[i])
  <2>1. guest[r].sysfs = TRUE /\ guest[r].alive = TRUE /\ guest[r].rejected = 0 /\ guest[r].reg.id = 1
    BY <1>10, <1>17 DEF Nominal, OnScript
  <2>2. alive = TRUE /\ rc = 0 /\ kernel # "disabling"
    BY <1>6, <1>17, <2>1 DEF reg
  <2>3. kernel # "enabled"
    BY <1>9, <2>2
  <2>4. e.alive = TRUE /\ f.alive = TRUE /\ e.rejected = 0 /\ f.rejected = 0 /\ f.ops = None
    BY <1>12, <1>13, <1>14, <1>15, <2>1, <2>2, <2>3
  <2>5. Clean(a) /\ Clean(b)
    BY <1>16, <2>4 DEF Clean
  <2> QED BY <1>16, <2>5, TwoRows
<1>18. ASSUME NEW h, h.pc = "finish" PROVE OnScript(h)
  BY <1>18 DEF OnScript, Early
<1>19. <<a, b>> \in Seq(Row) /\ "finish" \in GuestPlaces \ {"none", "boot"}
  BY <1>16, TwoRows DEF GuestPlaces
<1> QED BY <1>9, <1>13, <1>17, <1>18, <1>19, NominalStep

\* The last rows are no samples.
LEMMA NominalFinish ==
    ASSUME TypeOK, NEW r \in Runs, Nominal(guest[r], serial[r]), GuestFinish(r)
    PROVE  Nominal(guest'[r], serial'[r])
<1>1. PICK rc \in {0, 1}, ok \in BOOLEAN :
        GuestStep(r, "finish", "off", rc = 0 \/ ~ok,
                  <<[event |-> "stale_target_refusal", status |-> "REFUSE", rc |-> 23],
                    [event |-> "duplicate_rollback_refusal", status |-> "REFUSE", rc |-> rc],
                    [event |-> "workload_execution", status |-> IF ok THEN "PASS" ELSE "FAIL"]>>,
                  [guest[r] EXCEPT !.completed = ok])
  BY DEF GuestFinish
<1>2. PICK g, bad : g = [guest[r] EXCEPT !.completed = ok] /\ bad = (rc = 0 \/ ~ok)
  OBVIOUS
<1>3. PICK a, b, c :
        /\ a = [event |-> "stale_target_refusal", status |-> "REFUSE", rc |-> 23]
        /\ b = [event |-> "duplicate_rollback_refusal", status |-> "REFUSE", rc |-> rc]
        /\ c = [event |-> "workload_execution", status |-> IF ok THEN "PASS" ELSE "FAIL"]
  OBVIOUS
<1>4. GuestStep(r, "finish", "off", bad, <<a, b, c>>, g) /\ bad \in BOOLEAN
  BY <1>1, <1>2, <1>3
<1>5. g \in Machine /\ g.faulty = guest[r].faulty
  <2>1. guest[r] \in Machine
    BY DEF TypeOK
  <2> QED BY <1>2, <2>1 DEF Machine
<1>6. /\ a \in Row /\ a.event = "stale_target_refusal"
      /\ b \in Row /\ b.event = "duplicate_rollback_refusal"
      /\ c \in Row /\ c.event = "workload_execution"
  BY <1>3 DEF Row
<1>7. /\ <<a, b, c>> \in Seq(Row) /\ DOMAIN <<a, b, c>> = {1, 2, 3}
      /\ <<a, b, c>>[1] = a /\ <<a, b, c>>[2] = b /\ <<a, b, c>>[3] = c
  BY <1>6
<1>8. \A i \in DOMAIN <<a, b, c>> : Clean(<<a, b, c>>[i])
  BY <1>6, <1>7, NoSampleClean
<1>9. ASSUME NEW h, h.pc = "off" PROVE OnScript(h)
  BY <1>9 DEF OnScript, Early
<1>10. "off" \in GuestPlaces \ {"none", "boot"}
  BY DEF GuestPlaces
<1>11. PICK more : more = <<a, b, c>>
  OBVIOUS
<1>12. /\ GuestStep(r, "finish", "off", bad, more, g) /\ more \in Seq(Row)
       /\ \A i \in DOMAIN more : Clean(more[i])
  BY <1>4, <1>7, <1>8, <1>11
<1> QED BY <1>4, <1>5, <1>9, <1>10, <1>12, NominalStep

\* A panic is a fault.
LEMMA NominalPanic ==
    ASSUME TypeOK, NEW r \in Runs, Nominal(guest[r], serial[r]), GuestPanic(r)
    PROVE  Nominal(guest'[r], serial'[r])
<1>1. PICK torn \in BOOLEAN :
        GuestStep(r, guest[r].pc, "off", TRUE,
                  IF torn THEN <<[event |-> "torn"]>> ELSE <<>>, guest[r])
  BY DEF GuestPanic
<1>2. PICK t, more : t = [event |-> "torn"] /\ more = IF torn THEN <<t>> ELSE <<>>
  OBVIOUS
<1>3. t \in Row
  BY <1>2 DEF Row
<1>4. more \in Seq(Row) /\ TRUE \in BOOLEAN
  BY <1>2, <1>3
<1>5. GuestStep(r, guest[r].pc, "off", TRUE, more, guest[r])
  BY <1>1, <1>2
<1>6. "off" \in GuestPlaces \ {"none", "boot"} /\ guest[r] \in Machine
  BY DEF GuestPlaces, TypeOK
<1> QED BY <1>4, <1>5, <1>6, NominalStep

\* A guest that leaves its script is marked, in every stretch.
LEMMA NominalGuest ==
    ASSUME TypeOK, NEW r \in Runs, Nominal(guest[r], serial[r]), GuestNext(r)
    PROVE  Nominal(guest'[r], serial'[r])
BY NominalBoot, NominalWorkload, NominalRegister, NominalWatchdog, NominalUnregister,
   NominalFinish, NominalPanic DEF GuestNext

\* A machine that has just been made, or is only switched on, with a log that says
\* nothing wrong.
LEMMA NominalFresh ==
    ASSUME NEW rows, DOMAIN rows = {}
    PROVE  Nominal(NoGuest, rows)
BY DEF Nominal, OnScript, NoGuest, Early

-----------------------------------------------------------------------------
(* The files of a report *)

\* The sample s reports the facts f.
Reports(s, f) ==
    /\ s.alive = f.alive /\ s.rejected = f.rejected
    /\ s.ops = (IF f.ops = "" THEN None ELSE f.ops)
    /\ f.state # "" => s.state = f.state

\* The places of the samples.
LEMMA UpToThree == \A i \in 1 .. 3 : i = 1 \/ i = 2 \/ i = 3
OBVIOUS

\* A sample is a row of the report, made of the facts of one row of the log.
LEMMA SampleOf ==
    ASSUME NEW rows, NEW i \in 1 .. 3, NEW f \in FactSet, NEW s,
           ByEvent(rows, SampleEvents[i]).facts = f, s = sample_row(rows, i)
    PROVE  Sampled(s, i) /\ Reports(s, f)
<1>1. /\ f.state \in {"", "enabled", "disabling", "disabled"} /\ f.ops \in {"", Minimal, None}
      /\ f.enableSeq \in Int /\ f.rejected \in {Unavailable, 0, 1} /\ f.alive \in BOOLEAN
  BY DEF FactSet
<1>2. PICK ops : ops = IF f.ops = "" THEN None ELSE f.ops
  OBVIOUS
<1>3. PICK state : state = IF f.state # "" THEN f.state
                           ELSE IF ops = Minimal THEN "enabled" ELSE "disabled"
  OBVIOUS
<1>4. PICK phase : phase = IF ops = Minimal THEN "during_attach"
                           ELSE IF i = 1 THEN "before_attach" ELSE "after_rollback"
  OBVIOUS
<1>5. PICK calls \in BOOLEAN, observed \in BOOLEAN :
        /\ calls = (f.weight \notin {"none", "uncalled"})
        /\ observed = (f.weight \notin {"none", "uncalled", "unobserved"})
  OBVIOUS
<1>5a. PICK policy : policy = policy_abi_from_event(f)
  OBVIOUS
<1>5b. policy \in PolicyRows
  BY ONLY <1>5a DEF policy_abi_from_event, PolicyRows
<1>6. s = [sequence |-> i, state |-> state, ops |-> ops, enableSeq |-> f.enableSeq,
           phase |-> phase, rejected |-> f.rejected, events |-> f.rejected,
           alive |-> f.alive, member |-> TRUE, weightCalls |-> calls,
           weightObserved |-> observed, policy |-> policy, private |-> FALSE,
           wellFormed |-> TRUE, telemetry |-> TRUE, abi |-> "v3", source |-> "vm_serial_sched_ext"]
  BY <1>2, <1>3, <1>4, <1>5, <1>5a DEF sample_row
<1>7. /\ ops \in {Minimal, None} /\ state \in {"enabled", "disabling", "disabled"}
      /\ phase \in {"before_attach", "during_attach", "after_rollback"}
  BY <1>1, <1>2, <1>3, <1>4
<1>8. s \in SampleRows
  <2>1. i \in Nat
    OBVIOUS
  <2> QED BY ONLY <1>1, <1>5, <1>6, <1>7, <1>5b, <2>1, TRUE \in BOOLEAN, FALSE \in BOOLEAN DEF SampleRows
<1>9. /\ s.sequence = i /\ s.member = TRUE /\ s.private = FALSE /\ s.wellFormed = TRUE
      /\ s.events = f.rejected /\ s.rejected = f.rejected /\ s.alive = f.alive
      /\ s.ops = ops /\ s.state = state /\ s.phase = phase
  BY <1>6
<1>10. Sampled(s, i)
  BY <1>4, <1>5, <1>8, <1>9 DEF Sampled
<1> QED BY <1>2, <1>3, <1>9, <1>10 DEF Reports

\* What the parser takes becomes a genuine report, and a spotless one if the guest
\* kept to its script.
LEMMA ReportGenuine ==
    ASSUME NEW rows \in Seq(Row), parse_serial(rows), NEW v, NEW scenario, NEW b,
           b = Outputs(v, rows, scenario)
    PROVE  /\ Genuine(b, v, scenario)
           /\ (\A i \in DOMAIN rows : Clean(rows[i])) => Spotless(b.samples)
<1>1. /\ \A event \in REQUIRED_EVENTS : RowsOf(rows, event) # {}
      /\ validate_rows(rows)
  BY DEF parse_serial, require_rows
<1>2. \A i \in DOMAIN rows : rows[i] \in Row
  BY ElementOfSeq, LenProperties
<1>3. \A x \in Row : x.event \in {"before", "register", "unregister"} => x.facts \in FactSet
  BY DEF Row
<1>4. PICK k1 \in DOMAIN rows :
        rows[k1].event = "before" /\ ByEvent(rows, "before") = rows[k1]
  BY <1>1, ByEventIs DEF REQUIRED_EVENTS
<1>5. PICK k2 \in DOMAIN rows :
        rows[k2].event = "register" /\ ByEvent(rows, "register") = rows[k2]
  BY <1>1, ByEventIs DEF REQUIRED_EVENTS
<1>6. PICK k3 \in DOMAIN rows :
        rows[k3].event = "unregister" /\ ByEvent(rows, "unregister") = rows[k3]
  BY <1>1, ByEventIs DEF REQUIRED_EVENTS
<1>7. PICK f1, f2, f3 : f1 = rows[k1].facts /\ f2 = rows[k2].facts /\ f3 = rows[k3].facts
  OBVIOUS
<1>8. f1 \in FactSet /\ f2 \in FactSet /\ f3 \in FactSet
  BY <1>2, <1>3, <1>4, <1>5, <1>6, <1>7
<1>9. PICK s1, s2, s3 : s1 = sample_row(rows, 1) /\ s2 = sample_row(rows, 2) /\ s3 = sample_row(rows, 3)
  OBVIOUS
<1>10. /\ DOMAIN SampleEvents = 1 .. 3 /\ SampleEvents[1] = "before" /\ SampleEvents[2] = "register"
       /\ SampleEvents[3] = "unregister"
  BY DEF SampleEvents
<1>11. /\ Sampled(s1, 1) /\ s1.alive = f1.alive /\ s1.rejected = f1.rejected
       /\ s1.ops = (IF f1.ops = "" THEN None ELSE f1.ops)
  <2>1. 1 \in 1 .. 3
    OBVIOUS
  <2>2. ByEvent(rows, SampleEvents[1]).facts = f1
    BY <1>4, <1>7, <1>10
  <2>3. Sampled(s1, 1) /\ Reports(s1, f1)
    BY ONLY <1>8, <1>9, <2>1, <2>2, SampleOf
  <2> QED BY ONLY <2>3 DEF Reports
<1>12. /\ Sampled(s2, 2) /\ s2.alive = f2.alive /\ s2.rejected = f2.rejected
       /\ s2.ops = (IF f2.ops = "" THEN None ELSE f2.ops)
  <2>1. 2 \in 1 .. 3
    OBVIOUS
  <2>2. ByEvent(rows, SampleEvents[2]).facts = f2
    BY <1>5, <1>7, <1>10
  <2>3. Sampled(s2, 2) /\ Reports(s2, f2)
    BY ONLY <1>8, <1>9, <2>1, <2>2, SampleOf
  <2> QED BY ONLY <2>3 DEF Reports
<1>13. /\ Sampled(s3, 3) /\ s3.alive = f3.alive /\ s3.rejected = f3.rejected
       /\ s3.ops = (IF f3.ops = "" THEN None ELSE f3.ops)
       /\ f3.state # "" => s3.state = f3.state
  <2>1. 3 \in 1 .. 3
    OBVIOUS
  <2>2. ByEvent(rows, SampleEvents[3]).facts = f3
    BY <1>6, <1>7, <1>10
  <2>3. Sampled(s3, 3) /\ Reports(s3, f3)
    BY ONLY <1>8, <1>9, <2>1, <2>2, SampleOf
  <2> QED BY ONLY <2>3 DEF Reports
<1>14. f2.ops = Minimal /\ f3.state = "disabled"
  BY <1>1, <1>5, <1>6, <1>7 DEF validate_rows
<1>15. s2.ops = Minimal /\ s3.state = "disabled"
  BY <1>12, <1>13, <1>14 DEF Minimal
<1>16. PICK t : t = <<s1, s2, s3>>
  OBVIOUS
<1>17. t[1] = s1 /\ t[2] = s2 /\ t[3] = s3 /\ DOMAIN t = 1 .. 3 /\ Len(t) = 3 /\ t = <<t[1], t[2], t[3]>>
  BY <1>16
<1>18. build_sample_rows(rows) = t
  <2>1. build_sample_rows(rows) = [i \in 1 .. 3 |-> sample_row(rows, i)]
    BY <1>10 DEF build_sample_rows
  <2>2. \A i \in 1 .. 3 : sample_row(rows, i) = t[i]
    BY <1>9, <1>17
  <2>3. t = [i \in 1 .. 3 |-> t[i]]
    BY <1>16, <1>17
  <2> QED BY <2>1, <2>2, <2>3
<1>19. ByEvent(rows, "workload_execution").status = "PASS"
  <2>1. /\ RowsOf(rows, "workload_execution") # {}
        /\ \A i \in RowsOf(rows, "workload_execution") : rows[i].status = "PASS"
    BY <1>1 DEF validate_rows, require_workload_pass
  <2>2. PICK i \in DOMAIN rows : /\ rows[i].event = "workload_execution"
                                 /\ ByEvent(rows, "workload_execution") = rows[i]
    BY <2>1, ByEventIs
  <2> QED BY <2>1, <2>2 DEF RowsOf
<1>20. Last(t) = s3
  BY <1>17 DEF Last
<1>21. observe_summary_payload(rows, t, scenario) =
         [mode |-> "vm-live", eligible |-> FALSE, count |-> 3,
          finalState |-> s3.state, finalOps |-> s3.ops,
          snapshotState |-> s3.state, snapshotOps |-> s3.ops,
          rolledBack |-> TRUE, aliveAll |-> AllAlive(t),
          workload |-> [status |-> "PASS", hostMutation |-> FALSE, scenario |-> scenario]]
  BY <1>17, <1>19, <1>20 DEF observe_summary_payload, workload_execution_summary
<1>22. [i \in DOMAIN t |-> daemon_row(t[i])] = <<daemon_row(s1), daemon_row(s2), daemon_row(s3)>>
  BY <1>17
<1>23. /\ b.samples = t /\ b.partial = partial_evidence_payload(v) /\ b.attach = live_attach_payload(v)
       /\ b.observe = observe_summary_payload(rows, t, scenario)
       /\ b.daemon = [i \in DOMAIN t |-> daemon_row(t[i])] /\ b.ledger = write_rollback_outputs
  BY <1>18 DEF Outputs
<1>24. \A i \in 1 .. 3 : Sampled(t[i], i)
  <2>1. Sampled(t[1], 1) /\ Sampled(t[2], 2) /\ Sampled(t[3], 3)
    BY <1>11, <1>12, <1>13, <1>17
  <2> QED BY <2>1, UpToThree
<1>25. Genuine(b, v, scenario)
  BY <1>15, <1>17, <1>21, <1>22, <1>23, <1>24 DEF Genuine
<1>26. ASSUME \A i \in DOMAIN rows : Clean(rows[i]) PROVE Spotless(b.samples)
  <2>1. Clean(rows[k1]) /\ Clean(rows[k2]) /\ Clean(rows[k3])
    BY <1>26
  <2>2. /\ f1.alive = TRUE /\ f1.rejected = 0 /\ f1.ops \in {"", None}
        /\ f2.alive = TRUE /\ f2.rejected = 0
        /\ f3.alive = TRUE /\ f3.rejected = 0 /\ f3.ops \in {"", None}
    BY <1>4, <1>5, <1>6, <1>7, <2>1 DEF Clean
  <2>3. s1.ops = None /\ s3.ops = None
    BY <1>11, <1>13, <2>2
  <2>4. \A i \in 1 .. 3 : t[i].alive = TRUE /\ t[i].rejected = 0
    <3>1. s1.alive = TRUE /\ s1.rejected = 0 /\ s2.alive = TRUE /\ s2.rejected = 0
          /\ s3.alive = TRUE /\ s3.rejected = 0
      BY <1>11, <1>12, <1>13, <2>2
    <3> QED BY <1>17, <3>1, UpToThree
  <2> QED BY <1>17, <1>23, <2>3, <2>4 DEF Spotless
<1> QED BY <1>25, <1>26

-----------------------------------------------------------------------------
(* The steps, and the files *)

\* The other runs, and the developer, leave the files of q alone.
LEMMA ApartFiles ==
    ASSUME NEW q \in Runs, FilesInv(q), Apart(q), provenance' = provenance \/ provenance'.bundle # q
    PROVE  FilesInv(q)'
<1>1. Nominal(guest'[q], serial'[q])
  BY DEF FilesInv, Apart
<1>2. Scanned(q)' /\ Signed(q)'
  BY DEF FilesInv, Apart, Scanned, Signed
<1>3. Made(q)' /\ Edited(q)'
  BY DEF FilesInv, Apart, Made, Edited
<1> QED BY <1>1, <1>2, <1>3 DEF FilesInv

\* It is enough to look at the run that moves.
LEMMA OneRunFiles ==
    ASSUME EInv, NEW r \in Runs, FilesInv(r)', \A q \in Runs \ {r} : Apart(q),
           provenance' = provenance \/ provenance'.bundle = r
    PROVE  EInv'
BY ApartFiles DEF EInv

\* A run whose report is still to come, or never comes.
LEMMA QuietFiles ==
    ASSUME EInv, NEW r \in Runs, \A q \in Runs \ {r} : Apart(q), provenance' = provenance,
           Nominal(guest'[r], serial'[r]), pc'[r] \notin AfterParse, run'[r].tampered = "no",
           pc'[r] = "parse" => run'[r].scanAfter = TRUE,
           \/ pc[r] \in BeforeParse
           \/ pc'[r] \in Ended /\ run'[r].head = run[r].head /\ run'[r].snapshot = run[r].snapshot
    PROVE  EInv'
<1>1. Signed(r)
  BY DEF EInv, FilesInv
<1>2. Signed(r)'
  BY <1>1 DEF Signed, BeforeParse, BeforeLaunch, Ended
<1>3. Scanned(r)' /\ Made(r)' /\ Edited(r)'
  BY DEF Scanned, Made, Edited
<1> QED BY <1>2, <1>3, OneRunFiles DEF FilesInv

\* A machine that is on has no report, and nobody has edited one.
LEMMA OnMeansQuiet ==
    ASSUME IInv, EInv, NEW r \in Runs, guest[r].pc \notin {"none", "off"}
    PROVE  /\ pc[r] \notin {"parse"} \cup AfterParse /\ run[r].tampered = "no"
           /\ pc[r] \in BeforeParse \cup Ended
<1>1. Progress(r) /\ pc[r] \in RunnerPlaces
  BY DEF IInv, RunInv, TypeOK
<1>2. pc[r] \notin {"parse"} \cup AfterParse
  BY <1>1 DEF Progress
<1>3. run[r].tampered = "no"
  BY <1>2 DEF EInv, FilesInv, Edited, AfterParse
<1> QED BY <1>1, <1>2, <1>3 DEF RunnerPlaces, BeforeParse, BeforeLaunch, AfterParse

\* The guest: there is no report yet.
LEMMA GuestFiles ==
    ASSUME IInv, EInv, NEW r \in Runs, GuestNext(r)
    PROVE  EInv'
<1>1. GuestKept(r)
  BY GuestKeeps DEF IInv, RunInv
<1>2. Nominal(guest'[r], serial'[r])
  BY NominalGuest DEF IInv, EInv, FilesInv
<1>3. \A q \in Runs \ {r} : Apart(q)
  BY <1>1 DEF GuestKept, Apart
<1>4. guest[r].pc \notin {"none", "off"} /\ UNCHANGED <<provenance, pc, run>>
  BY <1>1 DEF GuestKept
<1>5. /\ pc[r] \notin {"parse"} \cup AfterParse /\ run[r].tampered = "no"
      /\ pc[r] \in BeforeParse \cup Ended
  BY <1>4, OnMeansQuiet
<1> QED BY <1>2, <1>3, <1>4, <1>5, QuietFiles

\* timeout(1): a guest that is switched off has left its script.
LEMMA TimeoutFiles ==
    ASSUME IInv, EInv, NEW r \in Runs, Timeout(r)
    PROVE  EInv'
<1>1. /\ guest[r].pc \notin {"none", "off"} /\ UNCHANGED <<provenance, pc, serial, bundle>>
      /\ guest' = [guest EXCEPT ![r].pc = "off", ![r].faulty = TRUE]
      /\ run' = [run EXCEPT ![r].rc = 124]
  BY DEF Timeout
<1>2. run \in [Runs -> Shell] /\ guest \in [Runs -> Machine] /\ run[r] \in Shell /\ guest[r] \in Machine
  BY DEF IInv, TypeOK
<1>3. /\ guest'[r].pc = "off" /\ guest'[r].faulty = TRUE
      /\ \A q \in Runs \ {r} : guest'[q] = guest[q] /\ run'[q] = run[q]
  BY <1>1, <1>2 DEF Machine
<1>4. /\ run'[r].tampered = run[r].tampered /\ run'[r].head = run[r].head
      /\ run'[r].snapshot = run[r].snapshot
  BY <1>1, <1>2 DEF Shell
<1>5. Nominal(guest'[r], serial'[r])
  BY <1>3 DEF Nominal
<1>6. \A q \in Runs \ {r} : Apart(q)
  BY <1>1, <1>3 DEF Apart
<1>7. /\ pc[r] \notin {"parse"} \cup AfterParse /\ run[r].tampered = "no"
      /\ pc[r] \in BeforeParse \cup Ended
  BY <1>1, OnMeansQuiet
<1> QED BY <1>1, <1>4, <1>5, <1>6, <1>7, QuietFiles

\* The runner, up to the boot of the guest.
LEMMA PrepareFiles ==
    ASSUME IInv, EInv, NEW r \in Runs,
           Start(r) \/ Build(r) \/ HashObject(r) \/ ReadHead(r) \/ ReadStatus(r) \/ ReadSnapshot(r)
    PROVE  EInv'
<1>1. /\ UNCHANGED <<provenance, guest, serial, bundle>> /\ pc[r] \in BeforeLaunch
  BY DEF Start, Build, HashObject, ReadHead, ReadStatus, ReadSnapshot, BeforeLaunch
<1>2. pc \in [Runs -> RunnerPlaces] /\ run \in [Runs -> Shell] /\ run[r] \in Shell
  BY DEF IInv, TypeOK
<1>3. run[r].tampered = "no"
  BY <1>1 DEF IInv, RunInv, Progress, BeforeLaunch, Ended
<1>4. /\ pc'[r] \in BeforeLaunch /\ run'[r].tampered = run[r].tampered
      /\ \A q \in Runs \ {r} : pc'[q] = pc[q] /\ run'[q] = run[q]
  <2>1. CASE Start(r)
    BY <1>2, <2>1 DEF Start, Goto, Shell, BeforeLaunch
  <2>2. CASE Build(r)
    BY <1>2, <2>2 DEF Build, Goto, Shell, BeforeLaunch
  <2>6. CASE HashObject(r)
    BY <1>2, <2>6 DEF HashObject, Goto, Shell, BeforeLaunch
  <2>3. CASE ReadHead(r)
    BY <1>2, <2>3 DEF ReadHead, Goto, Shell, BeforeLaunch
  <2>4. CASE ReadStatus(r)
    <3>1. PICK to, d : /\ to = (IF Dirty THEN "snapshot" ELSE "launch") /\ d = Dirty
      OBVIOUS
    <3>2. pc' = [pc EXCEPT ![r] = to] /\ run' = [run EXCEPT ![r].dirty = d] /\ to \in BeforeLaunch
      BY <2>4, <3>1 DEF ReadStatus, Goto, BeforeLaunch
    <3> QED BY <1>2, <3>2 DEF Shell
  <2>5. CASE ReadSnapshot(r)
    BY <1>2, <2>5 DEF ReadSnapshot, Goto, Shell, BeforeLaunch
  <2> QED BY <2>1, <2>2, <2>3, <2>4, <2>5, <2>6
<1>5. \A q \in Runs \ {r} : Apart(q)
  BY <1>1, <1>4 DEF Apart
<1>6. Nominal(guest'[r], serial'[r])
  BY <1>1 DEF EInv, FilesInv
<1>7. pc'[r] \notin {"parse"} \cup AfterParse /\ pc[r] \in BeforeParse
  BY <1>1, <1>4 DEF BeforeLaunch, BeforeParse, AfterParse
<1> QED BY <1>1, <1>3, <1>4, <1>5, <1>6, <1>7, QuietFiles

\* The machine is switched on, still on its script.
LEMMA LaunchFiles ==
    ASSUME IInv, EInv, NEW r \in Runs, Launch(r)
    PROVE  EInv'
<1>1. /\ UNCHANGED <<provenance, serial, bundle>> /\ pc[r] = "launch"
      /\ run' = [run EXCEPT ![r].ranObject = object, ![r].scratch = TRUE]
      /\ guest' = [guest EXCEPT ![r].pc = "boot"]
      /\ pc' = [pc EXCEPT ![r] = "running"]
  BY DEF Launch, Goto
<1>2. /\ pc \in [Runs -> RunnerPlaces] /\ run \in [Runs -> Shell] /\ run[r] \in Shell
      /\ guest \in [Runs -> Machine] /\ guest[r] \in Machine
  BY DEF IInv, TypeOK
<1>3. run[r].tampered = "no" /\ guest[r].pc = "none"
  BY <1>1 DEF IInv, RunInv, Progress, BeforeLaunch, Ended
<1>4. /\ pc'[r] = "running" /\ run'[r].tampered = "no"
      /\ \A q \in Runs \ {r} : pc'[q] = pc[q] /\ run'[q] = run[q] /\ guest'[q] = guest[q]
  BY <1>1, <1>2, <1>3 DEF Shell
<1>5. /\ guest'[r].pc = "boot" /\ guest'[r].faulty = guest[r].faulty /\ guest'[r].sysfs = guest[r].sysfs
      /\ guest'[r].alive = guest[r].alive /\ guest'[r].rejected = guest[r].rejected
      /\ guest'[r].kernel = guest[r].kernel
  BY <1>1, <1>2 DEF Machine
<1>6. Nominal(guest[r], serial[r])
  BY DEF EInv, FilesInv
<1>7. Nominal(guest'[r], serial'[r])
  BY <1>1, <1>3, <1>5, <1>6 DEF Nominal, OnScript, Early
<1>8. \A q \in Runs \ {r} : Apart(q)
  BY <1>1, <1>4 DEF Apart
<1>9. "running" \notin {"parse"} \cup AfterParse /\ "launch" \in BeforeParse
  BY DEF AfterParse, BeforeParse, BeforeLaunch
<1> QED BY <1>1, <1>4, <1>7, <1>8, <1>9, QuietFiles

\* The retry starts a new log; without one the guest has left its script.
LEMMA IoUringFiles ==
    ASSUME IInv, EInv, NEW r \in Runs, IoUringFailure(r)
    PROVE  EInv'
<1>1. /\ UNCHANGED <<provenance, pc, bundle>> /\ pc[r] = "running" /\ guest[r].pc = "boot"
      /\ serial' = [serial EXCEPT ![r] = <<>>] /\ run' = [run EXCEPT ![r].attempt = 2]
  BY DEF IoUringFailure
<1>2. PICK supported \in BOOLEAN :
        guest' = [guest EXCEPT ![r].pc = IF supported THEN "boot" ELSE "off", ![r].faulty = ~supported]
  BY DEF IoUringFailure
<1>3. PICK to, bad : to = (IF supported THEN "boot" ELSE "off") /\ bad = ~supported
  OBVIOUS
<1>4. guest' = [guest EXCEPT ![r].pc = to, ![r].faulty = bad]
  BY <1>2, <1>3
<1>5. /\ run \in [Runs -> Shell] /\ run[r] \in Shell /\ serial \in [Runs -> Seq(Row)]
      /\ guest \in [Runs -> Machine] /\ guest[r] \in Machine
  BY DEF IInv, TypeOK
<1>6. /\ guest'[r].pc = to /\ guest'[r].faulty = bad /\ guest'[r].sysfs = guest[r].sysfs
      /\ guest'[r].alive = guest[r].alive /\ guest'[r].rejected = guest[r].rejected
      /\ guest'[r].kernel = guest[r].kernel
  BY <1>4, <1>5 DEF Machine
<1>7. /\ run'[r].tampered = run[r].tampered /\ serial'[r] = <<>>
      /\ \A q \in Runs \ {r} : run'[q] = run[q] /\ guest'[q] = guest[q] /\ serial'[q] = serial[q]
  BY <1>1, <1>4, <1>5 DEF Shell
<1>8. Nominal(guest[r], serial[r])
  BY DEF EInv, FilesInv
<1>9. Nominal(guest'[r], serial'[r])
  <2>1. DOMAIN <<>> = {}
    OBVIOUS
  <2>2. CASE supported
    <3>1. to = "boot" /\ bad = FALSE
      BY <1>3, <2>2
    <3> QED BY <1>1, <1>6, <1>7, <1>8, <2>1, <3>1 DEF Nominal, OnScript, Early
  <2>3. CASE ~supported
    <3>1. to = "off" /\ bad = TRUE
      BY <1>3, <2>3
    <3> QED BY <1>6, <3>1 DEF Nominal
  <2> QED BY <2>2, <2>3
<1>10. \A q \in Runs \ {r} : Apart(q)
  BY <1>1, <1>7 DEF Apart
<1>11. guest[r].pc \notin {"none", "off"} /\ "running" \in BeforeParse /\ "running" \notin AfterParse
  BY <1>1 DEF BeforeParse, AfterParse
<1>12. run[r].tampered = "no"
  BY <1>11, OnMeansQuiet
<1> QED BY <1>1, <1>7, <1>9, <1>10, <1>11, <1>12, QuietFiles

\* SIGKILL, before or after the report.
LEMMA KillFiles ==
    ASSUME IInv, EInv, NEW r \in Runs, Kill(r)
    PROVE  EInv'
<1>1. /\ UNCHANGED <<provenance, run, guest, serial, bundle>> /\ pc[r] \notin Ended
      /\ pc' = [pc EXCEPT ![r] = "killed"]
  BY DEF Kill, Goto
<1>2. pc \in [Runs -> RunnerPlaces]
  BY DEF IInv, TypeOK
<1>3. pc'[r] = "killed" /\ \A q \in Runs \ {r} : pc'[q] = pc[q]
  BY <1>1, <1>2
<1>4. run[r].tampered = "no"
  BY <1>1 DEF IInv, RunInv, Progress
<1>5. \A q \in Runs \ {r} : Apart(q)
  BY <1>1, <1>3 DEF Apart
<1>6. Nominal(guest'[r], serial'[r])
  BY <1>1 DEF EInv, FilesInv
<1>7. "killed" \in Ended /\ "killed" \notin AfterParse
  BY DEF Ended, AfterParse
<1> QED BY <1>1, <1>3, <1>4, <1>5, <1>6, <1>7, QuietFiles

\* A run that fails before its report.
LEMMA FailFiles ==
    ASSUME IInv, EInv, NEW r \in Runs, Fail(r), provenance' = provenance, pc[r] \in BeforeParse,
           \A q \in Runs \ {r} : bundle'[q] = bundle[q]
    PROVE  EInv'
<1>1. /\ pc' = [pc EXCEPT ![r] = "failed"] /\ run' = [run EXCEPT ![r] = NoRun]
      /\ guest' = [guest EXCEPT ![r] = NoGuest] /\ serial' = [serial EXCEPT ![r] = <<>>]
  BY DEF Fail, Goto
<1>2. /\ pc \in [Runs -> RunnerPlaces] /\ run \in [Runs -> Shell]
      /\ guest \in [Runs -> Machine] /\ serial \in [Runs -> Seq(Row)]
  BY DEF IInv, TypeOK
<1>3. /\ pc'[r] = "failed" /\ run'[r] = NoRun /\ guest'[r] = NoGuest /\ serial'[r] = <<>>
      /\ \A q \in Runs \ {r} : /\ pc'[q] = pc[q] /\ run'[q] = run[q] /\ guest'[q] = guest[q]
                               /\ serial'[q] = serial[q]
  BY <1>1, <1>2
<1>4. \A q \in Runs \ {r} : Apart(q)
  BY <1>3 DEF Apart
<1>5. Nominal(guest'[r], serial'[r])
  <2>1. DOMAIN <<>> = {}
    OBVIOUS
  <2> QED BY <1>3, <2>1, NominalFresh
<1>6. NoRun.tampered = "no" /\ "failed" \notin AfterParse
  BY DEF NoRun, AfterParse
<1> QED BY <1>3, <1>4, <1>5, <1>6, QuietFiles

\* A run that goes on to the parser has seen no other qemu.
LEMMA ScanAfterFiles ==
    ASSUME IInv, EInv, NEW r \in Runs, ScanAfter(r)
    PROVE  EInv'
<1>1. provenance' = provenance /\ pc[r] = "running"
  BY DEF ScanAfter
<1>2. /\ pc \in [Runs -> RunnerPlaces] /\ run \in [Runs -> Shell] /\ run[r] \in Shell
      /\ bundle = [q \in Runs |-> bundle[q]]
  BY DEF IInv, TypeOK
<1>3. pc[r] \in BeforeParse /\ run[r].tampered = "no"
  BY <1>1 DEF IInv, RunInv, Progress, BeforeParse, Ended
<1>4. PICK quiet : quiet = (QemuAlive = {})
  OBVIOUS
<1>5. PICK v : v = [run[r] EXCEPT !.scanAfter = quiet]
  OBVIOUS
<1>6. \/ bundle' = [bundle EXCEPT ![r].summary = emit_timeout_report(v)] /\ Fail(r)
      \/ bundle' = bundle /\ Fail(r)
      \/ /\ run' = [run EXCEPT ![r] = v] /\ pc' = [pc EXCEPT ![r] = "parse"] /\ quiet = TRUE
         /\ UNCHANGED <<guest, serial, bundle>>
  BY <1>4, <1>5 DEF ScanAfter, Goto
<1>7. CASE bundle' = [bundle EXCEPT ![r].summary = emit_timeout_report(v)] /\ Fail(r)
  <2>1. PICK b : bundle' = [bundle EXCEPT ![r] = b]
    BY <1>2, <1>7
  <2>2. \A q \in Runs \ {r} : bundle'[q] = bundle[q]
    BY <1>2, <2>1
  <2> QED BY <1>1, <1>3, <1>7, <2>2, FailFiles
<1>8. CASE bundle' = bundle /\ Fail(r)
  BY <1>1, <1>3, <1>8, FailFiles
<1>9. CASE /\ run' = [run EXCEPT ![r] = v] /\ pc' = [pc EXCEPT ![r] = "parse"] /\ quiet = TRUE
           /\ UNCHANGED <<guest, serial, bundle>>
  <2>1. v.tampered = "no" /\ v.scanAfter = TRUE
    BY <1>2, <1>3, <1>5, <1>9 DEF Shell
  <2>2. /\ pc'[r] = "parse" /\ run'[r] = v
        /\ \A q \in Runs \ {r} : pc'[q] = pc[q] /\ run'[q] = run[q]
    BY <1>2, <1>9
  <2>3. \A q \in Runs \ {r} : Apart(q)
    BY <1>9, <2>2 DEF Apart
  <2>4. Nominal(guest'[r], serial'[r])
    BY <1>9 DEF EInv, FilesInv
  <2>5. "parse" \notin AfterParse
    BY DEF AfterParse
  <2> QED BY <1>1, <1>3, <2>1, <2>2, <2>3, <2>4, <2>5, QuietFiles
<1> QED BY <1>6, <1>7, <1>8, <1>9

\* The report is genuine, and spotless if the guest kept to its script.
LEMMA ParseFiles ==
    ASSUME IInv, EInv, NEW r \in Runs, Parse(r)
    PROVE  EInv'
<1>1. provenance' = provenance /\ pc[r] = "parse"
  BY DEF Parse
<1>2. /\ pc \in [Runs -> RunnerPlaces] /\ serial[r] \in Seq(Row) /\ bundle = [q \in Runs |-> bundle[q]]
  BY DEF IInv, TypeOK
<1>3. pc[r] \in BeforeParse /\ run[r].tampered = "no"
  BY <1>1 DEF IInv, RunInv, Progress, BeforeParse, Ended
<1>4. CASE ~parse_serial(serial[r])
  <2>1. Fail(r) /\ bundle' = bundle
    BY <1>4 DEF Parse
  <2> QED BY <1>1, <1>3, <2>1, FailFiles
<1>5. CASE parse_serial(serial[r])
  <2>1. PICK b : b = Outputs(run[r], serial[r], Scenario[r])
    OBVIOUS
  <2>2. PICK to : to = IF run[r].dirty THEN "provenance" ELSE "summary"
    OBVIOUS
  <2>3. /\ bundle' = [bundle EXCEPT ![r] = b] /\ pc' = [pc EXCEPT ![r] = to]
        /\ UNCHANGED <<run, guest, serial>>
    BY <1>5, <2>1, <2>2 DEF Parse, Goto
  <2>4. /\ pc'[r] = to /\ bundle'[r] = b
        /\ \A q \in Runs \ {r} : pc'[q] = pc[q] /\ bundle'[q] = bundle[q]
    BY <1>2, <2>3
  <2>5. \A q \in Runs \ {r} : Apart(q)
    BY <2>3, <2>4 DEF Apart
  <2>6. /\ Genuine(b, run[r], Scenario[r])
        /\ (\A i \in DOMAIN serial[r] : Clean(serial[r][i])) => Spotless(b.samples)
    BY <1>2, <1>5, <2>1, ReportGenuine
  <2>7. Nominal(guest[r], serial[r]) /\ Scanned(r) /\ Signed(r)
    BY DEF EInv, FilesInv
  <2>8. guest[r].faulty = FALSE => Spotless(b.samples)
    BY <2>6, <2>7 DEF Nominal
  <2>9. to \in {"provenance", "summary"}
    BY <2>2
  <2>10. Scanned(r)' /\ Signed(r)'
    BY <1>1, <2>3, <2>4, <2>7 DEF Scanned, Signed, Ended
  <2>11. Made(r)' /\ Edited(r)'
    BY <1>3, <2>3, <2>4, <2>6, <2>8, <2>9 DEF Made, Edited
  <2> QED BY <1>1, <2>3, <2>5, <2>7, <2>10, <2>11, OneRunFiles DEF FilesInv
<1> QED BY <1>4, <1>5

\* The provenance is that of the run it names.
LEMMA WriteProvenanceFiles ==
    ASSUME IInv, EInv, NEW r \in Runs, WriteProvenance(r)
    PROVE  EInv'
<1>1. /\ UNCHANGED <<run, guest, serial, bundle>> /\ pc[r] = "provenance"
      /\ pc' = [pc EXCEPT ![r] = "summary"]
      /\ provenance' = [bundle |-> r, head |-> run[r].head, snapshot |-> run[r].snapshot]
  BY DEF WriteProvenance, Goto
<1>2. pc \in [Runs -> RunnerPlaces]
  BY DEF IInv, TypeOK
<1>3. pc'[r] = "summary" /\ \A q \in Runs \ {r} : pc'[q] = pc[q]
  BY <1>1, <1>2
<1>4. \A q \in Runs \ {r} : Apart(q)
  BY <1>1, <1>3 DEF Apart
<1>5. FilesInv(r) /\ run[r].tampered = "no"
  BY <1>1 DEF EInv, IInv, RunInv, Progress, Ended
<1>6. Nominal(guest'[r], serial'[r])
  BY <1>1, <1>5 DEF FilesInv
<1>7. Scanned(r)' /\ Signed(r)' /\ provenance'.bundle = r
  BY <1>1, <1>3, <1>5 DEF FilesInv, Scanned, Signed, AfterParse
<1>8. Made(r)' /\ Edited(r)'
  BY <1>1, <1>3, <1>5 DEF FilesInv, Made, Edited, AfterParse
<1> QED BY <1>4, <1>6, <1>7, <1>8, OneRunFiles DEF FilesInv

\* What is genuine stays so with another summary.
LEMMA GenuineSummary ==
    ASSUME NEW b, NEW c, NEW v, NEW scenario, Genuine(b, v, scenario),
           c.samples = b.samples, c.partial = b.partial, c.attach = b.attach, c.observe = b.observe,
           c.daemon = b.daemon, c.ledger = b.ledger
    PROVE  Genuine(c, v, scenario)
BY DEF Genuine

\* The summary is that of the shell variables.
LEMMA WriteSummaryFiles ==
    ASSUME IInv, EInv, NEW r \in Runs, WriteSummary(r)
    PROVE  EInv'
<1>1. /\ UNCHANGED <<provenance, run, guest, serial>> /\ pc[r] = "summary"
      /\ pc' = [pc EXCEPT ![r] = "checks"]
      /\ bundle' = [bundle EXCEPT ![r].summary = summary_payload(run[r])]
  BY DEF WriteSummary, Goto
<1>2. pc \in [Runs -> RunnerPlaces] /\ bundle = [q \in Runs |-> bundle[q]]
  BY DEF IInv, TypeOK
<1>3. FilesInv(r) /\ run[r].tampered = "no" /\ Shaped(bundle[r])
  BY <1>1 DEF EInv, IInv, RunInv, Progress, Ended, Filed
<1>4. PICK u : u = summary_payload(run[r])
  OBVIOUS
<1>5. PICK c : c = [bundle[r] EXCEPT !.summary = u]
  OBVIOUS
<1>6. /\ c.summary = u /\ c.samples = bundle[r].samples /\ c.partial = bundle[r].partial
      /\ c.attach = bundle[r].attach /\ c.observe = bundle[r].observe
      /\ c.daemon = bundle[r].daemon /\ c.ledger = bundle[r].ledger
  BY <1>3, <1>5 DEF Shaped
<1>7. bundle' = [bundle EXCEPT ![r] = c]
  BY <1>1, <1>2, <1>4, <1>5
<1>8. /\ pc'[r] = "checks" /\ bundle'[r] = c
      /\ \A q \in Runs \ {r} : pc'[q] = pc[q] /\ bundle'[q] = bundle[q]
  BY <1>1, <1>2, <1>7
<1>9. \A q \in Runs \ {r} : Apart(q)
  BY <1>1, <1>8 DEF Apart
<1>10. Nominal(guest'[r], serial'[r])
  BY <1>1, <1>3 DEF FilesInv
<1>11. Scanned(r)' /\ Signed(r)'
  BY <1>1, <1>3, <1>8 DEF FilesInv, Scanned, Signed, AfterParse
<1>12. Genuine(c, run[r], Scenario[r]) /\ (guest[r].faulty = FALSE => Spotless(c.samples))
  BY <1>1, <1>3, <1>6, GenuineSummary DEF FilesInv, Made, AfterParse
<1>13. Made(r)' /\ Edited(r)'
  BY <1>1, <1>3, <1>4, <1>6, <1>8, <1>12 DEF Made, Edited
<1> QED BY <1>1, <1>9, <1>10, <1>11, <1>13, OneRunFiles DEF FilesInv

\* A run that exits has passed its own checks.
LEMMA RunChecksFiles ==
    ASSUME IInv, EInv, NEW r \in Runs, RunChecks(r)
    PROVE  EInv'
<1>1. /\ UNCHANGED <<provenance, guest, bundle>> /\ pc[r] = "checks"
      /\ serial' = [serial EXCEPT ![r] = <<>>] /\ run' = [run EXCEPT ![r].scratch = FALSE]
  BY DEF RunChecks
<1>2. PICK to \in {"exited", "failed"} :
        /\ pc' = [pc EXCEPT ![r] = to]
        /\ to = "exited" => validate_evidence(bundle[r].partial) /\ validate_observe(bundle[r])
  BY DEF RunChecks, Goto
<1>3. /\ pc \in [Runs -> RunnerPlaces] /\ run \in [Runs -> Shell] /\ run[r] \in Shell
      /\ serial \in [Runs -> Seq(Row)]
  BY DEF IInv, TypeOK
<1>4. PICK v : v = [run[r] EXCEPT !.scratch = FALSE]
  OBVIOUS
<1>5. /\ v.tampered = run[r].tampered /\ v.objectSha = run[r].objectSha /\ v.head = run[r].head
      /\ v.dirty = run[r].dirty /\ v.snapshot = run[r].snapshot /\ v.scanBefore = run[r].scanBefore
      /\ v.scanAfter = run[r].scanAfter
  BY <1>3, <1>4 DEF Shell
<1>6. /\ summary_payload(v) = summary_payload(run[r])
      /\ partial_evidence_payload(v) = partial_evidence_payload(run[r])
      /\ live_attach_payload(v) = live_attach_payload(run[r])
  BY <1>5 DEF summary_payload, partial_evidence_payload, live_attach_payload
<1>7. /\ pc'[r] = to /\ run'[r] = v /\ serial'[r] = <<>>
      /\ \A q \in Runs \ {r} : pc'[q] = pc[q] /\ run'[q] = run[q] /\ serial'[q] = serial[q]
  BY <1>1, <1>2, <1>3, <1>4
<1>8. \A q \in Runs \ {r} : Apart(q)
  BY <1>1, <1>7 DEF Apart
<1>9. FilesInv(r) /\ run[r].tampered = "no"
  BY <1>1 DEF EInv, IInv, RunInv, Progress, Ended
<1>10. guest[r].pc = "off"
  BY <1>1 DEF IInv, RunInv, Progress, AfterParse
<1>11. Nominal(guest'[r], serial'[r])
  <2>1. DOMAIN <<>> = {} /\ Nominal(guest[r], serial[r])
    BY <1>9 DEF FilesInv
  <2> QED BY <1>1, <1>7, <2>1 DEF Nominal
<1>12. Scanned(r)' /\ Signed(r)'
  BY <1>1, <1>5, <1>7, <1>9 DEF FilesInv, Scanned, Signed, AfterParse, Ended
<1>13. /\ Genuine(bundle[r], run[r], Scenario[r]) /\ bundle[r].summary = summary_payload(run[r])
       /\ guest[r].faulty = FALSE => Spotless(bundle[r].samples)
  BY <1>1, <1>9 DEF FilesInv, Made, AfterParse
<1>14. Genuine(bundle[r], v, Scenario[r])
  BY <1>6, <1>13 DEF Genuine
<1>15. Made(r)' /\ Edited(r)'
  BY <1>1, <1>2, <1>5, <1>6, <1>7, <1>9, <1>13, <1>14 DEF Made, Edited
<1> QED BY <1>1, <1>8, <1>11, <1>12, <1>15, OneRunFiles DEF FilesInv

-----------------------------------------------------------------------------
(* The edits *)

\* A row of the samples that a check of its own refuses.
LEMMA SampleSpoils ==
    ASSUME NEW c, NEW i \in DOMAIN c.samples,
           ~validate_sample(c.samples[i]) \/ ~validate_required_counter_fact(c.samples[i])
    PROVE  ~validate_bundle(c)
BY Zenon DEF validate_bundle, validate_file, validate_samples, validate_counter_growth

\* Where an edit lands: in the summary, in the samples or in a file of its own.
LEMMA EditOfSummary ==
    ASSUME NEW b, Shaped(b), NEW case \in FreshnessCases \cup {"host-mutation"}, NEW c, c = Tampered(b, case)
    PROVE  c.summary = TamperSummary(b.summary, case) /\ c.attach = b.attach
<1>1. c = [b EXCEPT !.summary = TamperSummary(@, case), !.samples = TamperSamples(@, case)]
  BY DEF Tampered, FreshnessCases
<1> QED BY <1>1 DEF Shaped

\* The edits of the samples.
LEMMA EditOfSamples ==
    ASSUME NEW b, Shaped(b),
           NEW case \in SampleCases \cup {"counter-growth", "all-during", "missing-counters",
                                          "eventless-numeric", "private-sample"},
           NEW c, c = Tampered(b, case)
    PROVE  c.samples = TamperSamples(b.samples, case) /\ c.attach = b.attach
<1>1. c = [b EXCEPT !.summary = TamperSummary(@, case), !.samples = TamperSamples(@, case)]
  BY DEF Tampered, SampleCases
<1> QED BY <1>1 DEF Shaped

\* The summary of another run, of another tree or of no clean one.
LEMMA SummaryEdits ==
    ASSUME NEW b, Shaped(b), NEW v \in Shell, b.summary = summary_payload(v),
           NEW case \in FreshnessCases \cup {"host-mutation"}, NEW c, c = Tampered(b, case)
    PROVE  Spoilt(c) /\ c.attach = b.attach
<1>1. c.summary = TamperSummary(b.summary, case) /\ c.attach = b.attach
  BY EditOfSummary
<1>2. PICK s : s = b.summary
  OBVIOUS
<1>3. PICK u, snap : /\ snap = (IF v.dirty THEN v.snapshot ELSE Missing)
                     /\ u = [receipt |-> TRUE, scanBefore |-> v.scanBefore, scanAfter |-> v.scanAfter,
                             leftovers |-> FALSE]
  OBVIOUS
<1>4. s = [status |-> "PASS", mode |-> "vm-live", head |-> v.head, objectSha |-> v.objectSha,
           dirty |-> v.dirty, snapshot |-> snap,
           hostMutation |-> FALSE, fresh |-> TRUE, marker |-> TRUE, rollback |-> "PASS",
           releaseUse |-> FALSE, eligible |-> TRUE, stages |-> <<"PASS", "PASS", "PASS", "PASS">>,
           cleanup |-> u]
  BY <1>2, <1>3 DEF summary_payload
<1>5. c.summary = TamperSummary(s, case)
  BY <1>1, <1>2
<1>6. CASE case = "stale-git-sha"
  <2>1. c.summary = [s EXCEPT !.head = Missing]
    BY <1>5, <1>6 DEF TamperSummary
  <2>2. c.summary.head = Missing
    BY <1>4, <2>1
  <2> QED BY <1>1, <2>2 DEF Spoilt
<1>7. CASE case = "mismatched-bpf-sha"
  <2>1. c.summary = [s EXCEPT !.objectSha = Missing]
    BY <1>5, <1>7 DEF TamperSummary
  <2>2. c.summary.objectSha = Missing
    BY <1>4, <2>1
  <2> QED BY <1>1, <2>2 DEF Spoilt
<1>8. CASE case = "missing-cleanup-receipt"
  <2>1. c.summary = [s EXCEPT !.cleanup = Missing]
    BY <1>5, <1>8 DEF TamperSummary
  <2>2. c.summary.cleanup = Missing
    BY <1>4, <2>1
  <2> QED BY <1>1, <2>2 DEF Spoilt
<1>9. CASE case = "reused-output-directory"
  <2>1. c.summary = [s EXCEPT !.fresh = FALSE]
    BY <1>5, <1>9 DEF TamperSummary
  <2>2. c.summary.fresh = FALSE
    BY <1>4, <2>1
  <2> QED BY <1>1, <2>2 DEF Spoilt
<1>10. CASE case = "dirty-no-snapshot"
  <2>1. c.summary = [s EXCEPT !.dirty = TRUE, !.snapshot = Missing]
    BY <1>5, <1>10 DEF TamperSummary
  <2>2. c.summary.dirty = TRUE /\ c.summary.snapshot = Missing
    BY <1>4, <2>1
  <2> QED BY <1>1, <2>2 DEF Spoilt
<1>11. CASE case = "dirty-mismatched-snapshot"
  <2>1. c.summary = [s EXCEPT !.dirty = TRUE, !.snapshot = None]
    BY <1>5, <1>11 DEF TamperSummary
  <2>2. c.summary.dirty = TRUE /\ c.summary.snapshot = None
    BY <1>4, <2>1
  <2> QED BY <1>1, <2>2 DEF Spoilt
<1>12. CASE case = "failed-status"
  <2>1. c.summary = [s EXCEPT !.status = "FAIL"]
    BY <1>5, <1>12 DEF TamperSummary
  <2>2. c.summary.status = "FAIL"
    BY <1>4, <2>1
  <2> QED BY <1>1, <2>2 DEF Spoilt, validate_bundle
<1>13. CASE case = "list-only-process-scans"
  <2>1. c.summary = [s EXCEPT !.cleanup.scanBefore = Missing, !.cleanup.scanAfter = Missing]
    BY <1>5, <1>13 DEF TamperSummary
  <2>2. PICK w : w = [u EXCEPT !.scanBefore = Missing]
    OBVIOUS
  <2>3. PICK x : x = [s EXCEPT !.cleanup = w]
    OBVIOUS
  <2>4. s.cleanup = u /\ x.cleanup = w
    BY <1>4, <2>3
  <2>5. x = [s EXCEPT !.cleanup.scanBefore = Missing]
    BY <2>2, <2>3, <2>4
  <2>6. c.summary = [x EXCEPT !.cleanup.scanAfter = Missing]
    BY <2>1, <2>5
  <2>7. PICK y : y = [w EXCEPT !.scanAfter = Missing]
    OBVIOUS
  <2>8. c.summary = [x EXCEPT !.cleanup = y]
    BY <2>4, <2>6, <2>7
  <2>9. c.summary.cleanup = y
    BY <1>4, <2>3, <2>8
  <2>10. y.scanBefore = Missing
    BY <1>3, <2>2, <2>7
  <2> QED BY <1>1, <2>9, <2>10 DEF Spoilt
<1>14. CASE case = "host-mutation"
  <2>1. c.summary = [s EXCEPT !.hostMutation = TRUE]
    BY <1>5, <1>14 DEF TamperSummary
  <2>2. c.summary.hostMutation = TRUE
    BY <1>4, <2>1
  <2>3. ~validate_bundle(c)
    BY <2>2, Zenon DEF validate_bundle
  <2> QED BY <1>1, <2>3 DEF Spoilt
<1> QED BY <1>6, <1>7, <1>8, <1>9, <1>10, <1>11, <1>12, <1>13, <1>14 DEF FreshnessCases

\* The samples, edited by hand.
LEMMA SampleEdits ==
    ASSUME NEW b, Shaped(b), NEW v, NEW scenario, Genuine(b, v, scenario), validate_bundle(b),
           NEW case \in SampleCases \cup {"counter-growth", "all-during", "missing-counters",
                                          "eventless-numeric", "private-sample"},
           NEW c, c = Tampered(b, case)
    PROVE  ~validate_bundle(c) /\ c.attach = b.attach
<1>1. c.samples = TamperSamples(b.samples, case) /\ c.attach = b.attach
  BY EditOfSamples
<1> SUFFICES ~validate_bundle(c)
  BY <1>1
<1>2. PICK s1, s2, s3 : s1 = b.samples[1] /\ s2 = b.samples[2] /\ s3 = b.samples[3]
  OBVIOUS
<1>3. PICK t : t = <<s1, s2, s3>>
  OBVIOUS
<1>4. b.samples = t
  BY <1>2, <1>3 DEF Genuine
<1>5. t[1] = s1 /\ t[2] = s2 /\ t[3] = s3 /\ DOMAIN t = 1 .. 3 /\ Len(t) = 3
  BY <1>3
<1>6. Sampled(s1, 1) /\ Sampled(s2, 2) /\ Sampled(s3, 3)
  <2>1. 1 \in 1 .. 3 /\ 2 \in 1 .. 3 /\ 3 \in 1 .. 3
    OBVIOUS
  <2> QED BY <1>2, <2>1 DEF Genuine
<1>7. s1 \in SampleRows /\ s2 \in SampleRows /\ s3 \in SampleRows /\ s1.sequence = 1
  BY <1>6 DEF Sampled
<1>8. s1.ops # Minimal
  BY <1>4, <1>5, Zenon DEF validate_bundle, validate_samples
<1>9. s1.phase = "before_attach"
  BY <1>6, <1>8 DEF Sampled
<1>10. 1 \in 1 .. 3 /\ 2 \in 1 .. 3 /\ 3 \in 1 .. 3 /\ 1 < 2 /\ 1 < 3
  OBVIOUS
<1>11. PICK u : u = c.samples
  OBVIOUS
<1>12. u = TamperSamples(t, case)
  BY <1>1, <1>4, <1>11
\* One field of the second sample.
<1>13. ASSUME NEW w, u = [t EXCEPT ![2] = w],
              ~validate_sample(w) \/ ~validate_required_counter_fact(w)
       PROVE  ~validate_bundle(c)
  <2>1. DOMAIN u = 1 .. 3 /\ u[2] = w
    BY <1>3, <1>5, <1>13
  <2> QED BY <1>10, <1>11, <1>13, <2>1, SampleSpoils
<1>14. CASE case = "counter-growth"
  <2>1. u = [t EXCEPT ![3].rejected = t[1].rejected + 1, ![3].events = t[1].rejected + 1,
                      ![1].rejected = IF @ = Unavailable THEN 0 ELSE @]
    BY <1>12, <1>14 DEF TamperSamples
  <2>2. PICK n, m : n = s1.rejected + 1 /\ m = IF s1.rejected = Unavailable THEN 0 ELSE s1.rejected
    OBVIOUS
  <2>3. PICK w, x : w = [s3 EXCEPT !.rejected = n, !.events = n] /\ x = [s1 EXCEPT !.rejected = m]
    OBVIOUS
  <2>4. u = <<x, s2, w>>
    BY <1>3, <2>1, <2>2, <2>3
  <2>5. u[1] = x /\ u[3] = w /\ Len(u) = 3 /\ DOMAIN u = 1 .. 3 /\ Last(u) = w
    BY <2>4 DEF Last
  <2>6. w.rejected = n /\ x.rejected = m /\ x.events = s1.events
    BY <1>7, <2>3 DEF SampleRows
  <2>7. s1.rejected \in {Unavailable, 0, 1} /\ s1.events = s1.rejected
    BY <1>6, <1>7 DEF SampleRows, Sampled
  <2>8. CASE s1.rejected = Unavailable
    <3>1. m = 0 /\ x.events = Unavailable
      BY <2>2, <2>6, <2>7, <2>8
    <3>2. ~validate_required_counter_fact(x)
      BY <2>6, <3>1 DEF validate_required_counter_fact, Unavailable
    <3> QED BY <1>10, <1>11, <2>5, <3>2, SampleSpoils
  <2>9. CASE s1.rejected # Unavailable
    <3>1. m = s1.rejected /\ m \in {0, 1} /\ n = m + 1
      BY <2>2, <2>7, <2>9
    <3>2. u[1].rejected # Unavailable /\ Last(u).rejected # Unavailable
          /\ ~(Last(u).rejected <= u[1].rejected)
      BY <2>5, <2>6, <3>1 DEF Unavailable
    <3>3. ~validate_counter_growth(u)
      BY <3>2, Zenon DEF validate_counter_growth
    <3> QED BY <1>11, <3>3, Zenon DEF validate_bundle, validate_samples
  <2> QED BY <2>8, <2>9
<1>15. CASE case = "all-during"
  <2>1. u = [i \in DOMAIN t |-> [t[i] EXCEPT !.ops = Minimal, !.state = "enabled",
                                             !.phase = "during_attach"]]
    BY <1>12, <1>15 DEF TamperSamples
  <2>2. u[1] = [s1 EXCEPT !.ops = Minimal, !.state = "enabled", !.phase = "during_attach"]
    BY <1>5, <1>10, <2>1
  <2>3. u[1].ops = Minimal
    BY <1>7, <2>2 DEF SampleRows
  <2> QED BY <1>11, <2>3, Zenon DEF validate_bundle, validate_samples
<1>16. CASE case = "missing-counters"
  <2>1. PICK w : w = [s2 EXCEPT !.rejected = Missing]
    OBVIOUS
  <2>2. u = [t EXCEPT ![2] = w]
    BY <1>3, <1>5, <1>12, <1>16, <2>1 DEF TamperSamples
  <2>3. w.rejected = Missing
    BY <1>7, <2>1 DEF SampleRows
  <2> QED BY <1>13, <2>2, <2>3 DEF validate_required_counter_fact
<1>17. CASE case = "eventless-numeric"
  <2>1. PICK w : w = [s2 EXCEPT !.rejected = 0, !.events = Unavailable]
    OBVIOUS
  <2>2. u = [t EXCEPT ![2] = w]
    BY <1>3, <1>5, <1>12, <1>17, <2>1 DEF TamperSamples
  <2>3. w.rejected = 0 /\ w.events = Unavailable
    BY <1>7, <2>1 DEF SampleRows
  <2>4. ~validate_required_counter_fact(w)
    BY <2>3 DEF validate_required_counter_fact, Unavailable
  <2> QED BY <1>13, <2>2, <2>4
<1>18. CASE case = "private-sample"
  <2>1. PICK w : w = [s2 EXCEPT !.private = TRUE]
    OBVIOUS
  <2>2. u = [t EXCEPT ![2] = w]
    BY <1>3, <1>5, <1>12, <1>18, <2>1 DEF TamperSamples
  <2>3. w.private = TRUE
    BY <1>7, <2>1 DEF SampleRows
  <2> QED BY <1>13, <2>2, <2>3, Zenon DEF validate_sample, reject_private_leaks
<1>19. CASE case = "sequence-repeats"
  <2>1. PICK w : w = [s2 EXCEPT !.sequence = 1]
    OBVIOUS
  <2>2. u = <<s1, w, s3>>
    BY <1>3, <1>5, <1>7, <1>12, <1>19, <2>1 DEF TamperSamples
  <2>3. w.sequence = 1
    BY <1>7, <2>1 DEF SampleRows
  <2>4. u[1].sequence = 1 /\ u[2].sequence = 1 /\ DOMAIN u = 1 .. 3
    BY <1>7, <2>2, <2>3
  <2>5. ~validate_sched_ext_sequence(u)
    BY <1>10, <2>4 DEF validate_sched_ext_sequence
  <2> QED BY <1>11, <2>5, Zenon DEF validate_bundle, validate_file
<1>20. CASE case = "enable-seq-stale"
  <2>1. PICK w, x : w = [s3 EXCEPT !.enableSeq = 1] /\ x = [s1 EXCEPT !.enableSeq = 2]
    OBVIOUS
  <2>2. u = <<x, s2, w>>
    BY <1>3, <1>5, <1>12, <1>20, <2>1 DEF TamperSamples
  <2>3. w.enableSeq = 1 /\ x.enableSeq = 2
    BY <1>7, <2>1 DEF SampleRows
  <2>4. u[1].enableSeq = 2 /\ u[3].enableSeq = 1 /\ DOMAIN u = 1 .. 3
    BY <2>2, <2>3
  <2>5. ~validate_sched_ext_sequence(u)
    BY <1>10, <2>4 DEF validate_sched_ext_sequence, Unavailable
  <2> QED BY <1>11, <2>5, Zenon DEF validate_bundle, validate_file
<1>21. CASE case = "before-enabled"
  <2>1. PICK x : x = [s1 EXCEPT !.state = "enabled"]
    OBVIOUS
  <2>2. u = <<x, s2, s3>>
    BY <1>3, <1>5, <1>12, <1>21, <2>1 DEF TamperSamples
  <2>3. x.state = "enabled" /\ x.phase = "before_attach"
    BY <1>7, <1>9, <2>1 DEF SampleRows
  <2>4. u[1] = x /\ DOMAIN u = 1 .. 3
    BY <2>2
  <2>5. ~validate_sched_ext_sequence(u)
    BY <1>10, <2>3, <2>4 DEF validate_sched_ext_sequence
  <2> QED BY <1>11, <2>5, Zenon DEF validate_bundle, validate_file
<1>22. CASE case = "rollback-live-ops"
  <2>1. PICK w : w = [s3 EXCEPT !.ops = Minimal, !.phase = "after_rollback"]
    OBVIOUS
  <2>2. u = <<s1, s2, w>>
    BY <1>3, <1>5, <1>12, <1>22, <2>1 DEF TamperSamples
  <2>3. w.ops = Minimal
    BY <1>7, <2>1 DEF SampleRows
  <2>4. Last(u).ops = Minimal
    BY <2>2, <2>3 DEF Last
  <2> QED BY <1>11, <2>4, Zenon DEF validate_bundle, validate_samples
<1>23. CASE case = "bad-policy-abi"
  <2>1. PICK w : w = [s2 EXCEPT !.abi = "v2"]
    OBVIOUS
  <2>2. u = [t EXCEPT ![2] = w]
    BY <1>3, <1>5, <1>12, <1>23, <2>1 DEF TamperSamples
  <2>3. w.abi = "v2"
    BY <1>7, <2>1 DEF SampleRows
  <2>4. w.abi # "v3"
    BY <2>3
  <2> QED BY <1>13, <2>2, <2>4, Zenon DEF validate_sample, validate_v3_policy_abi
<1>24. CASE case = "incoherent-callback-stats"
  <2>1. PICK w : w = [s2 EXCEPT !.weightCalls = TRUE, !.weightObserved = FALSE]
    OBVIOUS
  <2>2. u = [t EXCEPT ![2] = w]
    BY <1>3, <1>5, <1>12, <1>24, <2>1 DEF TamperSamples
  <2>3. w.weightCalls = TRUE /\ w.weightObserved = FALSE
    BY <1>7, <2>1 DEF SampleRows
  <2> QED BY <1>13, <2>2, <2>3, Zenon
          DEF validate_sample, validate_v3_policy_abi, validate_cgroup_callback_stats
<1>25. CASE case = "malformed-sample"
  <2>1. PICK w : w = [s2 EXCEPT !.wellFormed = FALSE]
    OBVIOUS
  <2>2. u = [t EXCEPT ![2] = w]
    BY <1>3, <1>5, <1>12, <1>25, <2>1 DEF TamperSamples
  <2>3. w.wellFormed = FALSE
    BY <1>7, <2>1 DEF SampleRows
  <2> QED BY <1>13, <2>2, <2>3, Zenon DEF validate_sample, validate_root_fields
<1>26. CASE case = "zero-cgroup-digest"
  <2>1. PICK w : w = [s2 EXCEPT !.member = FALSE]
    OBVIOUS
  <2>2. u = [t EXCEPT ![2] = w]
    BY <1>3, <1>5, <1>12, <1>26, <2>1 DEF TamperSamples
  <2>3. w.member = FALSE
    BY <1>7, <2>1 DEF SampleRows
  <2> QED BY <1>13, <2>2, <2>3, Zenon DEF validate_sample
<1> QED BY <1>14, <1>15, <1>16, <1>17, <1>18, <1>19, <1>20, <1>21, <1>22, <1>23, <1>24,
           <1>25, <1>26 DEF SampleCases

\* The other files, edited by hand.
OtherCases == PartialCases \cup LedgerCases \cup
              {"no-observe", "bad-object", "daemon-host-mutation", "observe-release", "observe-alive",
               "observe-count", "final-state"}

\* No edit of the partial evidence, the ledger, the daemon rows or the observe file passes.
LEMMA OtherEdits ==
    ASSUME NEW b, Shaped(b), NEW v, NEW scenario, Genuine(b, v, scenario),
           NEW case \in OtherCases, NEW c, c = Tampered(b, case)
    PROVE  ~validate_bundle(c) /\ c.attach = b.attach
<1>1. PICK p : p = [ops |-> Minimal, target |-> "lab", rollback |-> "PASS", postState |-> "disabled",
                    objectSha |-> v.objectSha, transcript |-> TRUE, hostMutation |-> FALSE,
                    eligible |-> FALSE]
  OBVIOUS
<1>2. PICK l : l = [audit |-> "AUD", rollback |-> "RB", snapshotAudit |-> "AUD",
                    snapshotRollback |-> "RB", snapshotHash |-> TRUE, transcriptHash |-> TRUE]
  OBVIOUS
<1>3. PICK o, all, last, work :
        /\ all = AllAlive(b.samples) /\ last = b.samples[3]
        /\ work = [status |-> "PASS", hostMutation |-> FALSE, scenario |-> scenario]
        /\ o = [mode |-> "vm-live", eligible |-> FALSE, count |-> 3,
                finalState |-> last.state, finalOps |-> last.ops,
                snapshotState |-> last.state, snapshotOps |-> last.ops,
                rolledBack |-> TRUE, aliveAll |-> all, workload |-> work]
  OBVIOUS
<1>4. b.partial = p /\ b.ledger = <<l>> /\ b.observe = o /\ last.state = "disabled"
  BY <1>1, <1>2, <1>3 DEF Genuine, partial_evidence_payload, write_rollback_outputs
<1>5. CASE case \in {"bad-object"} \cup PartialCases
  <2>1. PICK x : /\ c = [b EXCEPT !.partial = x]
                 /\ \/ x = [p EXCEPT !.objectSha = Missing]
                    \/ x = [p EXCEPT !.hostMutation = TRUE]
                    \/ x = [p EXCEPT !.eligible = TRUE]
                    \/ x = [p EXCEPT !.ops = "other"]
                    \/ x = [p EXCEPT !.target = "system"]
    <3>1. CASE case = "bad-object"
      BY <1>4, <3>1 DEF Tampered, Shaped
    <3>2. CASE case = "partial-host-mutation"
      BY <1>4, <3>2 DEF Tampered, Shaped
    <3>3. CASE case = "partial-release"
      BY <1>4, <3>3 DEF Tampered, Shaped
    <3>4. CASE case = "partial-ops"
      BY <1>4, <3>4 DEF Tampered, Shaped
    <3>5. CASE case = "partial-target"
      BY <1>4, <3>5 DEF Tampered, Shaped
    <3> QED BY <1>5, <3>1, <3>2, <3>3, <3>4, <3>5 DEF PartialCases
  <2>2. \/ x.objectSha = Missing \/ x.hostMutation = TRUE \/ x.eligible = TRUE \/ x.ops # Minimal
        \/ x.target # "lab"
    BY <1>1, <2>1 DEF Minimal
  <2>3. ~validate_evidence(x)
    BY <2>2, Zenon DEF validate_evidence
  <2>4. c.partial = x /\ c.attach = b.attach
    BY <2>1 DEF Shaped
  <2> QED BY <2>3, <2>4, Zenon DEF validate_bundle
<1>6. CASE case = "duplicate-audit"
  <2>1. c = [b EXCEPT !.ledger = @ \o @]
    BY <1>6 DEF Tampered
  <2>2. PICK k, one : one = <<l>> /\ k = one \o one
    OBVIOUS
  <2>3. one \in Seq({l}) /\ Len(one) = 1
    BY <2>2
  <2>4. k \in Seq({l}) /\ Len(k) = 2
    BY ONLY <2>2, <2>3, ConcatProperties, 1 + 1 = 2
  <2>5. DOMAIN k = 1 .. 2 /\ k[1] = l /\ k[2] = l
    <3>1. DOMAIN k = 1 .. 2
      BY <2>4, LenProperties
    <3>2. \A i \in 1 .. 2 : k[i] \in {l}
      BY <2>4, ElementOfSeq
    <3>3. 1 \in 1 .. 2 /\ 2 \in 1 .. 2
      OBVIOUS
    <3> QED BY <3>1, <3>2, <3>3
  <2>6. c.ledger = k /\ c.attach = b.attach
    BY <1>4, <2>1, <2>2 DEF Shaped
  <2>7. PICK f : f = [i \in DOMAIN k |-> k[i].audit]
    OBVIOUS
  <2>8. DOMAIN f = 1 .. 2 /\ 1 \in 1 .. 2 /\ 2 \in 1 .. 2 /\ f[1] = f[2]
    BY <2>5, <2>7
  <2>9. ~IsInjective(f)
    BY <2>8 DEF IsInjective
  <2> QED BY <2>6, <2>7, <2>9, Zenon DEF validate_bundle, validate_ledger
<1>7. CASE case \in {"mismatched-rollback", "secret-audit", "changed-transcript"}
  <2>1. PICK x : /\ c = [b EXCEPT !.ledger = <<x>>]
                 /\ \/ x = [l EXCEPT !.rollback = "other"]
                    \/ x = [l EXCEPT !.audit = "secret"]
                    \/ x = [l EXCEPT !.transcriptHash = FALSE]
    <3>0. \A x : [<<l>> EXCEPT ![1] = x] = <<x>>
      OBVIOUS
    <3>1. CASE case = "mismatched-rollback"
      <4>1. c = [b EXCEPT !.ledger[1].rollback = "other"]
        BY <3>1 DEF Tampered
      <4>2. PICK x : x = [l EXCEPT !.rollback = "other"]
        OBVIOUS
      <4>3. c = [b EXCEPT !.ledger = [<<l>> EXCEPT ![1] = x]]
        BY <1>4, <4>1, <4>2
      <4> QED BY <3>0, <4>2, <4>3
    <3>2. CASE case = "secret-audit"
      <4>1. c = [b EXCEPT !.ledger[1].audit = "secret"]
        BY <3>2 DEF Tampered
      <4>2. PICK x : x = [l EXCEPT !.audit = "secret"]
        OBVIOUS
      <4>3. c = [b EXCEPT !.ledger = [<<l>> EXCEPT ![1] = x]]
        BY <1>4, <4>1, <4>2
      <4> QED BY <3>0, <4>2, <4>3
    <3>3. CASE case = "changed-transcript"
      <4>1. c = [b EXCEPT !.ledger[1].transcriptHash = FALSE]
        BY <3>3 DEF Tampered
      <4>2. PICK x : x = [l EXCEPT !.transcriptHash = FALSE]
        OBVIOUS
      <4>3. c = [b EXCEPT !.ledger = [<<l>> EXCEPT ![1] = x]]
        BY <1>4, <4>1, <4>2
      <4> QED BY <3>0, <4>2, <4>3
    <3> QED BY <1>7, <3>1, <3>2, <3>3
  <2>2. \/ x.snapshotRollback # x.rollback \/ x.audit = "secret" \/ x.transcriptHash = FALSE
    BY <1>2, <2>1
  <2>3. ~validate_record(x)
    BY <2>2, Zenon DEF validate_record
  <2>4. c.ledger = <<x>> /\ c.attach = b.attach
    BY <2>1 DEF Shaped
  <2>5. 1 \in DOMAIN c.ledger /\ c.ledger[1] = x
    BY <2>4
  <2> QED BY <2>3, <2>4, <2>5, Zenon DEF validate_bundle, validate_ledger
<1>8. CASE case = "no-observe"
  <2>1. c = [b EXCEPT !.observe = Missing]
    BY <1>8 DEF Tampered
  <2>2. c.observe = Missing /\ c.attach = b.attach
    BY <2>1 DEF Shaped
  <2> QED BY <2>2, Zenon DEF validate_bundle, validate_observe
<1>9. CASE case = "daemon-host-mutation"
  <2>1. PICK d1, d2, d3 : d1 = daemon_row(b.samples[1]) /\ d2 = daemon_row(b.samples[2])
                          /\ d3 = daemon_row(b.samples[3])
    OBVIOUS
  <2>2. b.daemon = <<d1, d2, d3>>
    BY <2>1 DEF Genuine
  <2>3. c = [b EXCEPT !.daemon[2].hostMutation = Missing]
    BY <1>9 DEF Tampered
  <2>4. PICK x : x = [d2 EXCEPT !.hostMutation = Missing]
    OBVIOUS
  <2>5. c.daemon = <<d1, x, d3>> /\ c.attach = b.attach
    BY <2>2, <2>3, <2>4 DEF Shaped
  <2>6. x.hostMutation = Missing
    BY <2>1, <2>4 DEF daemon_row
  <2>7. 2 \in DOMAIN c.daemon /\ c.daemon[2] = x
    BY <2>5
  <2>8. Missing # FALSE
    BY EvidenceAssumption
  <2> QED BY <2>5, <2>6, <2>7, <2>8, Zenon DEF validate_bundle, validate_daemon_events
<1>10. CASE case = "observe-release"
  <2>1. c = [b EXCEPT !.observe.eligible = TRUE]
    BY <1>10 DEF Tampered
  <2>2. PICK x : x = [o EXCEPT !.eligible = TRUE]
    OBVIOUS
  <2>3. c.observe = x /\ c.attach = b.attach /\ x.eligible = TRUE
    BY <1>3, <1>4, <2>1, <2>2 DEF Shaped
  <2> QED BY <2>3, Zenon DEF validate_bundle, validate_observe
<1>11. CASE case = "observe-alive"
  <2>1. c = [b EXCEPT !.observe.aliveAll = ~@]
    BY <1>11 DEF Tampered
  <2>2. PICK n, x : n = ~all /\ x = [o EXCEPT !.aliveAll = n]
    OBVIOUS
  <2>3. o.aliveAll = all
    BY <1>3
  <2>4. c.observe = x /\ c.attach = b.attach /\ c.samples = b.samples
    BY <1>4, <2>1, <2>2, <2>3 DEF Shaped
  <2>5. x.aliveAll = n
    BY <1>3, <2>2
  <2>6. n # all
    BY <1>3, <2>2 DEF AllAlive
  <2>7. c.observe.aliveAll # AllAlive(c.samples)
    BY <1>3, <2>4, <2>5, <2>6
  <2> QED BY <2>4, <2>7, Zenon DEF validate_bundle, validate_samples
<1>12. CASE case = "observe-count"
  <2>1. c = [b EXCEPT !.observe.count = @ + 1]
    BY <1>12 DEF Tampered
  <2>2. PICK x : x = [o EXCEPT !.count = 4]
    OBVIOUS
  <2>3. o.count = 3 /\ 3 + 1 = 4
    BY <1>3
  <2>4. c.observe = x /\ c.attach = b.attach /\ c.samples = b.samples
    BY <1>4, <2>1, <2>2, <2>3 DEF Shaped
  <2>5. x.count = 4
    BY <1>3, <2>2
  <2>6. Len(b.samples) = 3
    <3>1. PICK s1, s2, s3 : b.samples = <<s1, s2, s3>>
      BY DEF Genuine
    <3> QED BY <3>1
  <2>7. Len(c.samples) # c.observe.count
    BY <2>4, <2>5, <2>6
  <2> QED BY <2>4, <2>7, Zenon DEF validate_bundle, validate_observe, validate_sample_series
<1>13. CASE case = "final-state"
  <2>1. c = [b EXCEPT !.observe.finalState = "enabled"]
    BY <1>13 DEF Tampered
  <2>2. PICK x : x = [o EXCEPT !.finalState = "enabled"]
    OBVIOUS
  <2>3. c.observe = x /\ c.attach = b.attach
    BY <1>4, <2>1, <2>2 DEF Shaped
  <2>4. x.finalState = "enabled" /\ x.snapshotState = "disabled"
    BY <1>3, <1>4, <2>2
  <2>5. c.observe.snapshotState # c.observe.finalState
    BY <2>3, <2>4
  <2> QED BY <2>3, <2>5, Zenon DEF validate_bundle, validate_observe, validate_snapshot
<1> QED BY <1>5, <1>6, <1>7, <1>8, <1>9, <1>10, <1>11, <1>12, <1>13 DEF OtherCases, LedgerCases, PartialCases

\* No edit of the self-tests leaves a bundle that some tree would make acceptable.
LEMMA EditsSpoil ==
    ASSUME NEW b, Shaped(b), NEW v \in Shell, NEW scenario, Genuine(b, v, scenario),
           b.summary = summary_payload(v), validate_bundle(b),
           NEW case \in TamperCases, NEW c, c = Tampered(b, case)
    PROVE  Spoilt(c) /\ c.attach = b.attach
<1>1. \/ case \in FreshnessCases \cup {"host-mutation"}
      \/ case \in SampleCases \cup {"counter-growth", "all-during", "missing-counters",
                                    "eventless-numeric", "private-sample"}
      \/ case \in OtherCases
  BY DEF TamperCases, FreshnessCases, BehaviorCases, PartialCases, LedgerCases, ObserveCases,
         SampleCases, OtherCases
<1>2. CASE case \in FreshnessCases \cup {"host-mutation"}
  BY <1>2, SummaryEdits
<1>3. CASE case \in SampleCases \cup {"counter-growth", "all-during", "missing-counters",
                                      "eventless-numeric", "private-sample"}
  BY <1>3, SampleEdits DEF Spoilt
<1>4. CASE case \in OtherCases
  BY <1>4, OtherEdits DEF Spoilt
<1> QED BY <1>1, <1>2, <1>3, <1>4

\* An edit spoils the bundle.
LEMMA TamperFiles ==
    ASSUME IInv, EInv, NEW r \in Runs, Tamper(r)
    PROVE  EInv'
<1>1. /\ UNCHANGED <<provenance, pc, guest, serial>> /\ pc[r] = "exited" /\ validate_bundle(bundle[r])
      /\ run[r].tampered = "no"
  BY DEF Tamper
<1>2. PICK case \in Tampering :
        /\ bundle' = [bundle EXCEPT ![r] = Tampered(bundle[r], case)]
        /\ run' = [run EXCEPT ![r].tampered = case]
  BY DEF Tamper
<1>3. case \in TamperCases
  BY LabAssumption
<1>4. case # "no"
  BY <1>3 DEF TamperCases, FreshnessCases, BehaviorCases, PartialCases, LedgerCases,
              ObserveCases, SampleCases
<1>5. run \in [Runs -> Shell] /\ run[r] \in Shell /\ bundle = [q \in Runs |-> bundle[q]]
  BY DEF IInv, TypeOK
<1>6. PICK v, c : v = [run[r] EXCEPT !.tampered = case] /\ c = Tampered(bundle[r], case)
  OBVIOUS
<1>7. /\ v.tampered = case /\ v.head = run[r].head /\ v.snapshot = run[r].snapshot
      /\ v.scanAfter = run[r].scanAfter
  BY <1>5, <1>6 DEF Shell
<1>8. run' = [run EXCEPT ![r] = v] /\ bundle' = [bundle EXCEPT ![r] = c]
  BY <1>2, <1>5, <1>6
<1>9. /\ run'[r] = v /\ bundle'[r] = c
      /\ \A q \in Runs \ {r} : run'[q] = run[q] /\ bundle'[q] = bundle[q]
  BY <1>5, <1>8
<1>10. \A q \in Runs \ {r} : Apart(q)
  BY <1>1, <1>9 DEF Apart
<1>11. Shaped(bundle[r])
  BY <1>1 DEF IInv, RunInv, Filed
<1>12. /\ Nominal(guest[r], serial[r]) /\ Scanned(r) /\ Signed(r) /\ Made(r)
  BY DEF EInv, FilesInv
<1>13. Genuine(bundle[r], run[r], Scenario[r]) /\ bundle[r].summary = summary_payload(run[r])
  BY <1>1, <1>12 DEF Made, AfterParse
<1>14. Spoilt(c) /\ c.attach = bundle[r].attach
  BY <1>1, <1>3, <1>5, <1>6, <1>11, <1>13, EditsSpoil
<1>15. c.attach = live_attach_payload(v)
  BY <1>7, <1>13, <1>14 DEF Genuine, live_attach_payload
<1>16. Scanned(r)' /\ Signed(r)'
  BY <1>1, <1>7, <1>9, <1>12 DEF Scanned, Signed
<1>17. Made(r)' /\ Edited(r)'
  BY <1>1, <1>4, <1>7, <1>9, <1>14, <1>15 DEF Made, Edited
<1> QED BY <1>1, <1>10, <1>12, <1>16, <1>17, OneRunFiles DEF FilesInv

\* Before the first run nothing is written.
LEMMA FilesInit == Init => EInv
<1> SUFFICES ASSUME Init, NEW r \in Runs PROVE FilesInv(r)
  BY DEF EInv
<1>1. /\ pc[r] = "idle" /\ run[r] = NoRun /\ guest[r] = NoGuest /\ serial[r] = <<>>
      /\ provenance.bundle = None
  BY DEF Init
<1>2. DOMAIN <<>> = {} /\ NoRun.tampered = "no" /\ None \notin Runs
  BY LabAssumption DEF NoRun
<1>3. Nominal(guest[r], serial[r])
  BY <1>1, <1>2, NominalFresh
<1>4. Scanned(r) /\ Signed(r) /\ Made(r) /\ Edited(r)
  BY <1>1, <1>2 DEF Scanned, Signed, Made, Edited, AfterParse
<1> QED BY <1>3, <1>4 DEF FilesInv

\* Every step of the lab keeps the second invariant.
LEMMA FilesStep == IInv /\ EInv /\ [Next]_vars => EInv'
<1> SUFFICES ASSUME IInv, EInv, [Next]_vars PROVE EInv'
  OBVIOUS
<1>1. CASE EditBpf \/ EditRest \/ Commit \/ Reset \/ GateBuild
  <2>1. UNCHANGED <<provenance, pc, run, guest, serial, bundle>>
    BY <1>1 DEF EditBpf, EditRest, Commit, Reset, GateBuild
  <2>2. \A q \in Runs : Apart(q)
    BY <2>1 DEF Apart
  <2> QED BY <2>1, <2>2, ApartFiles DEF EInv
<1>2. ASSUME NEW r \in Runs, Start(r) \/ Advance(r) \/ IoUringFailure(r) \/ Kill(r) PROVE EInv'
  BY <1>2, PrepareFiles, LaunchFiles, IoUringFiles, ScanAfterFiles, ParseFiles,
     WriteProvenanceFiles, WriteSummaryFiles, RunChecksFiles, KillFiles DEF Advance
<1>3. ASSUME NEW r \in Runs, GuestNext(r) PROVE EInv'
  BY <1>3, GuestFiles
<1>4. ASSUME NEW r \in Runs, Timeout(r) PROVE EInv'
  BY <1>4, TimeoutFiles
<1>5. ASSUME NEW r \in Runs, Tamper(r) PROVE EInv'
  BY <1>5, TamperFiles
<1>6. CASE UNCHANGED vars
  <2>1. UNCHANGED <<provenance, pc, run, guest, serial, bundle>>
    BY <1>6 DEF vars
  <2>2. \A q \in Runs : Apart(q)
    BY <2>1 DEF Apart
  <2> QED BY <2>1, <2>2, ApartFiles DEF EInv
<1> QED BY <1>1, <1>2, <1>3, <1>4, <1>5, <1>6 DEF Next

\* The files of a run are those of a genuine report, or have been spoilt.
THEOREM LabFiles == Spec => []EInv
<1>1. IInv /\ EInv /\ [Next]_vars => (IInv /\ EInv)'
  BY InvStep, FilesStep
<1>2. Init => IInv /\ EInv
  BY InvInit, FilesInit
<1> QED BY <1>1, <1>2, PTL DEF Spec

-----------------------------------------------------------------------------
(* What is edited is refused *)

\* What is missing is no number.
LEMMA NoNumber == \A n \in Int : n # Missing
BY EvidenceAssumption, Zenon

\* What the repository is now is never Missing.
LEMMA NowIsThere ==
    ASSUME TypeOK
    PROVE  /\ Now.head = tree.head /\ tree.head \in Nat /\ Now.objectSha = object /\ object \in Nat
           /\ Now.snapshot = (IF Dirty THEN SnapshotHash ELSE None) /\ SnapshotHash \in Snapshots
           /\ Missing \notin {Now.head, Now.objectSha, SnapshotHash} /\ SnapshotHash # None
<1>1. /\ Now.head = tree.head /\ Now.objectSha = object
      /\ Now.snapshot = IF Dirty THEN SnapshotHash ELSE None
  BY DEF Now
<1>2. tree.head \in Nat /\ object \in Nat /\ SnapshotHash \in Snapshots
  BY DEF TypeOK, Tree, SnapshotHash, Snapshots
<1>3. SnapshotHash # Missing /\ SnapshotHash # None
  BY <1>2, EvidenceAssumption, Zenon
<1>4. Missing \notin Nat
  BY NoNumber
<1> QED BY <1>1, <1>2, <1>3, <1>4, Zenon

\* A spoilt bundle is refused whatever the repository is now.
LEMMA SpoiltRefused ==
    ASSUME TypeOK, NEW r \in Runs, Spoilt(bundle[r])
    PROVE  ~Accepts(r)
<1> SUFFICES ASSUME Accepts(r) PROVE FALSE
  OBVIOUS
<1> DEFINE s == bundle[r].summary
<1>1. validate_bundle(bundle[r]) /\ validate_fresh_bundle(bundle[r], r, Now, provenance)
  BY Zenon DEF Accepts, require_live_behavior_bundle
<1>2. /\ s.head = Now.head /\ s.objectSha = Now.objectSha
      /\ s.dirty => validate_dirty_snapshot(s, r, Now, provenance)
      /\ s.fresh /\ validate_cleanup(s.cleanup)
  BY <1>1, Zenon DEF validate_fresh_bundle
<1> HIDE DEF s
<1>3. s.cleanup # Missing /\ s.cleanup.scanBefore = TRUE
  BY <1>2, Zenon DEF validate_cleanup
<1>4. s.head # Missing /\ s.objectSha # Missing /\ s.fresh # FALSE /\ s.cleanup.scanBefore # Missing
  <2>1. s.head # Missing /\ s.objectSha # Missing
    BY <1>2, NowIsThere
  <2>2. s.fresh # FALSE
    BY <1>2, Zenon
  <2>3. s.cleanup.scanBefore # Missing
    BY <1>3, EvidenceAssumption
  <2> QED BY <2>1, <2>2, <2>3, Zenon
<1>5. ~(s.dirty = TRUE /\ s.snapshot \in {None, Missing})
  <2> SUFFICES ASSUME s.dirty = TRUE, s.snapshot \in {None, Missing} PROVE FALSE
    OBVIOUS
  <2>1. validate_dirty_snapshot(s, r, Now, provenance)
    BY <1>2, Zenon
  <2>2. Now.snapshot # None /\ s.snapshot = Now.snapshot
    BY <2>1, Zenon DEF validate_dirty_snapshot
  <2>3. s.snapshot = SnapshotHash
    BY <2>2, NowIsThere
  <2> QED BY <2>3, NowIsThere
<1>6. Spoilt(bundle[r])
  OBVIOUS
<1> QED BY ONLY <1>1, <1>3, <1>4, <1>5, <1>6, Zenon DEF Spoilt, s

\* No attach proof is accepted with an edit of the self-tests.
LEMMA AttachEditsRefused ==
    ASSUME TypeOK, NEW v, NEW a, a = live_attach_payload(v), NEW case \in AttachCases
    PROVE  ~validate_attach(TamperedAttach(a, case), Now)
<1>1. a = [action |-> "act", mode |-> "vm-live", head |-> v.head, marker |-> TRUE, private |-> FALSE,
           hostMutation |-> FALSE]
  BY DEF live_attach_payload
<1>2. PICK c : c = TamperedAttach(a, case)
  OBVIOUS
<1>3. \/ c = [a EXCEPT !.mode = "host-safe-surrogate"] \/ c = [a EXCEPT !.action = Missing]
      \/ c = [a EXCEPT !.marker = FALSE] \/ c = [a EXCEPT !.head = Missing]
      \/ c = [a EXCEPT !.private = TRUE]
  BY <1>2 DEF TamperedAttach, AttachCases
<1>4. \/ c.mode # "vm-live" \/ c.action = Missing \/ c.marker = FALSE \/ c.head = Missing
      \/ c.private = TRUE
  BY <1>1, <1>3
<1>5. c.head = Missing => c.head # Now.head
  BY NowIsThere
<1>6. ~validate_attach(c, Now)
  BY <1>4, <1>5, Zenon DEF validate_attach, reject_private_leaks
<1> QED BY <1>2, <1>6

\* No edit of the self-tests is accepted, on any bundle that a run can produce and
\* in any state of the repository.
THEOREM LabTamperedRejected == Spec => []TamperedRejected
<1>1. IInv /\ EInv => TamperedRejected
  <2> SUFFICES ASSUME IInv, EInv, NEW r \in Runs
               PROVE  /\ Accepts(r) => Untampered(r)
                      /\ pc[r] = "exited" => \A case \in AttachCases :
                            ~validate_attach(TamperedAttach(bundle[r].attach, case), Now)
    BY DEF TamperedRejected
  <2>1. TypeOK /\ Made(r) /\ Edited(r)
    BY DEF IInv, EInv, FilesInv
  <2>2. Accepts(r) => Untampered(r)
    BY <2>1, SpoiltRefused DEF Edited, Untampered
  <2>3. pc[r] = "exited" => bundle[r].attach = live_attach_payload(run[r])
    BY <2>1 DEF Made, Edited, Genuine, AfterParse
  <2> QED BY <2>1, <2>2, <2>3, AttachEditsRefused
<1> QED BY <1>1, LabInvariant, LabFiles, PTL

-----------------------------------------------------------------------------
(* What is honest is accepted *)

\* A summary, an attach proof and a receipt are there.
LEMMA FilesAreThere ==
    ASSUME NEW v \in Shell
    PROVE  /\ summary_payload(v) # Missing /\ live_attach_payload(v) # Missing
           /\ summary_payload(v).cleanup # Missing /\ Missing # "act"
<1>1. PICK u, snap, st :
        /\ snap = (IF v.dirty THEN v.snapshot ELSE Missing)
        /\ u = [receipt |-> TRUE, scanBefore |-> v.scanBefore, scanAfter |-> v.scanAfter, leftovers |-> FALSE]
        /\ st = <<"PASS", "PASS", "PASS", "PASS">>
  OBVIOUS
<1>2. u \in Receipts
  BY <1>1 DEF Receipts, Shell
<1>3. /\ v.head \in Nat \cup {None} /\ v.objectSha \in Nat \cup {None} /\ v.dirty \in BOOLEAN
      /\ v.snapshot \in Snapshots \cup {None}
  BY DEF Shell
<1>4. snap \in Snapshots \cup {None, Missing}
  BY <1>1, <1>3
<1>5. st \in Seq({"PASS"})
  BY <1>1
<1>6. PICK s : s = [status |-> "PASS", mode |-> "vm-live", head |-> v.head, objectSha |-> v.objectSha,
                    dirty |-> v.dirty, snapshot |-> snap,
                    hostMutation |-> FALSE, fresh |-> TRUE, marker |-> TRUE, rollback |-> "PASS",
                    releaseUse |-> FALSE, eligible |-> TRUE, stages |-> st, cleanup |-> u]
  OBVIOUS
<1>7. s \in SummaryFiles /\ s.cleanup = u
  BY ONLY <1>2, <1>3, <1>4, <1>5, <1>6, TRUE \in BOOLEAN, FALSE \in BOOLEAN DEF SummaryFiles
<1>8. summary_payload(v) = s
  BY <1>1, <1>6 DEF summary_payload
<1>9. live_attach_payload(v) \in AttachFiles
  BY ONLY <1>3, TRUE \in BOOLEAN, FALSE \in BOOLEAN DEF live_attach_payload, AttachFiles
<1> QED BY <1>2, <1>7, <1>8, <1>9, FilesAssumption

\* A spotless report passes the checks of its behaviour.
LEMMA SpotlessPasses ==
    ASSUME NEW b, NEW v \in Shell, NEW scenario, Genuine(b, v, scenario), Spotless(b.samples),
           b.summary = summary_payload(v), validate_evidence(b.partial), validate_observe(b)
    PROVE  validate_bundle(b)
<1>1. PICK s1, s2, s3 : s1 = b.samples[1] /\ s2 = b.samples[2] /\ s3 = b.samples[3]
  OBVIOUS
<1>2. b.samples = <<s1, s2, s3>>
  BY <1>1 DEF Genuine
<1>3. PICK t : t = b.samples
  OBVIOUS
<1>4. t[1] = s1 /\ t[2] = s2 /\ t[3] = s3 /\ DOMAIN t = 1 .. 3 /\ Len(t) = 3 /\ Last(t) = s3
  BY <1>2, <1>3 DEF Last
<1>5. PICK o : o = b.observe
  OBVIOUS
<1>6. o.mode = "vm-live" /\ o.rolledBack = TRUE
  BY <1>5 DEF Genuine
<1>7. \A i \in 1 .. 3 : /\ Sampled(t[i], i) /\ t[i].rejected = 0 /\ t[i].alive = TRUE
  BY <1>3 DEF Genuine, Spotless
<1>8. s1.ops = None /\ s2.ops = Minimal /\ s3.ops = None /\ s3.state = "disabled" /\ None # Minimal
  BY <1>1, EvidenceAssumption DEF Genuine, Spotless
<1>9. AllAlive(t)
  BY <1>4, <1>7 DEF AllAlive
<1>10. /\ validate_file(t) /\ validate_ledger(b.ledger) /\ DaemonShowsPolicy(b.daemon)
       /\ o.aliveAll = AllAlive(t)
  BY <1>3, <1>5, Zenon DEF validate_observe, validate_sample_series
<1>11. validate_observe_behavior(o)
  BY <1>6, <1>9, <1>10, Zenon DEF validate_observe_behavior
<1>12. validate_counter_growth(t)
  <2>1. \A i \in DOMAIN t : validate_required_counter_fact(t[i])
    <3> SUFFICES ASSUME NEW i \in 1 .. 3 PROVE validate_required_counter_fact(t[i])
      BY <1>4
    <3>1. t[i].rejected = 0 /\ t[i].events = 0
      BY <1>7 DEF Sampled
    <3>2. 0 # Missing /\ 0 # Unavailable
      BY NoNumber DEF Unavailable
    <3>3. t[i].events # Unavailable
      BY <3>1, <3>2
    <3> QED BY <3>1, <3>2, <3>3, Zenon DEF validate_required_counter_fact
  <2>2. t[1].rejected = 0 /\ Last(t).rejected = 0
    <3>1. 1 \in 1 .. 3 /\ 3 \in 1 .. 3
      OBVIOUS
    <3> QED BY <1>4, <1>7, <3>1
  <2> QED BY <2>1, <2>2 DEF validate_counter_growth
<1>13. validate_samples(t, o)
  <2>1. 2 \in 2 .. Len(t) - 1 /\ Len(t) >= 3
    BY <1>4
  <2>2. \A i \in DOMAIN t : t[i].member
    BY <1>4, <1>7 DEF Sampled
  <2>3. t[1].ops # Minimal /\ t[2].ops = Minimal /\ Last(t).ops # Minimal /\ Last(t).state = "disabled"
    BY <1>4, <1>8
  <2> QED BY <1>9, <1>10, <1>12, <2>1, <2>2, <2>3, Zenon DEF validate_samples
<1>14. validate_daemon_events(b.daemon)
  <2>1. PICK d : d = b.daemon
    OBVIOUS
  <2>2. d = <<daemon_row(s1), daemon_row(s2), daemon_row(s3)>>
    BY <1>1, <2>1 DEF Genuine
  <2>3. \A x : daemon_row(x).hostMutation = FALSE
    BY DEF daemon_row
  <2>4. /\ DOMAIN d = 1 .. 3 /\ d[1].hostMutation = FALSE /\ d[2].hostMutation = FALSE
        /\ d[3].hostMutation = FALSE
    BY <2>2, <2>3
  <2>5. \A i \in DOMAIN d : d[i].hostMutation = FALSE
    BY <2>4, UpToThree
  <2> QED BY <1>10, <2>1, <2>5, Zenon DEF validate_daemon_events
<1>15. /\ b.summary # Missing /\ b.summary.status = "PASS" /\ b.summary.hostMutation = FALSE
       /\ validate_vm_live_gate(b.summary)
  <2>1. b.summary # Missing
    BY FilesAreThere
  <2>2. /\ b.summary.status = "PASS" /\ b.summary.hostMutation = FALSE
        /\ b.summary.mode = "vm-live" /\ b.summary.marker = TRUE /\ b.summary.rollback = "PASS"
    BY DEF summary_payload
  <2> QED BY <2>1, <2>2, Zenon DEF validate_vm_live_gate
<1>16. validate_partial_behavior(b.partial)
  BY Zenon DEF validate_evidence, validate_partial_behavior
<1> QED BY <1>3, <1>5, <1>10, <1>11, <1>13, <1>14, <1>15, <1>16, Zenon DEF validate_bundle

\* A run without a fault, of the repository as it is, has a bundle that every
\* consumer accepts.
THEOREM LabHonestAccepted == Spec => []HonestAccepted
<1>1. IInv /\ EInv => HonestAccepted
  <2> SUFFICES ASSUME IInv, EInv, NEW r \in Runs, pc[r] = "exited", Untampered(r), ~guest[r].faulty,
                      run[r].scanBefore, run[r].head = tree.head,
                      {run[r].objectSha, run[r].ranObject, object} = {tree.bpf},
                      run[r].dirty = Dirty,
                      run[r].dirty => run[r].snapshot = SnapshotHash /\ provenance.bundle = r
               PROVE  /\ Accepts(r) /\ validate_backend_live_summary(bundle[r])
                      /\ validate_attach(bundle[r].attach, Now)
    BY Zenon DEF HonestAccepted
  <2>1. PICK v, b : v = run[r] /\ b = bundle[r]
    OBVIOUS
  <2>2. TypeOK /\ v \in Shell /\ guest[r] \in Machine
    BY <2>1 DEF IInv, TypeOK
  <2>3. guest[r].faulty = FALSE
    BY <2>2, Zenon DEF Machine
  <2>4. Made(r) /\ Scanned(r) /\ Signed(r)
    BY DEF EInv, FilesInv
  <2>5. /\ Genuine(b, v, Scenario[r]) /\ Spotless(b.samples) /\ b.summary = summary_payload(v)
        /\ validate_evidence(b.partial) /\ validate_observe(b)
    BY <2>1, <2>3, <2>4 DEF Made, Untampered, AfterParse
  <2>6. validate_bundle(b)
    BY <2>2, <2>5, SpotlessPasses
  <2>7. PICK s : s = b.summary
    OBVIOUS
  <2>8. /\ s.status = "PASS" /\ s.mode = "vm-live" /\ s.head = v.head /\ s.objectSha = v.objectSha
        /\ s.dirty = v.dirty /\ (v.dirty => s.snapshot = v.snapshot)
        /\ s.hostMutation = FALSE /\ s.fresh = TRUE /\ s.releaseUse = FALSE /\ s.eligible = TRUE
    BY <2>5, <2>7 DEF summary_payload
  <2>9. /\ s.cleanup = [receipt |-> TRUE, scanBefore |-> v.scanBefore, scanAfter |-> v.scanAfter,
                        leftovers |-> FALSE]
        /\ s.stages = <<"PASS", "PASS", "PASS", "PASS">>
    BY <2>5, <2>7 DEF summary_payload
  <2>10. s # Missing /\ s.cleanup # Missing /\ live_attach_payload(v) # Missing /\ Missing # "act"
    BY <2>2, <2>5, <2>7, FilesAreThere
  <2>11. v.scanBefore = TRUE /\ v.scanAfter = TRUE
    <3>1. v.scanBefore \in BOOLEAN
      BY <2>2 DEF Shell
    <3>2. v.scanAfter = TRUE
      BY <2>1, <2>4 DEF Scanned, AfterParse
    <3> QED BY <2>1, <3>1, <3>2, Zenon
  <2>12. validate_cleanup(s.cleanup) /\ s.cleanup.leftovers = FALSE
    <3>1. /\ s.cleanup.receipt = TRUE /\ s.cleanup.scanBefore = TRUE /\ s.cleanup.scanAfter = TRUE
          /\ s.cleanup.leftovers = FALSE
      BY <2>9, <2>11
    <3> QED BY <2>10, <3>1, Zenon DEF validate_cleanup
  <2>13. v.head = Now.head /\ v.objectSha = Now.objectSha
    <3>1. v.objectSha = object
      BY <2>1
    <3> QED BY <2>1, <2>2, <3>1, NowIsThere
  <2>14. ASSUME v.dirty PROVE validate_dirty_snapshot(s, r, Now, provenance)
    <3>1. Dirty /\ v.snapshot = SnapshotHash /\ provenance.bundle = r
      BY <2>1, <2>14, Zenon
    <3>2. provenance.head = v.head /\ provenance.snapshot = v.snapshot
      BY <2>1, <2>4, <3>1 DEF Signed
    <3>3. Now.snapshot = SnapshotHash /\ SnapshotHash # None
      BY <2>2, <3>1, NowIsThere
    <3>4. s.snapshot = v.snapshot
      BY <2>8, <2>14, Zenon
    <3> QED BY <2>13, <3>1, <3>2, <3>3, <3>4, Zenon DEF validate_dirty_snapshot
  <2>15. validate_fresh_bundle(b, r, Now, provenance)
    BY <2>7, <2>8, <2>10, <2>12, <2>13, <2>14, Zenon DEF validate_fresh_bundle
  <2>16. Accepts(r)
    BY <2>1, <2>6, <2>7, <2>12, <2>15, Zenon DEF Accepts, require_live_behavior_bundle
  <2>17. validate_backend_live_summary(b)
    <3>1. s.stages # <<>> /\ \A i \in DOMAIN s.stages : s.stages[i] = "PASS"
      BY <2>9
    <3> QED BY <2>6, <2>7, <2>8, <3>1, Zenon DEF validate_backend_live_summary
  <2>18. validate_attach(b.attach, Now)
    <3>1. PICK a : a = b.attach
      OBVIOUS
    <3>2. a = live_attach_payload(v)
      BY <2>5, <3>1 DEF Genuine
    <3>3. /\ a.action = "act" /\ a.hostMutation = FALSE /\ a.private = FALSE /\ a.mode = "vm-live"
          /\ a.marker = TRUE /\ a.head = v.head
      BY <3>2 DEF live_attach_payload
    <3> QED BY <2>10, <2>13, <3>1, <3>2, <3>3, Zenon DEF validate_attach, reject_private_leaks
  <2> QED BY <2>1, <2>16, <2>17, <2>18
<1> QED BY <1>1, LabInvariant, LabFiles, PTL
=============================================================================
