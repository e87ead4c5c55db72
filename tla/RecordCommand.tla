---------------------------- MODULE RecordCommand ----------------------------
(***************************************************************************)
(* The perf path of `xsprof record' (cmd_record in src/cli/main.cpp):      *)
(* probe, capture, write the journal, print the summary.  The capture is   *)
(* LiveCapture, which probes once more.                                    *)
(***************************************************************************)
EXTENDS LiveCapture

CONSTANT OutputGiven    \* was --output given?

VARIABLES
  cmd,      \* where cmd_record is
  sink,     \* where *os points: "stdout" or "file"
  journal,  \* the rows written to the sink
  exit      \* the exit code, or None

None == 2
cmdVars == <<cmd, sink, journal, exit>>
allVars == <<vars, cmdVars>>

RInit ==
  /\ Init
  /\ cmd = "probe" /\ sink = "stdout" /\ journal = <<>> /\ exit = None

\* capture.probe() is not READY: one capability row on stdout, exit code 1.
RefuseToRecord ==
  /\ cmd = "probe"
  /\ cmd' = "exit" /\ exit' = 1
  /\ UNCHANGED <<vars, sink, journal>>

StartRun ==
  /\ cmd = "probe"
  /\ cmd' = "run"
  /\ UNCHANGED <<vars, sink, journal, exit>>

\* A step of capture.run().
InRun == cmd = "run" /\ Run /\ UNCHANGED cmdVars

\* run() has returned; the journal goes to the file if it can be opened.
OpenJournal ==
  /\ cmd = "run" /\ pc = "done"
  /\ cmd' = "write"
  /\ sink' \in IF OutputGiven THEN {"file", "stdout"} ELSE {"stdout"}
  /\ UNCHANGED <<vars, journal, exit>>

\* Mutant of WriteRow: rows are taken from the end.
WriteRowLast ==
  /\ cmd = "write" /\ Len(journal) < Len(out)
  /\ journal' = Append(journal, out[Len(out) - Len(journal)])
  /\ UNCHANGED <<vars, cmd, sink, exit>>

WriteRow ==
  /\ cmd = "write" /\ Len(journal) < Len(out)
  /\ journal' = Append(journal, out[Len(journal) + 1])
  /\ UNCHANGED <<vars, cmd, sink, exit>>

\* The summary goes to stderr (kind counters; lost_samples is not in it).
Finish ==
  /\ cmd = "write" /\ Len(journal) = Len(out)
  /\ cmd' = "exit" /\ exit' = 0
  /\ UNCHANGED <<vars, sink, journal>>

Exited == cmd = "exit" /\ UNCHANGED allVars

Command ==
  RefuseToRecord \/ StartRun \/ InRun \/ OpenJournal \/ WriteRow \/ Finish

RNext ==
  \/ Command
  \/ Kernel /\ UNCHANGED cmdVars
  \/ Exited

RSpec == RInit /\ [][RNext]_allVars

\* The process's own thread is scheduled; of the kernel's records nothing is
\* assumed.
RFairSpec == RSpec /\ WF_allVars(Command)
-----------------------------------------------------------------------------
(* Properties                                                              *)

\* The journal of a finished command holds each captured event once, in the
\* order of the capture.  A refused command opened no perf event and wrote no
\* row.  The capture probes once more and may be refused although the command
\* was not: it answers READY exactly when some slot was opened and mapped, and
\* a journal written after a SKIP is empty (fail-closed).
JournalFaithful ==
  /\ exit = 0 => journal = out /\ (cap = "ready" <=> slots # {})
  /\ exit = 0 /\ cap = "skip" => journal = <<>> /\ lost = 0
  /\ exit = 1 => slots = {} /\ fds = {} /\ journal = <<>>

\* The polls never wait for longer than duration_ms in all, however often
\* poll() returns early: a slice is spent whether or not it has passed.
InTime == elapsed <= Duration

\* The command ends, however often poll() is interrupted and however many
\* records the kernel produces, and its polls never wait for longer than
\* duration_ms in all.
EndsInTime == []InTime /\ <>(exit # None)

\* "emit a Marker (sample-loss) event": a capture that knows it has lost
\* samples leaves a marker in the journal, the one thing timeline reads.
LossSignalled ==
  exit = 0 /\ lost > 0 => \E i \in DOMAIN journal : journal[i].kind = "marker"
=============================================================================
