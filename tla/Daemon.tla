-------------------------------- MODULE Daemon --------------------------------
(***************************************************************************)
(* The stdio daemon and its replay (src/daemon/daemon.cpp).  The daemon    *)
(* answers each action line with one event row numbered from 1; its output *)
(* is kept in a transcript, which replay_transcript() later validates row  *)
(* by row and copies from from_seq on.                                     *)
(*                                                                         *)
(* The daemon may end, or be killed with part of its buffered output       *)
(* unwritten; a later run may append to the same transcript.  Since replay *)
(* accepts any text, rows from elsewhere may be added to it as well.       *)
(***************************************************************************)
EXTENDS Naturals, Sequences, FiniteSets

CONSTANTS MaxRows,    \* bound on the length of the transcript
          MaxRuns,    \* bound on the number of times the daemon is started
          ForeignSeq, \* the sequence numbers of rows written by others
          FromSeqs    \* the values of from_seq

ASSUME DaemonAssumption ==
  /\ MaxRows \in Nat /\ MaxRuns \in Nat
  /\ ForeignSeq \subseteq Nat /\ FromSeqs \subseteq Nat

ReadOnlyActions == {"preflight", "observe", "stop"}
LabActions == {"run_lab_host_safe", "run_lab_vm", "run_lab_microvm_live",
               "verifier_only", "partial_attach", "rollback", "stop_lab_run",
               "rollback_lab_run", "incident_drill"}

\* What a line of input can be: blank, not JSON, JSON but no known action, or
\* an action.
InputLine == {"blank", "not_json", "unknown"} \cup ReadOnlyActions \cup LabActions

\* A line of a transcript: an event (of a run of the daemon, or of none), whose
\* host_mutation is false, true, or "other": absent or not a boolean; a line that
\* is JSON but no event, a line that is not JSON, and "torn": the same, not yet
\* ended by a newline.  Blank lines, which replay skips, are left out.
Row == [kind : {"event"}, status : {"PASS", "REFUSE"}, seq : Nat, run : Nat,
        host_mutation : {"false", "true", "other"}]
       \cup [kind : {"foreign", "bad", "torn"}]

VARIABLES
  up,          \* is the daemon running?
  run,         \* number of this run (history)
  seq,         \* seq of run_foreground_stdio
  handled,     \* lines this run has answered (history)
  transcript,  \* the lines written so far
  edited,      \* has anyone else written to the transcript? (history)
  verdict,     \* of replay_transcript: "idle", "running", "ok", "rejected"
  from,        \* from_seq
  pos,         \* lines read
  prev_seq,
  output       \* result.output: the positions of the rows copied

daemon == <<up, run, seq, handled>>
replay == <<verdict, from, pos, prev_seq, output>>
vars == <<daemon, transcript, edited, replay>>

Init ==
  /\ up = FALSE /\ run = 0 /\ seq = 1 /\ handled = 0
  /\ transcript = <<>> /\ edited = FALSE
  /\ verdict = "idle" /\ from = 0 /\ pos = 0 /\ prev_seq = 0 /\ output = <<>>
-----------------------------------------------------------------------------
(* run_foreground_stdio() and process_action_line()                        *)

\* A row written after an unfinished line continues that line.
Written(t, row) ==
  IF t # <<>> /\ t[Len(t)].kind = "torn"
  THEN [t EXCEPT ![Len(t)] = [kind |-> "bad"]]
  ELSE Append(t, row)

Event(status, n, r) ==
  [kind |-> "event", status |-> status, seq |-> n, run |-> r, host_mutation |-> "false"]

\* Nobody writes while the transcript is replayed.
MayWrite == verdict = "idle" /\ Len(transcript) < MaxRows

\* Mutant of Boot: the sequence goes on from the run before.
BootGoesOn ==
  /\ ~up /\ MayWrite /\ run < MaxRuns
  /\ up' = TRUE /\ run' = run + 1 /\ handled' = 0
  /\ transcript' = Written(transcript, Event("PASS", seq, run'))
  /\ seq' = seq + 1
  /\ UNCHANGED <<edited, replay>>

\* The boot event has number 1.
Boot ==
  /\ ~up /\ MayWrite /\ run < MaxRuns
  /\ up' = TRUE /\ run' = run + 1 /\ handled' = 0
  /\ transcript' = Written(transcript, Event("PASS", 1, run'))
  /\ seq' = 2
  /\ UNCHANGED <<edited, replay>>

\* The status of the event that answers a line: what is not JSON, not an
\* action, or needs a VM lab is refused.
Answer(line) == IF line \in ReadOnlyActions THEN "PASS" ELSE "REFUSE"

\* Mutant of NextSeq: refusals of invalid JSON do not advance the number.
NextSeqAfterValid(line) == IF line = "not_json" THEN seq ELSE seq + 1

\* seq++ in every branch of process_action_line().
NextSeq(line) == seq + 1

HandleLine(line) ==
  /\ up /\ MayWrite
  /\ line # "blank"
  /\ transcript' = Written(transcript, Event(Answer(line), seq, run))
  /\ seq' = NextSeq(line)
  /\ handled' = handled + 1
  /\ UNCHANGED <<up, run, edited, replay>>

\* A blank line is skipped.
SkipLine(line) == up /\ line = "blank" /\ UNCHANGED vars

\* End of input: the loop ends and the output is flushed.
EndOfInput ==
  /\ up
  /\ up' = FALSE
  /\ UNCHANGED <<run, seq, handled, transcript, edited, replay>>

\* The process is killed: the last n lines of this run's output are lost, and
\* one of them may have been written in part.
Kill ==
  /\ up
  /\ up' = FALSE
  /\ \E n \in 0 .. handled + 1 :
       LET kept == SubSeq(transcript, 1, Len(transcript) - n)
       IN  /\ n <= Len(transcript)
           /\ \A i \in DOMAIN transcript :
                i > Len(transcript) - n =>
                  transcript[i].kind = "event" /\ transcript[i].run = run
           /\ \/ transcript' = kept
              \/ n > 0 /\ transcript' = Written(kept, [kind |-> "torn"])
  /\ UNCHANGED <<run, seq, handled, edited, replay>>

\* Someone else adds a line.
Edit(row) ==
  /\ ~up /\ MayWrite
  /\ transcript' = Written(transcript, row)
  /\ edited' = TRUE
  /\ UNCHANGED <<daemon, replay>>
-----------------------------------------------------------------------------
(* replay_transcript()                                                     *)

StartReplay(f) ==
  /\ ~up /\ verdict = "idle"
  /\ verdict' = "running" /\ from' = f
  /\ pos' = 0 /\ prev_seq' = 0 /\ output' = <<>>
  /\ UNCHANGED <<daemon, transcript, edited>>

\* Mutant of Regresses: the next number is refused.
RegressesByOne(n) == n > 0 /\ n <= prev_seq + 1

\* The test for a number that does not increase; 0 (no number) passes.
Regresses(n) == n > 0 /\ n <= prev_seq

\* Mutant of ValidEvent: host_mutation is not looked at.
ValidOrMutating(r) == r.kind = "event"

\* event_from_json() accepts the row: as_bool() is false of what is no boolean.
ValidEvent(r) == r.kind = "event" /\ r.host_mutation # "true"

\* A row is refused: replay ends.
RejectRow ==
  /\ verdict = "running" /\ pos < Len(transcript)
  /\ LET r == transcript[pos + 1]
     IN  ValidEvent(r) => Regresses(r.seq)
  /\ verdict' = "rejected"
  /\ UNCHANGED <<daemon, transcript, edited, from, pos, prev_seq, output>>

\* seq is 0 in an event without a number.
AcceptRow ==
  /\ verdict = "running" /\ pos < Len(transcript)
  /\ LET r == transcript[pos + 1]
     IN  /\ ValidEvent(r) /\ ~Regresses(r.seq)
         /\ prev_seq' = r.seq
         /\ output' = IF r.seq < from THEN output ELSE Append(output, pos + 1)
  /\ pos' = pos + 1
  /\ UNCHANGED <<daemon, transcript, edited, verdict, from>>

EndOfTranscript ==
  /\ verdict = "running" /\ pos = Len(transcript)
  /\ verdict' = "ok"
  /\ UNCHANGED <<daemon, transcript, edited, from, pos, prev_seq, output>>

\* The caller takes the result.
ReplayReturns ==
  /\ verdict \in {"ok", "rejected"}
  /\ verdict' = "idle"
  /\ from' = 0 /\ pos' = 0 /\ prev_seq' = 0 /\ output' = <<>>
  /\ UNCHANGED <<daemon, transcript, edited>>

ForeignRow ==
  [kind : {"event"}, status : {"PASS"}, seq : ForeignSeq, run : {0},
   host_mutation : {"false", "true", "other"}]
    \cup [kind : {"foreign", "bad"}]

Next ==
  \/ Boot \/ EndOfInput \/ Kill
  \/ \E line \in InputLine : HandleLine(line) \/ SkipLine(line)
  \/ \E row \in ForeignRow : Edit(row)
  \/ \E f \in FromSeqs : StartReplay(f)
  \/ RejectRow \/ AcceptRow \/ EndOfTranscript \/ ReplayReturns

Spec == Init /\ [][Next]_vars
-----------------------------------------------------------------------------
(* Properties                                                              *)

\* Rows of the transcript that run r of the daemon wrote.
RowsOf(r) == {i \in DOMAIN transcript : transcript[i].kind = "event"
                                        /\ transcript[i].run = r}

\* While the daemon runs, each line it handled and its boot have exactly one
\* row (but for a boot row swallowed by a torn line), numbered without gap or
\* repetition in the order of the lines: an operator can tell from seq alone
\* that no answer is missing.
AnswersNumbered ==
  \A i, j \in DOMAIN transcript :
    i < j /\ {i, j} \subseteq RowsOf(run) /\ run > 0 =>
      transcript[j].seq - transcript[i].seq = j - i

\* "Replay reproduces a golden transcript": what one run of the daemon wrote is
\* accepted unless a line was torn, and exactly the rows from from_seq on are
\* copied, in their order and each once.
OwnTranscriptReplays ==
  ~edited /\ run <= 1 /\ (\A i \in DOMAIN transcript : transcript[i].kind = "event") =>
    /\ verdict # "rejected"
    /\ verdict = "ok" =>
         /\ {output[k] : k \in DOMAIN output} =
              {i \in DOMAIN transcript : transcript[i].seq >= from}
         /\ \A k, l \in DOMAIN output : k < l => output[k] < output[l]

\* A transcript in which a second run, or the rest of a torn line, follows the
\* first is never accepted, whatever from_seq hides: a restart cannot pass for
\* one uninterrupted session.
SplicesRejected ==
  verdict = "ok" /\ ~edited =>
    /\ \A i \in DOMAIN transcript : transcript[i].kind = "event"
    /\ \A i, j \in DOMAIN transcript : transcript[i].run = transcript[j].run

\* Whatever the transcript, an accepted one holds only events, none of which
\* says that the host was mutated (one that does not say so either way passes),
\* and in each stretch of rows with a number the numbers increase.
AcceptedIsSound ==
  verdict = "ok" =>
    /\ \A i \in DOMAIN transcript :
         transcript[i].kind = "event" /\ transcript[i].host_mutation # "true"
    /\ \A i, j \in DOMAIN transcript :
         i < j /\ (\A k \in i .. j : transcript[k].seq > 0) =>
           transcript[i].seq < transcript[j].seq

\* "Replay validates schema, monotonic sequence": in an accepted transcript the
\* numbers that are there increase.
MonotonicSequence ==
  verdict = "ok" =>
    \A i, j \in DOMAIN transcript :
      i < j /\ transcript[i].seq > 0 /\ transcript[j].seq > 0 =>
        transcript[i].seq < transcript[j].seq
=============================================================================
