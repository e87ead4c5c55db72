----------------------------- MODULE DaemonProofs -----------------------------
(***************************************************************************)
(* What the stdio daemon and its replay guarantee for transcripts of every *)
(* length, any number of restarts and kills, and any rows of others.       *)
(***************************************************************************)
EXTENDS Daemon, SequenceTheorems, TLAPS

TypeOK ==
  /\ up \in BOOLEAN /\ edited \in BOOLEAN
  /\ run \in Nat /\ handled \in Nat /\ seq \in Nat \ {0}
  /\ transcript \in Seq(Row)
  /\ verdict \in {"idle", "running", "ok", "rejected"}
  /\ from \in Nat /\ pos \in Nat /\ prev_seq \in Nat
  /\ output \in Seq(Nat)

\* Only the last line can be unfinished, and none is while the daemon runs.
TornLast ==
  \A i \in 1 .. Len(transcript) :
    transcript[i].kind = "torn" => up = FALSE /\ i = Len(transcript)

\* No row is of a run still to come.
NoFuture ==
  \A i \in 1 .. Len(transcript) :
    transcript[i].kind = "event" => transcript[i].run <= run

\* The rows of this run count down from its seq at the end of the transcript.
CountsDown ==
  /\ run > 0
  /\ \A i \in 1 .. Len(transcript) :
       transcript[i].kind = "event" /\ transcript[i].run = run
         => transcript[i].seq + Len(transcript) + 1 = seq + i

\* They do while the daemon runs.
Numbered == NoFuture /\ (up = TRUE => CountsDown)

\* AnswersNumbered, over the indices.
Gapless ==
  run > 0 =>
    \A i, j \in 1 .. Len(transcript) :
      /\ i < j /\ transcript[i].kind = "event" /\ transcript[j].kind = "event"
      /\ transcript[i].run = run /\ transcript[j].run = run
      => transcript[j].seq + i = transcript[i].seq + j

\* In a transcript that only the daemon wrote, a row follows a row of another
\* run only if it is a boot event.
Boundaries ==
  /\ \A i \in 1 .. Len(transcript) :
       transcript[i].kind = "event" =>
         /\ transcript[i].seq > 0 /\ transcript[i].run > 0
         /\ transcript[i].host_mutation = "false"
  /\ \A i, j \in 1 .. Len(transcript) :
       j = i + 1 /\ transcript[i].kind = "event" /\ transcript[j].kind = "event"
         => transcript[i].run = transcript[j].run \/ transcript[j].seq = 1

\* The last row is of the run at work.
LastIsOwn ==
  \A i \in 1 .. Len(transcript) :
    i = Len(transcript) /\ transcript[i].kind = "event" => transcript[i].run = run

Unedited == edited = FALSE => Boundaries /\ (up = TRUE => LastIsOwn)

\* What replay_transcript() knows of the pos rows it has read.
Replayed ==
  verdict # "idle" =>
    /\ up = FALSE
    /\ pos <= Len(transcript)
    /\ \A i \in 1 .. pos : ValidEvent(transcript[i])
    /\ pos = 0 => prev_seq = 0
    /\ pos > 0 => prev_seq = transcript[pos].seq
    /\ \A i, j \in 1 .. pos :
         i < j /\ (\A k \in i .. j : transcript[k].seq > 0) =>
           transcript[i].seq < transcript[j].seq
    /\ edited = FALSE => \A i \in 1 .. pos : transcript[i].run = transcript[1].run
    /\ verdict = "ok" => pos = Len(transcript)
    /\ verdict = "rejected" =>
         /\ pos < Len(transcript)
         /\ ValidEvent(transcript[pos + 1]) => Regresses(transcript[pos + 1].seq)

\* The positions it has copied.
Copied ==
  verdict # "idle" =>
    /\ \A k \in 1 .. Len(output) : output[k] \in 1 .. pos
    /\ \A k, l \in 1 .. Len(output) : k < l => output[k] < output[l]
    /\ \A i \in 1 .. pos :
         transcript[i].seq >= from <=> \E k \in 1 .. Len(output) : output[k] = i

IInv == TypeOK /\ TornLast /\ Numbered /\ Gapless /\ Unedited /\ Replayed /\ Copied
-----------------------------------------------------------------------------
(* Transcripts *)

\* A line of a transcript, and the fields it has.
LEMMA RowFields ==
  /\ \A r \in Row : /\ r.kind \in {"event", "foreign", "bad", "torn"}
                    /\ r.kind = "event" => r.seq \in Nat /\ r.run \in Nat
  /\ \A status \in {"PASS", "REFUSE"}, n \in Nat, m \in Nat :
       /\ Event(status, n, m) \in Row
       /\ Event(status, n, m).kind = "event"
       /\ Event(status, n, m).seq = n /\ Event(status, n, m).run = m
       /\ Event(status, n, m).host_mutation = "false"
  /\ \A r \in [kind : {"foreign", "bad", "torn"}] : r \in Row /\ r.kind # "event"
BY DEF Row, Event

\* A row is appended, or goes lost in the unfinished line it continues.
LEMMA WrittenRow ==
  ASSUME NEW t \in Seq(Row), NEW row \in Row
  PROVE  /\ Written(t, row) \in Seq(Row)
         /\ \/ /\ Len(t) > 0 /\ t[Len(t)].kind = "torn"
               /\ Len(Written(t, row)) = Len(t)
               /\ Written(t, row)[Len(t)] = [kind |-> "bad"]
               /\ \A i \in 1 .. Len(t) - 1 : Written(t, row)[i] = t[i]
            \/ /\ Len(t) > 0 => t[Len(t)].kind # "torn"
               /\ Len(Written(t, row)) = Len(t) + 1
               /\ Written(t, row)[Len(t) + 1] = row
               /\ \A i \in 1 .. Len(t) : Written(t, row)[i] = t[i]
<1> DEFINE u == Written(t, row)
<1>0. Len(t) \in Nat /\ (t # <<>> <=> Len(t) > 0)
  BY EmptySeq, LenProperties
<1>1. CASE t # <<>> /\ t[Len(t)].kind = "torn"
  <2>1. u = [t EXCEPT ![Len(t)] = [kind |-> "bad"]]
    BY <1>1 DEF Written
  <2>2. [kind |-> "bad"] \in Row
    BY DEF Row
  <2>3. u \in Seq(Row) /\ Len(u) = Len(t)
    BY <2>1, <2>2, <1>0, <1>1, ExceptSeq
  <2>4. u[Len(t)] = [kind |-> "bad"] /\ \A i \in 1 .. Len(t) - 1 : u[i] = t[i]
    BY <2>1, <1>0, <1>1
  <2> QED
    BY <1>0, <1>1, <2>3, <2>4
<1>2. CASE ~(t # <<>> /\ t[Len(t)].kind = "torn")
  <2>1. u = Append(t, row)
    BY <1>2 DEF Written
  <2>2. /\ u \in Seq(Row) /\ Len(u) = Len(t) + 1
        /\ u[Len(t) + 1] = row /\ \A i \in 1 .. Len(t) : u[i] = t[i]
    BY <2>1, <1>0, AppendProperties
  <2> QED
    BY <1>0, <1>2, <2>2
<1> QED
  BY <1>1, <1>2

\* What a step can do to the transcript: a row is written, by the daemon that
\* boots or answers or by someone else; its end goes lost in a kill; or it stays.
Boots(row) == Boot /\ row = Event("PASS", 1, run')

Answers(row) ==
  \E line \in InputLine : HandleLine(line) /\ row = Event(Answer(line), seq, run)

\* The rows of others and the daemon's own are rows.
LEMMA WriterRow ==
  ASSUME TypeOK, NEW row, Boots(row) \/ Answers(row) \/ (row \in ForeignRow /\ Edit(row))
  PROVE  row \in Row /\ row.kind # "torn" /\ transcript' = Written(transcript, row)
<1>1. CASE Boots(row)
  BY <1>1, RowFields DEF Boots, Boot, TypeOK
<1>2. CASE Answers(row)
  BY <1>2, RowFields DEF Answers, HandleLine, Answer, TypeOK
<1>3. CASE row \in ForeignRow /\ Edit(row)
  <2>1. CASE row \in [kind : {"foreign", "bad"}]
    BY <2>1, <1>3 DEF Edit, Row
  <2>2. CASE row \in [kind : {"event"}, status : {"PASS"}, seq : ForeignSeq, run : {0},
                      host_mutation : {"false", "true", "other"}]
    <3>1. ForeignSeq \subseteq Nat /\ 0 \in Nat
      BY DaemonAssumption
    <3>2. row \in [kind : {"event"}, status : {"PASS", "REFUSE"}, seq : Nat, run : Nat,
                   host_mutation : {"false", "true", "other"}]
      BY <2>2, <3>1
    <3>3. row.kind = "event"
      BY <2>2
    <3> QED
      BY <1>3, <3>2, <3>3 DEF Edit, Row
  <2> QED
    BY <1>3, <2>1, <2>2 DEF ForeignRow
<1> QED
  BY <1>1, <1>2, <1>3

\* The row goes lost in an unfinished line, which it makes a bad one.
Swallowed ==
  /\ Len(transcript) > 0 /\ transcript[Len(transcript)].kind = "torn"
  /\ Len(transcript') = Len(transcript)
  /\ transcript'[Len(transcript)].kind = "bad"
  /\ \A i \in 1 .. Len(transcript) - 1 : transcript'[i] = transcript[i]

\* The row is appended behind a finished line.
Appended(row) ==
  /\ Len(transcript) > 0 => transcript[Len(transcript)].kind # "torn"
  /\ Len(transcript') = Len(transcript) + 1
  /\ transcript'[Len(transcript) + 1] = row
  /\ \A i \in 1 .. Len(transcript) : transcript'[i] = transcript[i]

\* Whoever writes a row, one of the two happens; a running daemon's own rows
\* are always appended.
LEMMA WriterStep ==
  ASSUME TypeOK, TornLast,
         NEW row, Boots(row) \/ Answers(row) \/ (row \in ForeignRow /\ Edit(row))
  PROVE  /\ transcript' \in Seq(Row)
         /\ Swallowed \/ Appended(row)
         /\ up = TRUE => Appended(row)
<1>1. row \in Row /\ transcript \in Seq(Row) /\ transcript' = Written(transcript, row)
  BY WriterRow DEF TypeOK
<1>0. \A r : r = [kind |-> "bad"] => r.kind = "bad"
  OBVIOUS
<1> DEFINE t == Written(transcript, row)
<1>2. transcript' \in Seq(Row) /\ (Swallowed \/ Appended(row))
  <2>1. /\ t \in Seq(Row)
        /\ \/ /\ Len(transcript) > 0 /\ transcript[Len(transcript)].kind = "torn"
              /\ Len(t) = Len(transcript) /\ t[Len(transcript)] = [kind |-> "bad"]
              /\ \A i \in 1 .. Len(transcript) - 1 : t[i] = transcript[i]
           \/ /\ Len(transcript) > 0 => transcript[Len(transcript)].kind # "torn"
              /\ Len(t) = Len(transcript) + 1 /\ t[Len(transcript) + 1] = row
              /\ \A i \in 1 .. Len(transcript) : t[i] = transcript[i]
    BY <1>1, WrittenRow
  <2>2. transcript' = t
    BY <1>1
  <2> HIDE DEF t
  <2> QED
    BY <2>1, <2>2, <1>0, Zenon DEF Swallowed, Appended
<1>3. Len(transcript) \in Nat
  BY <1>1
<1>4. up = TRUE => ~Swallowed
  BY <1>3 DEF Swallowed, TornLast
<1> QED
  BY <1>2, <1>4

\* A kill leaves a prefix of the transcript, and perhaps an unfinished line.
LEMMA KilledTranscript ==
  ASSUME TypeOK, TornLast, Kill
  PROVE  /\ up = TRUE /\ up' = FALSE /\ UNCHANGED <<run, seq, handled, edited, replay>>
         /\ transcript' \in Seq(Row)
         /\ \E m \in 0 .. Len(transcript) :
              /\ Len(transcript') \in {m, m + 1}
              /\ \A i \in 1 .. m : transcript'[i] = transcript[i]
              /\ Len(transcript') = m + 1 => transcript'[m + 1] = [kind |-> "torn"]
<1>1. /\ up = TRUE /\ up' = FALSE /\ UNCHANGED <<run, seq, handled, edited, replay>>
  BY DEF Kill, TypeOK
<1>2. PICK n \in 0 .. handled + 1 :
        /\ n <= Len(transcript)
        /\ \/ transcript' = SubSeq(transcript, 1, Len(transcript) - n)
           \/ transcript' = Written(SubSeq(transcript, 1, Len(transcript) - n), [kind |-> "torn"])
  BY DEF Kill
<1> DEFINE m == Len(transcript) - n
           kept == SubSeq(transcript, 1, m)
<1>3. transcript \in Seq(Row) /\ Len(transcript) \in Nat /\ n \in Nat
  BY DEF TypeOK
<1>4. m \in 0 .. Len(transcript)
  BY <1>2, <1>3
<1> HIDE DEF m
<1>5. /\ kept \in Seq(Row) /\ Len(kept) = m
      /\ \A i \in 1 .. m : kept[i] = transcript[i]
  BY <1>3, <1>4
<1> HIDE DEF kept
<1>6. CASE transcript' = kept
  BY <1>1, <1>4, <1>5, <1>6
<1>7. CASE transcript' = Written(kept, [kind |-> "torn"])
  <2>1. [kind |-> "torn"] \in Row
    BY DEF Row
  <2>2. Len(kept) > 0 => kept[Len(kept)].kind # "torn"
    BY <1>1, <1>3, <1>4, <1>5 DEF TornLast
  <2>3. /\ transcript' \in Seq(Row) /\ Len(transcript') = m + 1
        /\ transcript'[m + 1] = [kind |-> "torn"]
        /\ \A i \in 1 .. m : transcript'[i] = kept[i]
    BY <2>1, <2>2, <1>5, <1>7, WrittenRow
  <2> QED
    BY <1>1, <1>4, <1>5, <2>3
<1> QED
  BY <1>2, <1>6, <1>7 DEF m, kept

\* The three ways in which a step meets the transcript.
LEMMA StepCases ==
  ASSUME [Next]_vars
  PROVE  \/ \E row : Boots(row) \/ Answers(row) \/ (row \in ForeignRow /\ Edit(row))
         \/ Kill
         \/ /\ UNCHANGED <<transcript, edited, run, seq>>
            /\ up' = up \/ (up' = FALSE /\ verdict' = verdict)
BY DEF Next, vars, daemon, replay, Boots, Answers, EndOfInput, SkipLine, StartReplay, RejectRow,
       AcceptRow, EndOfTranscript, ReplayReturns
-----------------------------------------------------------------------------
(* The invariant *)

\* It holds before the daemon has been started.
LEMMA InitIInv == Init => IInv
<1> SUFFICES ASSUME Init PROVE IInv
  OBVIOUS
<1>0. <<>> \in Seq(Row) /\ <<>> \in Seq(Nat)
  OBVIOUS
<1>1. TypeOK
  <2>1. transcript \in Seq(Row) /\ output \in Seq(Nat)
    BY <1>0, Zenon DEF Init
  <2>2. up \in BOOLEAN /\ edited \in BOOLEAN
    BY DEF Init
  <2>3. run = 0 /\ handled = 0 /\ seq = 1 /\ verdict = "idle" /\ from = 0 /\ pos = 0 /\ prev_seq = 0
    BY DEF Init
  <2> QED
    BY <2>1, <2>2, <2>3 DEF TypeOK
<1>2. transcript = <<>> /\ verdict = "idle" /\ up = FALSE
  BY DEF Init
<1>3. Len(transcript) = 0 /\ DOMAIN transcript = {} /\ TRUE # FALSE
  BY <1>2
<1>4. TornLast /\ Numbered
  BY <1>2, <1>3 DEF TornLast, Numbered, NoFuture
<1>5. Gapless /\ Unedited
  BY <1>2, <1>3 DEF Gapless, Unedited, Boundaries
<1>6. Replayed /\ Copied
  BY <1>2 DEF Replayed, Copied
<1> QED
  BY <1>1, <1>4, <1>5, <1>6 DEF IInv

\* The types survive every step.
LEMMA TypeStep == IInv /\ [Next]_vars => TypeOK'
<1> SUFFICES ASSUME IInv, [Next]_vars PROVE TypeOK'
  OBVIOUS
<1>0. TypeOK /\ TornLast
  BY DEF IInv
<1>1. ASSUME NEW row, Boots(row) \/ Answers(row) \/ (row \in ForeignRow /\ Edit(row)) PROVE TypeOK'
  <2>1. transcript' \in Seq(Row)
    BY <1>0, <1>1, WriterStep
  <2>2. UNCHANGED replay
    BY <1>1 DEF Boots, Boot, Answers, HandleLine, Edit
  <2>3. run' \in Nat /\ handled' \in Nat /\ seq' \in Nat \ {0}
    BY <1>0, <1>1 DEF TypeOK, Boots, Boot, Answers, HandleLine, NextSeq, Edit, daemon
  <2>4. up' \in BOOLEAN /\ edited' \in BOOLEAN
    BY <1>0, <1>1 DEF TypeOK, Boots, Boot, Answers, HandleLine, Edit, daemon
  <2> QED
    BY <1>0, <2>1, <2>2, <2>3, <2>4 DEF TypeOK, replay
<1>2. CASE Kill
  BY <1>0, <1>2, KilledTranscript DEF TypeOK, replay
<1>3. CASE EndOfInput \/ UNCHANGED vars \/ \E line \in InputLine : SkipLine(line)
  <2>1. UNCHANGED <<run, seq, handled, transcript, edited, verdict, from, pos, prev_seq, output>>
    BY <1>3 DEF EndOfInput, SkipLine, vars, daemon, replay
  <2>2. up' \in BOOLEAN
    BY <1>0, <1>3 DEF EndOfInput, SkipLine, vars, daemon, TypeOK
  <2> QED
    BY <1>0, <2>1, <2>2 DEF TypeOK
<1>4. CASE \/ RejectRow \/ EndOfTranscript \/ ReplayReturns
           \/ \E f \in FromSeqs : StartReplay(f)
  <2>1. UNCHANGED <<up, run, seq, handled, transcript, edited>>
    BY <1>4 DEF RejectRow, EndOfTranscript, ReplayReturns, StartReplay, daemon
  <2>2. verdict' \in {"idle", "running", "ok", "rejected"} /\ from' \in Nat
    BY <1>0, <1>4, DaemonAssumption
       DEF TypeOK, RejectRow, EndOfTranscript, ReplayReturns, StartReplay
  <2>3. pos' \in Nat /\ prev_seq' \in Nat /\ output' \in Seq(Nat)
    <3>1. <<>> \in Seq(Nat)
      OBVIOUS
    <3>2. output' = output \/ output' = <<>>
      BY <1>4, Zenon DEF RejectRow, EndOfTranscript, ReplayReturns, StartReplay
    <3>3. output' \in Seq(Nat)
      BY <1>0, <3>1, <3>2, Zenon DEF TypeOK
    <3> QED
      BY <1>0, <1>4, <3>3 DEF TypeOK, RejectRow, EndOfTranscript, ReplayReturns, StartReplay
  <2> QED
    BY <1>0, <2>1, <2>2, <2>3 DEF TypeOK
<1>5. CASE AcceptRow
  <2>1. pos + 1 \in 1 .. Len(transcript) /\ transcript[pos + 1] \in Row
    BY <1>0, <1>5 DEF AcceptRow, TypeOK
  <2>2. prev_seq' \in Nat /\ output' \in Seq(Nat) /\ pos' \in Nat
    BY <1>0, <1>5, <2>1, RowFields DEF AcceptRow, TypeOK, ValidEvent
  <2>3. UNCHANGED <<up, run, seq, handled, transcript, edited, verdict, from>>
    BY <1>5 DEF AcceptRow, daemon
  <2> QED
    BY <1>0, <2>2, <2>3 DEF TypeOK
<1> QED
  BY <1>1, <1>2, <1>3, <1>4, <1>5 DEF Next, Boots, Answers

\* Rows are written behind complete lines, or complete the unfinished one.
LEMMA TornStep == IInv /\ [Next]_vars => TornLast'
<1> SUFFICES ASSUME IInv, [Next]_vars PROVE TornLast'
  OBVIOUS
<1>0. /\ TypeOK /\ TornLast
      /\ Len(transcript) \in Nat /\ Len(transcript') \in Nat
  BY TypeStep DEF IInv, TypeOK
<1>1. ASSUME NEW row, Boots(row) \/ Answers(row) \/ (row \in ForeignRow /\ Edit(row)) PROVE TornLast'
  <2>1. row.kind # "torn"
    BY <1>0, <1>1, WriterRow
  <2>2. Swallowed \/ Appended(row)
    BY <1>0, <1>1, WriterStep
  <2>3. CASE Swallowed
    BY <1>0, <2>3 DEF Swallowed, TornLast
  <2>4. CASE Appended(row)
    BY <1>0, <2>1, <2>4 DEF Appended, TornLast
  <2> QED
    BY <2>2, <2>3, <2>4
<1>2. CASE Kill
  <2>1. up = TRUE /\ up' = FALSE
    BY <1>0, <1>2, KilledTranscript
  <2>2. \A i \in 1 .. Len(transcript) : transcript[i].kind # "torn"
    BY <1>0, <2>1 DEF TornLast
  <2>3. PICK m \in 0 .. Len(transcript) :
              /\ Len(transcript') \in {m, m + 1}
              /\ \A i \in 1 .. m : transcript'[i] = transcript[i]
              /\ Len(transcript') = m + 1 => transcript'[m + 1] = [kind |-> "torn"]
    BY <1>0, <1>2, KilledTranscript
  <2> QED
    BY <1>0, <2>1, <2>2, <2>3 DEF TornLast
<1>3. CASE UNCHANGED <<transcript, edited, run, seq>> /\ (up' = up \/ up' = FALSE)
  <2>1. \A i \in 1 .. Len(transcript) :
          transcript[i].kind = "torn" => up' = FALSE /\ i = Len(transcript)
    BY <1>0, <1>3 DEF TornLast
  <2> QED
    BY <1>3, <2>1 DEF TornLast
<1> QED
  BY <1>1, <1>2, <1>3, StepCases

\* The numbers go on as long as the daemon runs.
LEMMA NumberedStep == IInv /\ [Next]_vars => Numbered' /\ Gapless'
<1> SUFFICES ASSUME IInv, [Next]_vars PROVE Numbered' /\ Gapless'
  OBVIOUS
<1>0. /\ TypeOK /\ TornLast /\ Numbered /\ Gapless
      /\ Len(transcript) \in Nat /\ Len(transcript') \in Nat
      /\ run \in Nat /\ seq \in Nat /\ run' \in Nat /\ seq' \in Nat
  BY TypeStep DEF IInv, TypeOK
<1>00. \A i \in 1 .. Len(transcript) :
         transcript[i].kind = "event" => transcript[i].seq \in Nat /\ transcript[i].run \in Nat
  BY <1>0, RowFields DEF TypeOK
<1>1. ASSUME NEW row, Boots(row) PROVE Numbered' /\ Gapless'
  <2>1. /\ row.kind = "event" /\ row.seq = 1 /\ row.run = run + 1
        /\ run' = run + 1 /\ seq' = 2
    BY <1>0, <1>1, RowFields DEF Boots, Boot
  <2>2. Swallowed \/ Appended(row)
    BY <1>0, <1>1, WriterStep
  <2>3. CASE Swallowed
    BY <1>0, <1>00, <2>1, <2>3 DEF Swallowed, NoFuture, CountsDown, Numbered, Gapless
  <2>4. CASE Appended(row)
    BY <1>0, <1>00, <2>1, <2>4, SMTT(30) DEF Appended, NoFuture, CountsDown, Numbered, Gapless
  <2> QED
    BY <2>2, <2>3, <2>4
<1>2. ASSUME NEW row, Answers(row) PROVE Numbered' /\ Gapless'
  <2>1. /\ row.kind = "event" /\ row.seq = seq /\ row.run = run
        /\ run' = run /\ seq' = seq + 1
    BY <1>0, <1>2, RowFields DEF Answers, HandleLine, Answer, NextSeq, TypeOK
  <2>2. up = TRUE
    BY <1>0, <1>2 DEF Answers, HandleLine, TypeOK
  <2>3. Appended(row)
    BY <1>0, <1>2, <2>2, WriterStep
  <2>4. NoFuture /\ CountsDown
    BY <1>0, <2>2 DEF Numbered
  <2>5. NoFuture'
    BY <1>0, <1>00, <2>1, <2>3, <2>4 DEF Appended, NoFuture
  <2> DEFINE n == Len(transcript)
  <2>8. /\ n \in Nat /\ Len(transcript') = n + 1 /\ transcript'[n + 1] = row
        /\ \A i \in 1 .. n : transcript'[i] = transcript[i]
    BY <1>0, <2>3 DEF Appended
  <2>9. /\ \A i \in 1 .. n :
             transcript[i].kind = "event" /\ transcript[i].run = run =>
               transcript[i].seq \in Nat /\ transcript[i].seq + n + 1 = seq + i
        /\ run > 0
    BY <1>00, <2>4 DEF CountsDown
  <2>10. \A i \in 1 .. n + 1 : i \in 1 .. n \/ i = n + 1
    BY <2>8
  <2> HIDE DEF n
  <2>6. CountsDown'
    <3> SUFFICES ASSUME NEW i \in 1 .. n + 1,
                        transcript'[i].kind = "event", transcript'[i].run = run
                 PROVE  transcript'[i].seq + (n + 1) + 1 = (seq + 1) + i
      BY <2>1, <2>8, <2>9, Zenon DEF CountsDown
    <3>1. CASE i \in 1 .. n
      BY <1>0, <2>8, <2>9, <3>1, SMTT(30)
    <3>2. CASE i = n + 1
      BY <1>0, <2>1, <2>8, <3>2
    <3> QED
      BY <2>10, <3>1, <3>2
  <2>7. Gapless'
    <3> SUFFICES ASSUME NEW i \in 1 .. n + 1, NEW j \in 1 .. n + 1, i < j,
                        transcript'[i].kind = "event", transcript'[i].run = run,
                        transcript'[j].kind = "event", transcript'[j].run = run
                 PROVE  transcript'[j].seq + i = transcript'[i].seq + j
      BY <2>1, <2>8, Zenon DEF Gapless
    <3>1. CASE j \in 1 .. n
      <4>1. i \in 1 .. n
        BY <2>8, <3>1
      <4>2. /\ transcript[j].seq \in Nat /\ transcript[j].seq + n + 1 = seq + j
            /\ transcript[i].seq \in Nat /\ transcript[i].seq + n + 1 = seq + i
        BY <2>8, <2>9, <3>1, <4>1
      <4>3. transcript[j].seq + i = transcript[i].seq + j
        <5>1. i \in Nat /\ j \in Nat /\ n \in Nat /\ seq \in Nat
          BY <1>0, <2>8, <3>1, <4>1
        <5>2. PICK a \in Nat, b \in Nat : a = transcript[j].seq /\ b = transcript[i].seq
          BY <4>2
        <5>3. a + n + 1 = seq + j /\ b + n + 1 = seq + i
          BY <4>2, <5>2
        <5>4. a + i = b + j
          BY <5>1, <5>3
        <5> QED
          BY <5>2, <5>4
      <4> QED
        BY <2>8, <3>1, <4>1, <4>3
    <3>2. CASE j = n + 1
      <4>1. i \in 1 .. n
        BY <2>8, <3>2
      <4>2. transcript'[j].seq = seq /\ transcript'[i].seq = transcript[i].seq
        BY <2>1, <2>8, <3>2, <4>1
      <4>3. transcript[i].seq \in Nat /\ transcript[i].seq + n + 1 = seq + i
        BY <2>8, <2>9, <4>1
      <4> QED
        BY <1>0, <2>8, <3>2, <4>1, <4>2, <4>3
    <3> QED
      BY <2>10, <3>1, <3>2
  <2> QED
    BY <2>5, <2>6, <2>7 DEF Numbered
<1>3. ASSUME NEW row \in ForeignRow, Edit(row) PROVE Numbered' /\ Gapless'
  <2>1. row.kind = "event" => row.run = 0
    <3>1. CASE row \in [kind : {"mutation", "foreign", "bad"}]
      BY <3>1
    <3>2. CASE row \in {Event("PASS", n, 0) : n \in ForeignSeq}
      BY <3>2, RowFields, DaemonAssumption
    <3> QED
      BY <3>1, <3>2 DEF ForeignRow
  <2>2. run' = run /\ up' = FALSE
    BY <1>0, <1>3 DEF Edit, daemon, TypeOK
  <2>3. Swallowed \/ Appended(row)
    BY <1>0, <1>3, WriterStep
  <2>4. NoFuture
    BY <1>0 DEF Numbered
  <2>5. CASE Swallowed
    BY <1>0, <1>00, <2>2, <2>4, <2>5, SMTT(30) DEF Swallowed, NoFuture, Gapless, Numbered
  <2>6. CASE Appended(row)
    <3>1. NoFuture'
      BY <1>0, <1>00, <2>1, <2>2, <2>4, <2>6 DEF Appended, NoFuture
    <3>2. Gapless'
      BY <1>0, <1>00, <2>1, <2>2, <2>6, SMTT(30) DEF Appended, Gapless
    <3> QED
      BY <2>2, <3>1, <3>2 DEF Numbered
  <2> QED
    BY <2>3, <2>5, <2>6
<1>4. CASE Kill
  <2>1. up' = FALSE /\ run' = run
    BY <1>0, <1>4, KilledTranscript
  <2>2. PICK m \in 0 .. Len(transcript) :
              /\ Len(transcript') \in {m, m + 1}
              /\ \A i \in 1 .. m : transcript'[i] = transcript[i]
              /\ Len(transcript') = m + 1 => transcript'[m + 1] = [kind |-> "torn"]
    BY <1>0, <1>4, KilledTranscript
  <2>3. \A i \in 1 .. Len(transcript') :
          transcript'[i].kind = "event" =>
            i \in 1 .. Len(transcript) /\ transcript'[i] = transcript[i]
    BY <1>0, <2>2
  <2>4. NoFuture' /\ Gapless'
    BY <1>0, <1>00, <2>1, <2>3 DEF NoFuture, Gapless, Numbered
  <2> QED
    BY <2>1, <2>4 DEF Numbered
<1>5. CASE UNCHANGED <<transcript, edited, run, seq>> /\ (up' = up \/ up' = FALSE)
  <2>1. Gapless' /\ NoFuture'
    BY <1>0, <1>5 DEF Gapless, NoFuture, Numbered
  <2>2. CountsDown => CountsDown'
    BY <1>5 DEF CountsDown
  <2> QED
    BY <1>0, <1>5, <2>1, <2>2 DEF Numbered
<1> QED
  BY <1>1, <1>2, <1>3, <1>4, <1>5, StepCases

\* Two runs meet at a boot event or at a line that is no event.
LEMMA UneditedStep == IInv /\ [Next]_vars => Unedited'
<1> SUFFICES ASSUME IInv, [Next]_vars, edited' = FALSE PROVE Unedited'
  BY DEF Unedited
<1>0. /\ TypeOK /\ TornLast /\ Numbered /\ Unedited
      /\ Len(transcript) \in Nat /\ run \in Nat /\ seq \in Nat \ {0} /\ Len(transcript') \in Nat
  BY TypeStep DEF IInv, TypeOK
<1>1. ASSUME NEW row, Boots(row) PROVE Unedited'
  <2>1. row.kind = "event" /\ row.seq = 1 /\ row.run = run' /\ run' = run + 1
        /\ row.host_mutation = "false"
    BY <1>0, <1>1, RowFields DEF Boots, Boot
  <2>2. Swallowed \/ Appended(row)
    BY <1>0, <1>1, WriterStep
  <2>3. Boundaries
    BY <1>0, <1>1 DEF Unedited, Boots, Boot
  <2>4. CASE Swallowed
    BY <1>0, <2>1, <2>3, <2>4 DEF Swallowed, Boundaries, LastIsOwn, Unedited
  <2>5. CASE Appended(row)
    <3>1. /\ Len(transcript') = Len(transcript) + 1 /\ transcript'[Len(transcript')] = row
          /\ \A i \in 1 .. Len(transcript) : transcript'[i] = transcript[i]
      BY <1>0, <2>5 DEF Appended
    <3>2. \A i \in 1 .. Len(transcript') :
            transcript'[i].kind = "event" =>
              /\ transcript'[i].seq > 0 /\ transcript'[i].run > 0
              /\ transcript'[i].host_mutation = "false"
      BY <1>0, <2>1, <2>3, <3>1 DEF Boundaries
    <3>3. \A i, j \in 1 .. Len(transcript') :
            j = i + 1 /\ transcript'[i].kind = "event" /\ transcript'[j].kind = "event"
              => transcript'[i].run = transcript'[j].run \/ transcript'[j].seq = 1
      <4> SUFFICES ASSUME NEW i \in 1 .. Len(transcript'), NEW j \in 1 .. Len(transcript'), j = i + 1,
                          transcript'[i].kind = "event", transcript'[j].kind = "event"
                   PROVE  transcript'[i].run = transcript'[j].run \/ transcript'[j].seq = 1
        OBVIOUS
      <4>1. CASE j = Len(transcript')
        BY <2>1, <3>1, <4>1
      <4>2. CASE j \in 1 .. Len(transcript)
        <5>1. i \in 1 .. Len(transcript)
          BY <1>0, <4>2
        <5> QED BY <2>3, <3>1, <4>2, <5>1 DEF Boundaries
      <4> QED BY <1>0, <3>1, <4>1, <4>2
    <3>4. LastIsOwn'
      BY <2>1, <3>1 DEF LastIsOwn
    <3> QED
      BY <3>2, <3>3, <3>4 DEF Boundaries, Unedited
  <2> QED
    BY <2>2, <2>4, <2>5
<1>2. ASSUME NEW row, Answers(row) PROVE Unedited'
  <2>1. row.kind = "event" /\ row.seq = seq /\ row.run = run /\ run' = run
        /\ row.host_mutation = "false"
    BY <1>0, <1>2, RowFields DEF Answers, HandleLine, Answer, TypeOK
  <2>2. up = TRUE /\ edited = FALSE /\ run > 0
    BY <1>0, <1>2 DEF Answers, HandleLine, TypeOK, Numbered, CountsDown
  <2>3. Appended(row)
    BY <1>0, <1>2, <2>2, WriterStep
  <2>4. Boundaries /\ LastIsOwn
    BY <1>0, <2>2 DEF Unedited
  <2>5. /\ Len(transcript') = Len(transcript) + 1 /\ transcript'[Len(transcript')] = row
        /\ \A i \in 1 .. Len(transcript) : transcript'[i] = transcript[i]
    BY <1>0, <2>3 DEF Appended
  <2>6. \A i \in 1 .. Len(transcript') :
          transcript'[i].kind = "event" =>
            /\ transcript'[i].seq > 0 /\ transcript'[i].run > 0
            /\ transcript'[i].host_mutation = "false"
    BY <1>0, <2>1, <2>2, <2>4, <2>5 DEF Boundaries
  <2>7. \A i, j \in 1 .. Len(transcript') :
          j = i + 1 /\ transcript'[i].kind = "event" /\ transcript'[j].kind = "event"
            => transcript'[i].run = transcript'[j].run \/ transcript'[j].seq = 1
    <3> SUFFICES ASSUME NEW i \in 1 .. Len(transcript'), NEW j \in 1 .. Len(transcript'), j = i + 1,
                        transcript'[i].kind = "event", transcript'[j].kind = "event"
                 PROVE  transcript'[i].run = transcript'[j].run \/ transcript'[j].seq = 1
      OBVIOUS
    <3>1. i \in 1 .. Len(transcript) /\ transcript'[i] = transcript[i]
      BY <1>0, <2>5
    <3>2. CASE j \in 1 .. Len(transcript)
      BY <2>4, <2>5, <3>1, <3>2 DEF Boundaries
    <3>3. CASE j = Len(transcript')
      <4>1. i = Len(transcript)
        BY <1>0, <2>5, <3>3
      <4>2. transcript[i].run = run
        BY <2>4, <3>1, <4>1 DEF LastIsOwn
      <4> QED BY <2>1, <2>5, <3>1, <3>3, <4>2
    <3> QED BY <1>0, <2>5, <3>2, <3>3
  <2>8. LastIsOwn'
    BY <2>1, <2>5 DEF LastIsOwn
  <2> QED
    BY <2>6, <2>7, <2>8 DEF Boundaries, Unedited
<1>3. ASSUME NEW row \in ForeignRow, Edit(row) PROVE FALSE
  BY <1>3 DEF Edit
<1>4. CASE Kill
  <2>1. up' = FALSE /\ edited = FALSE
    BY <1>0, <1>4, KilledTranscript
  <2>2. PICK m \in 0 .. Len(transcript) :
              /\ Len(transcript') \in {m, m + 1}
              /\ \A i \in 1 .. m : transcript'[i] = transcript[i]
              /\ Len(transcript') = m + 1 => transcript'[m + 1] = [kind |-> "torn"]
    BY <1>0, <1>4, KilledTranscript
  <2>3. \A i \in 1 .. Len(transcript') :
          transcript'[i].kind = "event" =>
            i \in 1 .. Len(transcript) /\ transcript'[i] = transcript[i]
    BY <1>0, <2>2
  <2>4. Boundaries
    BY <1>0, <2>1 DEF Unedited
  <2>5. \A i \in 1 .. Len(transcript') :
          transcript'[i].kind = "event" =>
            /\ transcript'[i].seq > 0 /\ transcript'[i].run > 0
            /\ transcript'[i].host_mutation = "false"
    BY <2>3, <2>4 DEF Boundaries
  <2>6. \A i, j \in 1 .. Len(transcript') :
          j = i + 1 /\ transcript'[i].kind = "event" /\ transcript'[j].kind = "event"
            => transcript'[i].run = transcript'[j].run \/ transcript'[j].seq = 1
    <3> SUFFICES ASSUME NEW i \in 1 .. Len(transcript'), NEW j \in 1 .. Len(transcript'), j = i + 1,
                        transcript'[i].kind = "event", transcript'[j].kind = "event"
                 PROVE  transcript'[i].run = transcript'[j].run \/ transcript'[j].seq = 1
      OBVIOUS
    <3>1. /\ i \in 1 .. Len(transcript) /\ transcript'[i] = transcript[i]
          /\ j \in 1 .. Len(transcript) /\ transcript'[j] = transcript[j]
      BY <2>3
    <3> QED BY <2>4, <3>1 DEF Boundaries
  <2>7. Boundaries'
    BY <2>5, <2>6 DEF Boundaries
  <2> QED
    BY <2>1, <2>7 DEF Unedited
<1>5. CASE UNCHANGED <<transcript, edited, run, seq>> /\ (up' = up \/ up' = FALSE)
  <2>1. Boundaries => Boundaries'
    BY <1>5 DEF Boundaries
  <2>2. LastIsOwn => LastIsOwn'
    BY <1>5 DEF LastIsOwn
  <2> QED
    BY <1>0, <1>5, <2>1, <2>2 DEF Unedited
<1> QED
  BY <1>1, <1>2, <1>3, <1>4, <1>5, StepCases

\* replay_transcript() reads a transcript nobody writes to, row by row.
LEMMA ReplayStep == IInv /\ [Next]_vars => Replayed' /\ Copied'
<1> SUFFICES ASSUME IInv, [Next]_vars, verdict' # "idle" PROVE Replayed' /\ Copied'
  BY DEF Replayed, Copied
<1>0. /\ TypeOK /\ Replayed /\ Copied
      /\ Len(transcript) \in Nat /\ pos \in Nat /\ prev_seq \in Nat /\ from \in Nat
      /\ output \in Seq(Nat) /\ Len(output) \in Nat
  BY DEF IInv, TypeOK
<1>1. CASE UNCHANGED <<up, transcript, edited, verdict, from, pos, prev_seq, output>>
  BY <1>0, <1>1 DEF Replayed, Copied, Regresses, ValidEvent
<1>2. ASSUME NEW row, Boots(row) \/ Answers(row) \/ (row \in ForeignRow /\ Edit(row)) PROVE FALSE
  BY <1>2 DEF Boots, Boot, Answers, HandleLine, Edit, MayWrite, replay
<1>3. CASE Kill \/ EndOfInput
  BY <1>0, <1>3 DEF Kill, EndOfInput, Replayed, replay, TypeOK
<1>4. ASSUME NEW f \in FromSeqs, StartReplay(f) PROVE Replayed' /\ Copied'
  <2>1. /\ up' = FALSE /\ verdict' = "running" /\ pos' = 0 /\ prev_seq' = 0
        /\ output' = <<>> /\ transcript' = transcript
    BY <1>0, <1>4 DEF StartReplay, daemon, TypeOK
  <2>2. Len(output') = 0
    BY <2>1
  <2> QED
    BY <1>0, <2>1, <2>2 DEF Replayed, Copied
<1>5. CASE RejectRow
  BY <1>0, <1>5 DEF RejectRow, ValidEvent, Replayed, Copied, Regresses, daemon
<1>6. CASE AcceptRow
  <2>1. /\ verdict = "running" /\ pos < Len(transcript) /\ pos' = pos + 1
        /\ ValidEvent(transcript[pos + 1]) /\ prev_seq' = transcript[pos + 1].seq
        /\ ~(transcript[pos + 1].seq > 0 /\ transcript[pos + 1].seq <= prev_seq)
        /\ UNCHANGED <<up, transcript, edited, verdict, from>>
    BY <1>0, <1>6 DEF AcceptRow, Regresses, daemon
  <2>2. output' = IF transcript[pos + 1].seq < from THEN output ELSE Append(output, pos + 1)
    BY <1>6 DEF AcceptRow
  <2>3. transcript[pos + 1].seq \in Nat
    BY <1>0, <2>1, RowFields DEF TypeOK, ValidEvent
  <2> DEFINE p == pos + 1
  <2>4. \A i \in 1 .. p : i \in 1 .. pos \/ i = p
    BY <1>0
  <2>5. /\ up = FALSE
        /\ \A i \in 1 .. pos : ValidEvent(transcript[i]) /\ transcript[i].seq \in Nat
        /\ pos > 0 => prev_seq = transcript[pos].seq
        /\ \A i, j \in 1 .. pos :
             i < j /\ (\A k \in i .. j : transcript[k].seq > 0) =>
               transcript[i].seq < transcript[j].seq
        /\ edited = FALSE => \A i \in 1 .. pos : transcript[i].run = transcript[1].run
    <3>1. /\ up = FALSE
          /\ \A i \in 1 .. pos : ValidEvent(transcript[i])
          /\ pos > 0 => prev_seq = transcript[pos].seq
          /\ \A i, j \in 1 .. pos :
               i < j /\ (\A k \in i .. j : transcript[k].seq > 0) =>
                 transcript[i].seq < transcript[j].seq
          /\ edited = FALSE => \A i \in 1 .. pos : transcript[i].run = transcript[1].run
      BY <1>0, <2>1, Zenon DEF Replayed
    <3>2. \A i \in 1 .. pos : transcript[i].seq \in Nat
      BY <1>0, <2>1, <3>1, RowFields DEF TypeOK, ValidEvent
    <3> QED
      BY <3>1, <3>2
  <2>6. Replayed'
    <3>1. \A i, j \in 1 .. p :
            i < j /\ (\A k \in i .. j : transcript[k].seq > 0) =>
              transcript[i].seq < transcript[j].seq
      <4> SUFFICES ASSUME NEW i \in 1 .. p, NEW j \in 1 .. p, i < j,
                          \A k \in i .. j : transcript[k].seq > 0
                   PROVE  transcript[i].seq < transcript[j].seq
        OBVIOUS
      <4>1. i \in 1 .. pos /\ i \in Nat /\ j \in Nat
        BY <1>0
      <4>2. CASE j \in 1 .. pos
        BY <2>5, <4>1, <4>2
      <4>3. CASE j = p
        <5>1. pos \in 1 .. pos /\ p \in i .. j /\ \A k \in i .. pos : k \in i .. j
          BY <1>0, <4>1, <4>3
        <5>2. transcript[i].seq <= transcript[pos].seq
          <6>1. CASE i = pos
            BY <2>5, <4>1, <6>1
          <6>2. CASE i < pos
            <7>1. transcript[i].seq < transcript[pos].seq
              BY <2>5, <4>1, <5>1, <6>2
            <7> QED
              BY <2>5, <4>1, <5>1, <7>1
          <6> QED
            BY <1>0, <4>1, <6>1, <6>2
        <5>3. transcript[p].seq > 0
          BY <5>1
        <5>4. transcript[pos].seq < transcript[p].seq
          BY <1>0, <2>1, <2>3, <2>5, <5>1, <5>3
        <5> QED
          BY <2>3, <2>5, <4>1, <4>3, <5>1, <5>2, <5>4
      <4> QED
        BY <2>4, <4>2, <4>3
    <3>2. edited = FALSE => \A i \in 1 .. p : transcript[i].run = transcript[1].run
      <4> SUFFICES ASSUME edited = FALSE PROVE \A i \in 1 .. p : transcript[i].run = transcript[1].run
        OBVIOUS
      <4>1. Boundaries
        BY DEF IInv, Unedited
      <4>2. CASE pos = 0
        BY <2>4, <4>2
      <4>3. CASE pos > 0
        <5>0. /\ pos \in 1 .. Len(transcript) /\ p \in 1 .. Len(transcript)
              /\ transcript[pos].kind = "event" /\ transcript[p].kind = "event"
          BY <1>0, <2>1, <2>5, <4>3 DEF ValidEvent
        <5>1. transcript[p].run = transcript[pos].run \/ transcript[p].seq = 1
          BY <4>1, <5>0 DEF Boundaries
        <5>2. prev_seq > 0 /\ transcript[p].seq > 0
          BY <2>5, <4>1, <4>3, <5>0 DEF Boundaries
        <5>3. transcript[p].run = transcript[pos].run
          BY <1>0, <2>1, <5>1, <5>2
        <5>4. transcript[pos].run = transcript[1].run
          BY <1>0, <2>5, <4>3
        <5> QED
          BY <2>4, <2>5, <5>3, <5>4
      <4> QED
        BY <1>0, <4>2, <4>3
    <3>3. \A i \in 1 .. p : ValidEvent(transcript[i])
      BY <2>1, <2>4, <2>5
    <3>4. /\ up' = FALSE /\ pos' = p /\ p <= Len(transcript') /\ p # 0
          /\ prev_seq' = transcript'[p].seq /\ verdict' = "running"
          /\ transcript' = transcript /\ edited' = edited
      BY <1>0, <2>1, <2>5
    <3> HIDE DEF p
    <3> QED
      BY <3>1, <3>2, <3>3, <3>4, Zenon DEF Replayed
  <2>7. Copied'
    <3>1. /\ \A k \in 1 .. Len(output) : output[k] \in 1 .. pos
          /\ \A k, l \in 1 .. Len(output) : k < l => output[k] < output[l]
          /\ \A i \in 1 .. pos :
               transcript[i].seq >= from <=> \E k \in 1 .. Len(output) : output[k] = i
      BY <1>0, <2>1 DEF Copied
    <3>2. CASE transcript[p].seq < from
      <4>1. output' = output
        BY <2>2, <3>2
      <4>2. ~(transcript[p].seq >= from) /\ ~\E k \in 1 .. Len(output) : output[k] = p
        BY <1>0, <2>3, <3>1, <3>2
      <4> QED
        BY <1>0, <2>1, <2>4, <3>1, <4>1, <4>2, SMTT(30) DEF Copied
    <3>3. CASE ~(transcript[p].seq < from)
      <4> DEFINE m == Len(output)
      <4>1. /\ Len(output') = m + 1 /\ output'[m + 1] = p
            /\ \A k \in 1 .. m : output'[k] = output[k]
        BY <1>0, <2>2, <3>3, AppendProperties
      <4>2. \A k \in 1 .. m + 1 : k \in 1 .. m \/ k = m + 1
        BY <1>0
      <4>3. \A k \in 1 .. m + 1 : output'[k] \in 1 .. p
        <5>1. p \in 1 .. p /\ \A i \in 1 .. pos : i \in 1 .. p
          BY <1>0
        <5> QED
          BY <3>1, <4>1, <4>2, <5>1
      <4>4. \A k, l \in 1 .. m + 1 : k < l => output'[k] < output'[l]
        <5> SUFFICES ASSUME NEW k \in 1 .. m + 1, NEW l \in 1 .. m + 1, k < l
                     PROVE  output'[k] < output'[l]
          OBVIOUS
        <5>1. k \in 1 .. m
          BY <1>0
        <5>2. CASE l \in 1 .. m
          BY <3>1, <4>1, <5>1, <5>2
        <5>3. CASE l = m + 1
          BY <1>0, <3>1, <4>1, <5>1, <5>3, SMTT(30)
        <5> QED
          BY <4>2, <5>2, <5>3
      <4>5. ASSUME NEW i \in 1 .. p
            PROVE  transcript[i].seq >= from <=> \E k \in 1 .. m + 1 : output'[k] = i
        <5>1. CASE i = p
          <6>1. m + 1 \in 1 .. m + 1
            BY <1>0
          <6> QED
            BY <1>0, <2>3, <3>3, <4>1, <5>1, <6>1
        <5>2. CASE i \in 1 .. pos
          <6>1. i # p
            BY <1>0, <5>2
          <6>2. (\E k \in 1 .. m + 1 : output'[k] = i) <=> \E k \in 1 .. m : output[k] = i
            BY <1>0, <4>1, <4>2, <6>1
          <6> QED
            BY <3>1, <5>2, <6>2
        <5> QED
          BY <2>4, <5>1, <5>2
      <4> QED
        BY <2>1, <4>1, <4>3, <4>4, <4>5 DEF Copied
    <3> QED
      BY <3>2, <3>3
  <2> QED
    BY <2>6, <2>7
<1>7. CASE EndOfTranscript
  BY <1>0, <1>7 DEF EndOfTranscript, Replayed, Copied, daemon
<1>8. CASE ReplayReturns
  BY <1>8 DEF ReplayReturns
<1> QED
  BY <1>1, <1>2, <1>3, <1>4, <1>5, <1>6, <1>7, <1>8
     DEF Next, Boots, Answers, SkipLine, vars, daemon, replay

\* The whole invariant.
LEMMA Invariance == Spec => []IInv
<1>1. IInv /\ [Next]_vars => IInv'
  BY TypeStep, TornStep, NumberedStep, UneditedStep, ReplayStep DEF IInv
<1> QED
  BY InitIInv, <1>1, PTL DEF Spec
-----------------------------------------------------------------------------
(* Theorems *)

\* Of however many lines run_foreground_stdio() has answered, and however often
\* it was killed and started again before, the rows of the last run are
\* numbered without gap or repetition.
THEOREM DaemonAnswersNumbered == Spec => []AnswersNumbered
<1>1. IInv => AnswersNumbered
  <2> SUFFICES ASSUME IInv, NEW i \in DOMAIN transcript, NEW j \in DOMAIN transcript,
                      i < j, {i, j} \subseteq RowsOf(run), run > 0
               PROVE  transcript[j].seq - transcript[i].seq = j - i
    BY DEF AnswersNumbered
  <2>1. TypeOK /\ Gapless
    BY DEF IInv
  <2>2. i \in 1 .. Len(transcript) /\ j \in 1 .. Len(transcript) /\ i \in Nat /\ j \in Nat
    BY <2>1 DEF TypeOK
  <2>3. /\ transcript[i].kind = "event" /\ transcript[i].run = run
        /\ transcript[j].kind = "event" /\ transcript[j].run = run
    BY DEF RowsOf
  <2>4. transcript[i].seq \in Nat /\ transcript[j].seq \in Nat
    BY <2>1, <2>2, <2>3, RowFields DEF TypeOK
  <2>5. transcript[j].seq + i = transcript[i].seq + j
    BY <2>1, <2>2, <2>3 DEF Gapless
  <2> QED
    BY <2>2, <2>4, <2>5
<1> QED
  BY Invariance, <1>1, PTL

\* Whatever rows the transcript holds, one that replay_transcript() accepts
\* holds only events, none of which says host_mutation=true, and the numbers of
\* rows next to each other increase as long as there are any.
THEOREM ReplayAcceptedIsSound == Spec => []AcceptedIsSound
<1>1. IInv => AcceptedIsSound
  <2> SUFFICES ASSUME IInv, verdict = "ok" PROVE AcceptedIsSound
    BY DEF AcceptedIsSound
  <2>1. Replayed /\ pos = Len(transcript)
    BY DEF IInv, Replayed
  <2>2. DOMAIN transcript = 1 .. pos
    BY <2>1 DEF IInv, TypeOK
  <2>3. verdict # "idle"
    OBVIOUS
  <2>4. \A i \in 1 .. pos : ValidEvent(transcript[i])
    BY <2>1, <2>3, Zenon DEF Replayed
  <2>5. \A i, j \in 1 .. pos :
          i < j /\ (\A k \in i .. j : transcript[k].seq > 0) =>
            transcript[i].seq < transcript[j].seq
    BY <2>1, <2>3, Zenon DEF Replayed
  <2> QED
    BY <2>2, <2>4, <2>5, Zenon DEF AcceptedIsSound, ValidEvent
<1> QED
  BY Invariance, <1>1, PTL

\* replay_transcript() never accepts the output of two runs of the daemon, or
\* of one that was cut off in a line, as one session.
THEOREM ReplaySplicesRejected == Spec => []SplicesRejected
<1>1. IInv => SplicesRejected
  <2> SUFFICES ASSUME IInv, verdict = "ok", ~edited PROVE SplicesRejected
    BY DEF SplicesRejected
  <2>1. edited = FALSE
    BY DEF IInv, TypeOK
  <2>2. /\ DOMAIN transcript = 1 .. Len(transcript) /\ pos = Len(transcript)
        /\ \A i \in 1 .. pos : transcript[i].kind = "event"
        /\ \A i \in 1 .. pos : transcript[i].run = transcript[1].run
    BY <2>1 DEF IInv, TypeOK, Replayed, ValidEvent
  <2> QED
    BY <2>2 DEF SplicesRejected
<1> QED
  BY Invariance, <1>1, PTL

\* What a single run of the daemon wrote, whole lines and of any number, is
\* replayed: never refused, and copied from from_seq on.
THEOREM ReplayOwnTranscript == Spec => []OwnTranscriptReplays
<1>1. IInv => OwnTranscriptReplays
  <2> SUFFICES ASSUME IInv, ~edited, run <= 1,
                      \A i \in DOMAIN transcript : transcript[i].kind = "event"
               PROVE  /\ verdict # "rejected"
                      /\ verdict = "ok" =>
                           /\ {output[k] : k \in DOMAIN output} =
                                {i \in DOMAIN transcript : transcript[i].seq >= from}
                           /\ \A k, l \in DOMAIN output : k < l => output[k] < output[l]
    BY DEF OwnTranscriptReplays
  <2>1. /\ DOMAIN transcript = 1 .. Len(transcript) /\ Len(transcript) \in Nat
        /\ DOMAIN output = 1 .. Len(output) /\ Len(output) \in Nat
        /\ pos \in Nat /\ prev_seq \in Nat /\ run \in Nat
    BY DEF IInv, TypeOK
  <2>2. Boundaries /\ NoFuture /\ Gapless /\ Replayed /\ Copied
    BY DEF IInv, TypeOK, Unedited, Numbered
  <2>3. \A i \in 1 .. Len(transcript) :
          /\ transcript[i].kind = "event" /\ transcript[i].seq \in Nat /\ transcript[i].run \in Nat
    BY <2>1, RowFields DEF IInv, TypeOK
  <2>4. \A i \in 1 .. Len(transcript) : transcript[i].run = run /\ run > 0
    BY <2>1, <2>2, <2>3 DEF Boundaries, NoFuture
  <2>5. verdict # "rejected"
    <3> SUFFICES ASSUME verdict = "rejected" PROVE FALSE
      OBVIOUS
    <3>1. /\ pos < Len(transcript) /\ pos + 1 \in 1 .. Len(transcript)
          /\ transcript[pos + 1].seq > 0 /\ transcript[pos + 1].seq <= prev_seq
          /\ pos = 0 => prev_seq = 0
          /\ pos > 0 => prev_seq = transcript[pos].seq
      BY <2>1, <2>2, <2>3 DEF Replayed, Regresses, ValidEvent, Boundaries
    <3>2. pos > 0 /\ pos \in 1 .. Len(transcript)
      BY <2>1, <2>3, <3>1
    <3>3. transcript[pos + 1].seq + pos = transcript[pos].seq + (pos + 1)
      BY <2>1, <2>2, <2>3, <2>4, <3>1, <3>2 DEF Gapless
    <3> QED
      BY <2>1, <2>3, <3>1, <3>2, <3>3
  <2>6. ASSUME verdict = "ok"
        PROVE  /\ {output[k] : k \in DOMAIN output} =
                     {i \in DOMAIN transcript : transcript[i].seq >= from}
               /\ \A k, l \in DOMAIN output : k < l => output[k] < output[l]
    <3>1. pos = Len(transcript)
      BY <2>2, <2>6 DEF Replayed
    <3>2. /\ \A k \in 1 .. Len(output) : output[k] \in 1 .. pos
          /\ \A k, l \in 1 .. Len(output) : k < l => output[k] < output[l]
          /\ \A i \in 1 .. pos :
               transcript[i].seq >= from <=> \E k \in 1 .. Len(output) : output[k] = i
      <4>1. verdict # "idle"
        BY <2>6
      <4> QED
        BY <2>2, <4>1, Zenon DEF Copied
    <3>3. DOMAIN transcript = 1 .. pos /\ DOMAIN output = 1 .. Len(output)
      BY <2>1, <3>1
    <3>4. {output[k] : k \in DOMAIN output} = {i \in DOMAIN transcript : transcript[i].seq >= from}
      BY <3>2, <3>3, Zenon
    <3> QED
      BY <3>2, <3>3, <3>4, Zenon
  <2> QED
    BY <2>5, <2>6
<1> QED
  BY Invariance, <1>1, PTL
=============================================================================
