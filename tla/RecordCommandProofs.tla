------------------------ MODULE RecordCommandProofs ------------------------
(***************************************************************************)
(* Proofs about `xsprof record': for every number of slots, buffer size,   *)
(* duration, slice and number of records, a slot's events reach the        *)
(* journal in the order in which the kernel produced them, every record    *)
(* is accounted for, every exit of run() gives back what it took, the      *)
(* journal is the capture, and the polls wait no longer than duration_ms.  *)
(***************************************************************************)
EXTENDS RecordCommand, SequenceTheorems, FiniteSetTheorems, TLAPS

Places == {"probe", "open", "mmap", "enable", "poll", "drain", "drainloop",
           "cleanup", "done"}

TypeOK ==
  /\ pc \in Places
  /\ cap \in {"unprobed", "ready", "skip"}
  /\ todo \in SUBSET Slots /\ revents \in SUBSET Slots
  /\ fds \in SUBSET Slots /\ maps \in SUBSET Slots
  /\ slots \in SUBSET Slots /\ enabled \in SUBSET Slots
  /\ pollin \in SUBSET Slots
  /\ final \in BOOLEAN
  /\ snap \in Nat /\ parsed \in Nat
  /\ remaining \in Nat /\ elapsed \in Nat
  /\ ring \in [Slots -> Seq(Record)]
  /\ klost \in [Slots -> Nat] /\ offered \in [Slots -> Nat]
  /\ out \in Seq(RawEvent) /\ lost \in Nat /\ ignored \in Nat
  /\ cmd \in {"probe", "run", "write", "exit"}
  /\ sink \in {"stdout", "file"}
  /\ journal \in Seq(RawEvent)
  /\ exit \in {0, 1, None}

\* Which slots are open, mapped and enabled at each place of run().  The loop
\* that opens slots adds one that is not in the vector; the loop that releases
\* them has released all it has visited.
Held ==
  /\ pc = "probe" => fds = {} /\ maps = {} /\ enabled = {} /\ slots = {}
  /\ pc \in {"open", "mmap"} =>
       maps = slots /\ enabled = {} /\ slots \cap todo = {}
  /\ pc = "open" => fds = slots
  /\ pc = "mmap" => /\ slots \subseteq fds
                    /\ \A s \in Slots : AtFront(s) => fds = slots \cup {s}
  /\ pc \in {"enable", "poll", "drain", "drainloop"} =>
       fds = slots /\ maps = slots /\ enabled \subseteq slots
  /\ pc = "enable" => todo \subseteq slots
  /\ pc = "cleanup" =>
       fds = todo /\ maps = todo /\ enabled \subseteq todo /\ todo \subseteq slots
  /\ pc = "done" => fds = {} /\ maps = {} /\ enabled = {}

\* What run() can say of its capability, and how much it can have read.
Answer ==
  /\ pc \in {"probe", "open", "mmap"} => out = <<>> /\ lost = 0
  /\ pc \in {"enable", "poll", "drain", "drainloop", "cleanup"} => slots # {}
  /\ pc = "done" => \/ cap = "ready" /\ slots # {}
                    \/ cap = "skip" /\ slots = {} /\ out = <<>> /\ lost = 0

\* How far cmd_record has come, and what of `out' it has written.
Written ==
  /\ cmd = "probe" => pc = "probe"
  /\ cmd \in {"probe", "run"} => journal = <<>> /\ exit = None
  /\ cmd = "write" => /\ pc = "done" /\ exit = None
                      /\ Len(journal) <= Len(out)
                      /\ \A i \in 1 .. Len(journal) : journal[i] = out[i]
  /\ cmd = "exit" => \/ exit = 0 /\ pc = "done" /\ journal = out
                     \/ exit = 1 /\ pc = "probe" /\ journal = <<>>

\* The time poll() was given and has not used is still to be spent.
Budget == elapsed + remaining <= Duration

\* drain() stays below the head it has read, and the head below the kernel's.
Below ==
  pc = "drainloop" =>
    /\ parsed <= snap
    /\ \A s \in Slots : AtFront(s) => snap <= Len(ring[s])

\* The samples of slot s: o is `out', q its buffer, of which k records are
\* parsed, and c the number of records the kernel has tried to write.
Captured(o, s) == {i \in DOMAIN o : o[i].slot = s}
Waiting(q, k)  == {i \in DOMAIN q : k < i /\ q[i].kind = "sample"}

Ordered(o, q, k, s) ==
  /\ \A i, j \in Captured(o, s) : i < j => o[i].n < o[j].n
  /\ \A i, j \in Waiting(q, k) : i < j => q[i].n < q[j].n
  /\ \A i \in Captured(o, s), j \in Waiting(q, k) : o[i].n < q[j].n

Dated(o, q, k, c, s) ==
  /\ \A i \in Captured(o, s) : o[i].n <= c
  /\ \A i \in Waiting(q, k) : q[i].n <= c

\* Of the records m only the last can be a sample, and it is the one after c.
NewestLast(m, c) ==
  \A i \in 1 .. Len(m) : m[i].kind = "sample" => i = Len(m) /\ m[i].n = c + 1

Sequenced ==
  \A s \in Slots : /\ Ordered(out, ring[s], Read(s), s)
                   /\ Dated(out, ring[s], Read(s), offered[s], s)

IInv ==
  /\ TypeOK /\ Held /\ Answer /\ Written /\ Budget /\ Below /\ Sequenced
  /\ RecordsAccounted

-----------------------------------------------------------------------------
(* What the operators of the model return                                  *)

\* What the kernel writes ends with the record it was called for, the only one
\* of it that can be a sample; a report of dropped records may come before.
LEMMA MoreIs ==
  ASSUME TypeOK, NEW s \in Slots, NEW kind \in {"sample", "other"}
  PROVE  /\ More(s, kind) \in Seq(Record)
         /\ Len(More(s, kind)) \in {1, 2}
         /\ NewestLast(More(s, kind), offered[s])
<1> USE DEF NewestLast
<1> DEFINE r == [kind |-> kind, n |-> offered[s] + 1]
           l == [kind |-> "lost", n |-> klost[s]]
<1>1. r \in Record /\ l \in Record
  BY DEF TypeOK, Record
<1>2. CASE klost[s] = 0
  <2>1. More(s, kind) = <<r>>
    BY <1>2 DEF More
  <2> QED BY <2>1, <1>1
<1>3. CASE klost[s] # 0
  <2>1. More(s, kind) = <<l, r>>
    BY <1>3 DEF More
  <2>2. Len(<<l, r>>) = 2 /\ <<l, r>>[1] = l /\ <<l, r>>[2] = r
    OBVIOUS
  <2>3. l.kind # "sample" /\ r.n = offered[s] + 1
    OBVIOUS
  <2>4. <<l, r>> \in Seq(Record)
    BY <1>1
  <2> HIDE DEF l, r
  <2>5. \A i \in 1 .. 2 : i = 1 \/ i = 2
    OBVIOUS
  <2> QED BY <2>1, <2>2, <2>3, <2>4, <2>5
<1> QED BY <1>2, <1>3

\* The buffers after a step of the kernel: those of the other slots are as they
\* were, and slot s has what the kernel wrote, if there was room for it.
LEMMA EmitRing ==
  ASSUME TypeOK, NEW s \in Slots, NEW kind, Emit(s, kind)
  PROVE  /\ ring'[s] = ring[s] \/ ring'[s] = ring[s] \o More(s, kind)
         /\ offered'[s] = offered[s] + 1
         /\ \A t \in Slots : t # s => ring'[t] = ring[t] /\ offered'[t] = offered[t]
BY DEF TypeOK, Emit

\* Only one slot is at the front of a loop.
LEMMA OneFront ==
  ASSUME NEW s \in Slots, NEW t \in Slots, AtFront(s), AtFront(t)
  PROVE  s = t
BY CaptureAssumption DEF AtFront, Slots

\* A step of run() changes nothing of the command, and a step of the command
\* nothing of run(): the actions, one by one.
LEMMA StepCases ==
  ASSUME [RNext]_allVars
  PROVE  \/ UNCHANGED vars
         \/ cmd = "run" /\ UNCHANGED cmdVars
              /\ (Between \/ \E s \in Slots : AtSlot(s))
         \/ UNCHANGED cmdVars
              /\ \E s \in Slots, kind \in {"sample", "other"} : Emit(s, kind)
<1>1. CASE UNCHANGED allVars
  BY <1>1 DEF allVars
<1>2. CASE Command
  BY <1>2 DEF Command, RefuseToRecord, StartRun, InRun, Run, OpenJournal,
              WriteRow, Finish
<1>3. CASE Kernel /\ UNCHANGED cmdVars
  BY <1>3 DEF Kernel
<1>4. CASE Exited
  BY <1>4 DEF Exited, allVars
<1> QED BY <1>1, <1>2, <1>3, <1>4 DEF RNext
-----------------------------------------------------------------------------
(* Types                                                                   *)

\* Every step of run() keeps the types.
LEMMA TypesRun ==
  ASSUME TypeOK, Below, UNCHANGED cmdVars,
         Between \/ \E s \in Slots : AtSlot(s)
  PROVE  TypeOK'
<1> USE DEF TypeOK, Places, resources, kernel, clock, result, drain, cmdVars
<1>0. Slots \in SUBSET Slots /\ {} \in SUBSET Slots
  OBVIOUS
<1>1. CASE ProbeRefused \/ ProbeReady \/ NothingOpened \/ AllOpened \/ AllEnabled
  BY <1>0, <1>1 DEF ProbeRefused, ProbeReady, NothingOpened, AllOpened, AllEnabled
<1>2. Slice \in Nat /\ remaining - Slice \in Nat
  BY CaptureAssumption DEF Slice
<1>3. ASSUME NEW passed \in {0, Slice}, Spend(passed)
      PROVE  remaining' \in Nat /\ elapsed' \in Nat
  BY <1>2, <1>3 DEF Spend
<1>4. CASE PollTimeout
  BY <1>0, <1>3, <1>4 DEF PollTimeout
<1>5. CASE PollReady
  BY <1>0, <1>3, <1>5 DEF PollReady
<1>6. CASE PollInterrupted
  BY <1>0, <1>3, <1>6 DEF PollInterrupted
<1>7. CASE PollFails
  BY <1>3, <1>7 DEF PollFails
<1>8. CASE TimeIsUp \/ Drained \/ FinallyDrained \/ Return
  BY <1>8 DEF TimeIsUp, Drained, FinallyDrained, Return
<1>9. ASSUME NEW s \in Slots,
             OpenFails(s) \/ OpenSucceeds(s) \/ MmapFails(s) \/ MmapSucceeds(s)
               \/ Enable(s) \/ EnableFails(s) \/ Release(s)
      PROVE  TypeOK'
  <2>1. CASE OpenFails(s) \/ OpenSucceeds(s)
    BY <2>1 DEF OpenFails, OpenSucceeds
  <2>2. CASE MmapFails(s) \/ MmapSucceeds(s)
    BY <2>2 DEF MmapFails, MmapSucceeds
  <2>3. CASE Enable(s) \/ EnableFails(s)
    BY <2>3 DEF Enable, EnableFails
  <2>4. CASE Release(s)
    BY <2>4 DEF Release
  <2> QED BY <1>9, <2>1, <2>2, <2>3, <2>4
<1>10. ASSUME NEW s \in Slots, DrainBegin(s)
       PROVE  TypeOK'
  BY <1>10 DEF DrainBegin
<1>11. ASSUME NEW s \in Slots, DrainRecord(s)
       PROVE  TypeOK'
  <2> DEFINE r == ring[s][parsed + 1]
             e == [kind |-> "sample", slot |-> s, n |-> r.n]
  <2>1. parsed + 1 \in 1 .. Len(ring[s])
    BY <1>11 DEF DrainRecord, Below
  <2>2. r \in Record
    BY <2>1, ElementOfSeq
  <2>3. e \in RawEvent /\ r.n \in Nat
    BY <2>2 DEF Record, RawEvent
  <2>4. \/ out' = Append(out, e) /\ lost' = lost /\ ignored' = ignored
        \/ out' = out /\ lost' = lost + r.n /\ ignored' = ignored
        \/ out' = out /\ lost' = lost /\ ignored' = ignored + 1
    BY <1>11 DEF DrainRecord
  <2> HIDE DEF r, e
  <2>5. out' \in Seq(RawEvent)
    <3>1. out \in Seq(RawEvent)
      OBVIOUS
    <3>2. Append(out, e) \in Seq(RawEvent)
      BY <2>3, <3>1, AppendProperties
    <3> QED BY <2>4, <3>1, <3>2
  <2>6. lost' \in Nat /\ ignored' \in Nat
    BY <2>3, <2>4, SMTT(30)
  <2> QED BY <1>11, <2>5, <2>6 DEF DrainRecord
<1>12. ASSUME NEW s \in Slots, DrainEnd(s) \/ DrainRejects(s)
       PROVE  TypeOK'
  <2>1. Unread(s) \in Seq(Record)
    BY SubSeqProperties DEF Unread
  <2>2. ring' \in [Slots -> Seq(Record)]
    BY <1>12, <2>1 DEF DrainEnd, DrainRejects, StoreTail
  <2> QED BY <1>12, <2>2, SMTT(30) DEF DrainEnd, DrainRejects, StoreTail
<1> QED
  BY <1>1, <1>4, <1>5, <1>6, <1>7, <1>8, <1>9, <1>10, <1>11, <1>12
     DEF Between, AtSlot

\* The kernel keeps the types.
LEMMA TypesEmit ==
  ASSUME TypeOK, NEW s \in Slots, NEW kind \in {"sample", "other"},
         Emit(s, kind), UNCHANGED cmdVars
  PROVE  TypeOK'
<1>1. ring[s] \o More(s, kind) \in Seq(Record)
  BY MoreIs, ConcatProperties DEF TypeOK
<1>2. pollin' \in SUBSET Slots
  BY DEF Emit, TypeOK
<1>3. offered' \in [Slots -> Nat] /\ klost' \in [Slots -> Nat]
  BY DEF Emit, TypeOK
<1>4. ring' \in [Slots -> Seq(Record)]
  BY <1>1 DEF Emit, TypeOK
<1> QED
  BY <1>2, <1>3, <1>4
     DEF Emit, TypeOK, drain, resources, clock, result, cmdVars

\* The command around run() keeps them.
LEMMA TypesCommand ==
  ASSUME TypeOK, RNext, UNCHANGED vars
  PROVE  TypeOK'
<1> USE DEF TypeOK
<1>0. TypeOK' <=> /\ cmd' \in {"probe", "run", "write", "exit"}
                  /\ sink' \in {"stdout", "file"}
                  /\ journal' \in Seq(RawEvent)
                  /\ exit' \in {0, 1, None}
  BY DEF vars, drain, resources, kernel, clock, result
<1>1. CASE UNCHANGED cmdVars
  BY <1>0, <1>1 DEF cmdVars
<1>2. CASE RefuseToRecord \/ StartRun \/ OpenJournal \/ Finish
  BY <1>0, <1>2 DEF RefuseToRecord, StartRun, OpenJournal, Finish
<1>3. CASE WriteRow
  <2>1. Len(journal) + 1 \in 1 .. Len(out)
    BY <1>3, LenProperties DEF WriteRow
  <2>2. journal' \in Seq(RawEvent)
    BY <1>3, <2>1, ElementOfSeq, AppendProperties DEF WriteRow
  <2> QED BY <1>0, <1>3, <2>2 DEF WriteRow
<1> QED
  BY <1>1, <1>2, <1>3 DEF RNext, Command, InRun, Exited, allVars
-----------------------------------------------------------------------------
(* Descriptors, mappings and enabled events                                *)

\* Every step of run() keeps the account of the slots it holds.
LEMMA HeldRun ==
  ASSUME TypeOK, Held, Between \/ \E s \in Slots : AtSlot(s)
  PROVE  Held'
<1> USE DEF Held, resources
<1>1. CASE ProbeRefused \/ ProbeReady
  BY <1>1 DEF ProbeRefused, ProbeReady
<1>2. CASE NothingOpened \/ AllOpened \/ AllEnabled
  BY <1>2 DEF NothingOpened, AllOpened, AllEnabled
<1>3. CASE PollTimeout \/ PollReady \/ PollInterrupted \/ PollFails \/ TimeIsUp
  BY <1>3 DEF PollTimeout, PollReady, PollInterrupted, PollFails, TimeIsUp
<1>4. CASE Drained \/ FinallyDrained \/ Return
  BY <1>4 DEF Drained, FinallyDrained, Return
<1>5. ASSUME NEW s \in Slots, OpenFails(s)
      PROVE  Held'
  BY <1>5 DEF OpenFails
<1>6. ASSUME NEW s \in Slots, OpenSucceeds(s)
      PROVE  Held'
  <2>1. \A t \in Slots : AtFront(t)' => t = s
    BY <1>6, OneFront DEF OpenSucceeds, AtFront
  <2> QED BY <1>6, <2>1 DEF OpenSucceeds
<1>7. ASSUME NEW s \in Slots, MmapFails(s) \/ MmapSucceeds(s)
      PROVE  Held'
  <2>1. s \in todo /\ s \notin slots /\ fds = slots \cup {s} /\ maps = slots
    BY <1>7 DEF MmapFails, MmapSucceeds, AtFront
  <2> QED BY <1>7, <2>1 DEF MmapFails, MmapSucceeds
<1>8. ASSUME NEW s \in Slots, Enable(s) \/ EnableFails(s)
      PROVE  Held'
  BY <1>8 DEF Enable, EnableFails, AtFront
<1>9. ASSUME NEW s \in Slots,
             DrainBegin(s) \/ DrainRecord(s) \/ DrainEnd(s) \/ DrainRejects(s)
      PROVE  Held'
  BY <1>9 DEF DrainBegin, DrainRecord, DrainEnd, DrainRejects, StoreTail
<1>10. ASSUME NEW s \in Slots, Release(s)
       PROVE  Held'
  BY <1>10 DEF Release
<1> QED
  BY <1>1, <1>2, <1>3, <1>4, <1>5, <1>6, <1>7, <1>8, <1>9, <1>10
     DEF Between, AtSlot
-----------------------------------------------------------------------------
(* The answer of run() and the journal of the command                      *)

\* Every step of run() keeps what it can answer.
LEMMA AnswerRun ==
  ASSUME TypeOK, Answer, Held, Between \/ \E s \in Slots : AtSlot(s)
  PROVE  Answer'
<1> USE DEF Answer, resources, result
<1>1. CASE ProbeRefused \/ ProbeReady \/ NothingOpened \/ AllOpened \/ AllEnabled
  BY <1>1 DEF ProbeRefused, ProbeReady, NothingOpened, AllOpened, AllEnabled, Held
<1>2. CASE PollTimeout \/ PollReady \/ PollInterrupted \/ PollFails \/ TimeIsUp
  BY <1>2 DEF PollTimeout, PollReady, PollInterrupted, PollFails, TimeIsUp
<1>3. CASE Drained \/ FinallyDrained \/ Return
  BY <1>3 DEF Drained, FinallyDrained, Return
<1>4. ASSUME NEW s \in Slots, OpenFails(s) \/ OpenSucceeds(s)
               \/ MmapFails(s) \/ MmapSucceeds(s) \/ Enable(s) \/ EnableFails(s)
      PROVE  Answer'
  BY <1>4 DEF OpenFails, OpenSucceeds, MmapFails, MmapSucceeds, Enable, EnableFails
<1>5. ASSUME NEW s \in Slots,
             DrainBegin(s) \/ DrainRecord(s) \/ DrainEnd(s) \/ DrainRejects(s)
               \/ Release(s)
      PROVE  Answer'
  BY <1>5 DEF DrainBegin, DrainRecord, DrainEnd, DrainRejects, StoreTail, Release
<1> QED
  BY <1>1, <1>2, <1>3, <1>4, <1>5 DEF Between, AtSlot

\* The journal stays a prefix of the capture until the command ends.
LEMMA WrittenStep ==
  ASSUME TypeOK, Written, RNext
  PROVE  Written'
<1>1. CASE UNCHANGED allVars
  BY <1>1 DEF Written, allVars, vars, result, cmdVars
<1>2. CASE InRun
  BY <1>2 DEF InRun, Written, cmdVars
<1>3. CASE Kernel /\ UNCHANGED cmdVars
  BY <1>3 DEF Kernel, Emit, Written, cmdVars, result
<1>4. CASE RefuseToRecord \/ StartRun \/ OpenJournal
  <2>1. Len(<<>>) = 0 /\ Len(out) \in Nat
    BY LenProperties DEF TypeOK
  <2> QED BY <1>4, <2>1 DEF RefuseToRecord, StartRun, OpenJournal, Written,
                            vars, result, None
<1>5. CASE WriteRow
  <2>1. /\ Len(journal') = Len(journal) + 1
        /\ \A i \in 1 .. Len(journal) : journal'[i] = journal[i]
        /\ journal'[Len(journal) + 1] = out[Len(journal) + 1]
    BY <1>5, AppendProperties, LenProperties DEF WriteRow, TypeOK
  <2>2. Len(journal) \in Nat /\ Len(out) \in Nat
    BY LenProperties DEF TypeOK
  <2>3. Len(journal') <= Len(out)
    BY <1>5, <2>1, <2>2 DEF WriteRow
  <2>4. \A i \in 1 .. Len(journal') : journal'[i] = out[i]
    BY <1>5, <2>1, <2>2 DEF WriteRow, Written
  <2> QED BY <1>5, <2>3, <2>4 DEF WriteRow, Written, vars, result
<1>6. CASE Finish
  <2>1. journal = out
    BY <1>6, SeqEqual DEF Finish, Written, TypeOK
  <2> QED BY <1>6, <2>1 DEF Finish, vars, result, Written
<1> QED
  BY <1>1, <1>2, <1>3, <1>4, <1>5, <1>6 DEF RNext, Command, Exited
-----------------------------------------------------------------------------
(* The clock, and drain()'s place in the buffer                            *)

\* A slice is taken off before poll() can have used it up.
LEMMA BudgetRun ==
  ASSUME TypeOK, Budget, Between \/ \E s \in Slots : AtSlot(s)
  PROVE  Budget'
<1> USE DEF Budget, clock
<1>1. Slice \in Nat /\ Slice <= remaining
  BY CaptureAssumption DEF Slice, TypeOK
<1>2. ASSUME NEW passed \in {0, Slice}, Spend(passed)
      PROVE  Budget'
  BY <1>1, <1>2, CaptureAssumption DEF Spend, TypeOK
<1>3. CASE PollTimeout \/ PollReady \/ PollInterrupted \/ PollFails
  BY <1>2, <1>3 DEF PollTimeout, PollReady, PollInterrupted, PollFails
<1>4. CASE ProbeRefused \/ ProbeReady \/ NothingOpened \/ AllOpened \/ AllEnabled
             \/ TimeIsUp \/ Drained \/ FinallyDrained \/ Return
  BY <1>4 DEF ProbeRefused, ProbeReady, NothingOpened, AllOpened, AllEnabled,
              TimeIsUp, Drained, FinallyDrained, Return
<1>5. ASSUME NEW s \in Slots, AtSlot(s)
      PROVE  Budget'
  BY <1>5 DEF AtSlot, OpenFails, OpenSucceeds, MmapFails, MmapSucceeds, Enable,
              EnableFails, DrainBegin, DrainRecord, DrainEnd, DrainRejects,
              StoreTail, Release
<1> QED BY <1>3, <1>4, <1>5 DEF Between

\* drain() does not pass the head it has read.
LEMMA BelowRun ==
  ASSUME TypeOK, Below, Between \/ \E s \in Slots : AtSlot(s)
  PROVE  Below'
<1>1. CASE Between
  BY <1>1 DEF Below, Between, ProbeRefused, ProbeReady, NothingOpened, AllOpened,
              AllEnabled, PollTimeout, PollReady, PollInterrupted, PollFails,
              TimeIsUp, Drained, FinallyDrained, Return
<1>2. ASSUME NEW s \in Slots, DrainBegin(s)
      PROVE  Below'
  <2>1. Len(ring[s]) \in Nat
    BY LenProperties DEF TypeOK
  <2>2. \A t \in Slots : AtFront(t)' => t = s
    BY <1>2, OneFront DEF DrainBegin, AtFront
  <2> QED BY <1>2, <2>1, <2>2 DEF DrainBegin, Below, kernel
<1>3. ASSUME NEW s \in Slots, DrainRecord(s)
      PROVE  Below'
  BY <1>3 DEF DrainRecord, Below, AtFront, TypeOK, kernel
<1>4. ASSUME NEW s \in Slots, DrainEnd(s) \/ DrainRejects(s) \/ OpenFails(s)
               \/ OpenSucceeds(s) \/ MmapFails(s) \/ MmapSucceeds(s)
               \/ Enable(s) \/ EnableFails(s) \/ Release(s)
      PROVE  Below'
  BY <1>4 DEF Below, DrainEnd, DrainRejects, StoreTail, OpenFails, OpenSucceeds,
              MmapFails, MmapSucceeds, Enable, EnableFails, Release
<1> QED BY <1>1, <1>2, <1>3, <1>4 DEF AtSlot

\* The kernel only adds records behind the head that drain() has read.
LEMMA BelowEmit ==
  ASSUME TypeOK, Below, NEW s \in Slots, NEW kind \in {"sample", "other"},
         Emit(s, kind)
  PROVE  Below'
<1>1. \A t \in Slots : Len(ring[t]) \in Nat
  BY LenProperties DEF TypeOK
<1>2. Len(ring[s] \o More(s, kind)) = Len(ring[s]) + Len(More(s, kind))
      /\ Len(More(s, kind)) \in Nat
  BY MoreIs, ConcatProperties DEF TypeOK
<1>3. \A t \in Slots : Len(ring'[t]) \in Nat /\ Len(ring[t]) <= Len(ring'[t])
  BY <1>1, <1>2, EmitRing
<1>4. UNCHANGED <<pc, todo, snap, parsed>>
  BY DEF Emit, drain
<1> QED BY <1>1, <1>3, <1>4 DEF Below, AtFront, TypeOK
-----------------------------------------------------------------------------
(* The order of a slot's samples                                           *)

\* Passing over records keeps the order of the rest.
LEMMA OrderSkip ==
  ASSUME NEW o, NEW q \in Seq(Record), NEW k \in Nat, NEW m \in Nat, k <= m,
         NEW c, NEW s, Ordered(o, q, k, s), Dated(o, q, k, c, s)
  PROVE  Ordered(o, q, m, s) /\ Dated(o, q, m, c, s)
<1>1. DOMAIN q \subseteq Nat
  BY LenProperties
<1>2. Waiting(q, m) \subseteq Waiting(q, k)
  BY <1>1 DEF Waiting
<1> QED BY <1>2 DEF Ordered, Dated

\* The event made of the first unparsed sample is younger than all events of
\* its slot and older than all samples behind it.
LEMMA OrderRead ==
  ASSUME NEW o \in Seq(RawEvent), NEW q \in Seq(Record), NEW k \in Nat,
         NEW c \in Nat, NEW s, NEW e \in RawEvent,
         k + 1 \in DOMAIN q, q[k + 1].kind = "sample",
         e.slot = s, e.n = q[k + 1].n,
         Ordered(o, q, k, s), Dated(o, q, k, c, s)
  PROVE  Ordered(Append(o, e), q, k + 1, s) /\ Dated(Append(o, e), q, k + 1, c, s)
<1> DEFINE p == Append(o, e)
           L == Len(o) + 1
<1>1. /\ DOMAIN o = 1 .. Len(o) /\ Len(o) \in Nat
      /\ DOMAIN q = 1 .. Len(q) /\ Len(q) \in Nat
  BY LenProperties
<1>2. /\ DOMAIN p = 1 .. L
      /\ \A i \in 1 .. Len(o) : p[i] = o[i]
      /\ p[L] = e
  BY AppendProperties, LenProperties
<1> HIDE DEF p
<1>3. k + 1 \in Waiting(q, k)
  BY DEF Waiting
<1>4. /\ Waiting(q, k + 1) \subseteq Waiting(q, k)
      /\ \A j \in Waiting(q, k + 1) : j \in Nat /\ k + 1 < j
  BY <1>1 DEF Waiting
<1>5. \A i \in Captured(p, s) : i = L \/ (i \in Captured(o, s) /\ i < L /\ p[i] = o[i])
  BY <1>1, <1>2 DEF Captured
<1>6. /\ \A i \in Captured(o, s) : o[i].n < e.n /\ o[i].n <= c
      /\ \A j \in Waiting(q, k + 1) : e.n < q[j].n
      /\ e.n <= c
  BY <1>3, <1>4 DEF Ordered, Dated
<1>7. \A i, j \in Captured(p, s) : i < j => p[i].n < p[j].n
  <2> SUFFICES ASSUME NEW i \in Captured(p, s), NEW j \in Captured(p, s), i < j
               PROVE  p[i].n < p[j].n
    OBVIOUS
  <2>1. i \in 1 .. L /\ j \in 1 .. L
    BY <1>2 DEF Captured
  <2>2. i \in Captured(o, s) /\ p[i] = o[i]
    BY <1>1, <1>5, <2>1
  <2>3. CASE j = L
    BY <1>2, <1>6, <2>2, <2>3
  <2>4. CASE j \in Captured(o, s) /\ p[j] = o[j]
    BY <2>2, <2>4 DEF Ordered
  <2> QED BY <1>5, <2>3, <2>4
<1>8. \A i, j \in Waiting(q, k + 1) : i < j => q[i].n < q[j].n
  BY <1>4 DEF Ordered
<1>9. \A i \in Captured(p, s), j \in Waiting(q, k + 1) : p[i].n < q[j].n
  BY <1>2, <1>4, <1>5, <1>6 DEF Ordered
<1>10. Ordered(p, q, k + 1, s)
  BY <1>7, <1>8, <1>9 DEF Ordered
<1>11. Dated(p, q, k + 1, c, s)
  BY <1>2, <1>4, <1>5, <1>6 DEF Dated
<1> QED BY <1>10, <1>11 DEF p

\* An event of another slot does not matter.
LEMMA OrderOther ==
  ASSUME NEW o \in Seq(RawEvent), NEW q, NEW k, NEW c, NEW s,
         NEW e \in RawEvent, e.slot # s,
         Ordered(o, q, k, s), Dated(o, q, k, c, s)
  PROVE  Ordered(Append(o, e), q, k, s) /\ Dated(Append(o, e), q, k, c, s)
<1>1. /\ DOMAIN Append(o, e) = 1 .. Len(o) + 1
      /\ \A i \in 1 .. Len(o) : Append(o, e)[i] = o[i]
      /\ Append(o, e)[Len(o) + 1] = e
      /\ DOMAIN o = 1 .. Len(o) /\ Len(o) \in Nat
  BY AppendProperties, LenProperties
<1>2. /\ Captured(Append(o, e), s) = Captured(o, s)
      /\ \A i \in Captured(o, s) : Append(o, e)[i] = o[i]
  BY <1>1 DEF Captured
<1>3. Ordered(Append(o, e), q, k, s)
  <2>1. \A i, j \in Captured(Append(o, e), s) :
          i < j => Append(o, e)[i].n < Append(o, e)[j].n
    <3> SUFFICES ASSUME NEW i \in Captured(o, s), NEW j \in Captured(o, s), i < j
                 PROVE  Append(o, e)[i].n < Append(o, e)[j].n
      BY <1>2
    <3>1. o[i].n < o[j].n
      BY DEF Ordered
    <3> QED BY <1>2, <3>1
  <2>2. \A i \in Captured(Append(o, e), s), j \in Waiting(q, k) :
          Append(o, e)[i].n < q[j].n
    <3> SUFFICES ASSUME NEW i \in Captured(o, s), NEW j \in Waiting(q, k)
                 PROVE  Append(o, e)[i].n < q[j].n
      BY <1>2
    <3>1. o[i].n < q[j].n
      BY DEF Ordered
    <3> QED BY <1>2, <3>1
  <2>3. \A i, j \in Waiting(q, k) : i < j => q[i].n < q[j].n
    BY DEF Ordered
  <2> QED BY <2>1, <2>2, <2>3 DEF Ordered
<1>4. Dated(Append(o, e), q, k, c, s)
  BY <1>2, Zenon DEF Dated
<1> QED BY <1>3, <1>4

\* What is left of a buffer above its first k records.
LEMMA RestIs ==
  ASSUME NEW q \in Seq(Record), NEW k \in Nat, k <= Len(q)
  PROVE  LET u == SubSeq(q, k + 1, Len(q))
         IN  /\ u \in Seq(Record) /\ Len(u) = Len(q) - k
             /\ \A i \in 1 .. Len(q) - k : u[i] = q[k + i]
<1> DEFINE u == SubSeq(q, k + 1, Len(q))
<1>0. DOMAIN q = 1 .. Len(q) /\ Len(q) \in Nat
  BY LenProperties
<1>1. \A i \in k + 1 .. Len(q) : q[i] \in Record
  BY <1>0, ElementOfSeq
<1>2. /\ u \in Seq(Record)
      /\ Len(u) = IF k + 1 <= Len(q) THEN Len(q) - (k + 1) + 1 ELSE 0
      /\ \A i \in 1 .. Len(q) - (k + 1) + 1 : u[i] = q[(k + 1) + i - 1]
  BY <1>0, <1>1, SubSeqProperties
<1>3. \A i \in 1 .. Len(q) - k :
        i \in 1 .. Len(q) - (k + 1) + 1 /\ (k + 1) + i - 1 = k + i
  BY <1>0
<1> HIDE DEF u
<1>4. \A i \in 1 .. Len(q) - k : u[i] = q[k + i]
  BY <1>2, <1>3
<1>5. Len(u) = Len(q) - k
  <2>1. CASE k + 1 <= Len(q)
    BY <1>0, <1>2, <2>1
  <2>2. CASE ~(k + 1 <= Len(q))
    <3>1. Len(u) = 0
      BY <1>2, <2>2
    <3>2. \A a, b \in Nat : b <= a /\ ~(b + 1 <= a) => a - b = 0
      OBVIOUS
    <3>3. Len(q) - k = 0
      BY <1>0, <2>2, <3>2
    <3> QED BY <3>1, <3>3
  <2> QED BY <2>1, <2>2
<1> QED BY <1>2, <1>4, <1>5 DEF u

\* Storing data_tail drops the parsed records and keeps the order of the rest.
LEMMA OrderStore ==
  ASSUME NEW o, NEW q \in Seq(Record), NEW k \in Nat, k <= Len(q), NEW c, NEW s,
         Ordered(o, q, k, s), Dated(o, q, k, c, s)
  PROVE  /\ Ordered(o, SubSeq(q, k + 1, Len(q)), 0, s)
         /\ Dated(o, SubSeq(q, k + 1, Len(q)), 0, c, s)
<1> DEFINE u == SubSeq(q, k + 1, Len(q))
<1>1. DOMAIN q = 1 .. Len(q) /\ Len(q) \in Nat
  BY LenProperties
<1>2. /\ u \in Seq(Record) /\ Len(u) = Len(q) - k
      /\ \A i \in 1 .. Len(q) - k : u[i] = q[k + i]
  BY RestIs
<1> HIDE DEF u
<1>3. DOMAIN u = 1 .. Len(q) - k
  BY <1>2, LenProperties
<1>4. \A i \in Waiting(u, 0) : i \in Nat /\ k + i \in Waiting(q, k) /\ u[i] = q[k + i]
  BY <1>1, <1>2, <1>3 DEF Waiting
<1>5. \A i, j \in Waiting(u, 0) : i < j => u[i].n < u[j].n
  BY <1>4 DEF Ordered
<1>6. \A i \in Captured(o, s), j \in Waiting(u, 0) : o[i].n < u[j].n
  BY <1>4 DEF Ordered
<1>7. \A i \in Waiting(u, 0) : u[i].n <= c
  BY <1>4 DEF Dated
<1>8. Ordered(o, u, 0, s) /\ Dated(o, u, 0, c, s)
  BY <1>5, <1>6, <1>7 DEF Ordered, Dated
<1> QED BY <1>8 DEF u

\* A record the kernel writes is younger than all of its slot.
LEMMA OrderMore ==
  ASSUME NEW o \in Seq(RawEvent), NEW q \in Seq(Record), NEW k \in Nat,
         NEW c \in Nat, NEW s, NEW m \in Seq(Record),
         NewestLast(m, c),
         Ordered(o, q, k, s), Dated(o, q, k, c, s)
  PROVE  Ordered(o, q \o m, k, s) /\ Dated(o, q \o m, k, c + 1, s)
<1> DEFINE r == q \o m
<1>1. /\ DOMAIN q = 1 .. Len(q) /\ Len(q) \in Nat
      /\ DOMAIN m = 1 .. Len(m) /\ Len(m) \in Nat
  BY LenProperties
<1>2. /\ DOMAIN r = 1 .. Len(q) + Len(m)
      /\ \A i \in 1 .. Len(q) + Len(m) :
           r[i] = IF i <= Len(q) THEN q[i] ELSE m[i - Len(q)]
  BY ConcatProperties, LenProperties
<1> HIDE DEF r
<1>3. \A i \in Waiting(r, k) :
        \/ i \in Waiting(q, k) /\ r[i] = q[i] /\ i <= Len(q)
        \/ i = Len(q) + Len(m) /\ r[i].n = c + 1
  <2> SUFFICES ASSUME NEW i \in Waiting(r, k)
               PROVE  \/ i \in Waiting(q, k) /\ r[i] = q[i] /\ i <= Len(q)
                      \/ i = Len(q) + Len(m) /\ r[i].n = c + 1
    OBVIOUS
  <2>1. i \in 1 .. Len(q) + Len(m) /\ k < i /\ r[i].kind = "sample"
    BY <1>2 DEF Waiting
  <2>2. CASE i <= Len(q)
    BY <1>1, <1>2, <2>1, <2>2 DEF Waiting
  <2>3. CASE ~(i <= Len(q))
    <3>1. i - Len(q) \in 1 .. Len(m)
      BY <1>1, <2>1, <2>3
    <3>2. r[i] = m[i - Len(q)]
      BY <1>2, <2>1, <2>3
    <3>3. i - Len(q) = Len(m) /\ r[i].n = c + 1
      BY <2>1, <3>1, <3>2 DEF NewestLast
    <3> QED BY <1>1, <2>1, <3>3
  <2> QED BY <2>2, <2>3
<1>4. /\ \A i \in Waiting(q, k) : q[i].n < c + 1 /\ q[i].n <= c + 1
      /\ \A i \in Captured(o, s) : o[i].n < c + 1 /\ o[i].n <= c + 1
  <2>1. \A i \in Waiting(q, k) : q[i].n \in Nat /\ q[i].n <= c
    <3>1. \A i \in Waiting(q, k) : q[i] \in Record
      BY <1>1, ElementOfSeq DEF Waiting
    <3> QED BY <3>1 DEF Record, Dated
  <2>2. \A i \in Captured(o, s) : o[i].n \in Nat /\ o[i].n <= c
    <3>1. \A i \in Captured(o, s) : o[i] \in RawEvent
      BY LenProperties, ElementOfSeq DEF Captured
    <3> QED BY <3>1 DEF RawEvent, Dated
  <2>3. \A x \in Nat : x <= c => x < c + 1 /\ x <= c + 1
    OBVIOUS
  <2> QED BY <2>1, <2>2, <2>3
<1>5. \A i, j \in Waiting(r, k) : i < j => r[i].n < r[j].n
  <2> SUFFICES ASSUME NEW i \in Waiting(r, k), NEW j \in Waiting(r, k), i < j
               PROVE  r[i].n < r[j].n
    OBVIOUS
  <2>1. i \in 1 .. Len(q) + Len(m) /\ j \in 1 .. Len(q) + Len(m)
    BY <1>2 DEF Waiting
  <2>2. i \in Waiting(q, k) /\ r[i] = q[i]
    BY <1>1, <1>3, <2>1
  <2>3. CASE j \in Waiting(q, k) /\ r[j] = q[j]
    BY <2>2, <2>3 DEF Ordered
  <2>4. CASE r[j].n = c + 1
    BY <1>4, <2>2, <2>4
  <2> QED BY <1>3, <2>3, <2>4
<1>6. \A i \in Captured(o, s), j \in Waiting(r, k) : o[i].n < r[j].n
  BY <1>3, <1>4 DEF Ordered
<1>7. Ordered(o, r, k, s)
  BY <1>5, <1>6 DEF Ordered
<1>8. Dated(o, r, k, c + 1, s)
  BY <1>3, <1>4 DEF Dated
<1> QED BY <1>7, <1>8 DEF r

\* A step of run() that is not one of drain() leaves the events, the buffers
\* and what is parsed of them alone.
LEMMA ReadAlone ==
  ASSUME pc # "drainloop", pc' # "drainloop", UNCHANGED <<ring, out, offered>>,
         Sequenced
  PROVE  Sequenced'
<1>1. \A s \in Slots : Read(s) = 0 /\ Read(s)' = 0
  BY DEF Read
<1>2. \A s \in Slots : /\ Ordered(out', ring'[s], Read(s)', s)
                       /\ Dated(out', ring'[s], Read(s)', offered'[s], s)
  BY <1>1 DEF Sequenced
<1> QED BY <1>2 DEF Sequenced

\* Every step of run() keeps the order of each slot's samples.
LEMMA SequencedRun ==
  ASSUME TypeOK, Below, Sequenced, Between \/ \E s \in Slots : AtSlot(s)
  PROVE  Sequenced'
<1>1. CASE Between
  <2>1. pc # "drainloop" /\ pc' # "drainloop" /\ UNCHANGED <<ring, out, offered>>
    BY <1>1 DEF Between, ProbeRefused, ProbeReady, NothingOpened, AllOpened,
       AllEnabled, PollTimeout, PollReady, PollInterrupted, PollFails, TimeIsUp,
       Drained, FinallyDrained, Return, kernel, result
  <2> QED BY <2>1, ReadAlone
<1>2. ASSUME NEW s \in Slots, OpenFails(s) \/ OpenSucceeds(s) \/ MmapFails(s)
               \/ MmapSucceeds(s) \/ Enable(s) \/ EnableFails(s) \/ Release(s)
      PROVE  Sequenced'
  <2>1. pc # "drainloop" /\ pc' # "drainloop" /\ UNCHANGED <<ring, out, offered>>
    BY <1>2 DEF OpenFails, OpenSucceeds, MmapFails, MmapSucceeds, Enable,
       EnableFails, Release, kernel, result
  <2> QED BY <2>1, ReadAlone
<1>3. ASSUME NEW s \in Slots, DrainBegin(s)
      PROVE  Sequenced'
  <2>1. UNCHANGED <<ring, out, offered>> /\ parsed' = 0 /\ pc # "drainloop"
    BY <1>3 DEF DrainBegin, kernel, result
  <2>2. \A t \in Slots : Read(t) = 0 /\ Read(t)' = 0
    BY <2>1 DEF Read
  <2>3. \A t \in Slots : /\ Ordered(out', ring'[t], Read(t)', t)
                         /\ Dated(out', ring'[t], Read(t)', offered'[t], t)
    BY <2>1, <2>2 DEF Sequenced
  <2> QED BY <2>3 DEF Sequenced
<1>4. ASSUME NEW s \in Slots, DrainRecord(s)
      PROVE  Sequenced'
  <2> DEFINE r == ring[s][parsed + 1]
             e == [kind |-> "sample", slot |-> s, n |-> r.n]
  <2>1. /\ AtFront(s) /\ pc = "drainloop" /\ pc' = "drainloop"
        /\ UNCHANGED <<ring, offered, todo>> /\ parsed' = parsed + 1
        /\ parsed \in Nat /\ ring[s] \in Seq(Record) /\ offered[s] \in Nat
        /\ out \in Seq(RawEvent)
    BY <1>4 DEF DrainRecord, kernel, TypeOK
  <2>2. parsed + 1 \in DOMAIN ring[s]
    <3>1. snap \in Nat /\ Len(ring[s]) \in Nat /\ DOMAIN ring[s] = 1 .. Len(ring[s])
      BY <2>1, LenProperties DEF TypeOK
    <3>2. parsed < snap /\ snap <= Len(ring[s])
      BY <1>4, <2>1 DEF DrainRecord, Below
    <3> QED BY <2>1, <3>1, <3>2
  <2>3. r \in Record
    BY <2>1, <2>2, LenProperties, ElementOfSeq
  <2>4. e \in RawEvent /\ e.slot = s /\ e.n = r.n
    BY <2>3 DEF Record, RawEvent
  <2>5. \/ r.kind = "sample" /\ out' = Append(out, e)
        \/ out' = out
    BY <1>4 DEF DrainRecord
  <2>6. Read(s) = parsed /\ Read(s)' = parsed + 1
    BY <2>1 DEF Read, AtFront
  <2> HIDE DEF r, e
  <2>7. Ordered(out', ring[s], parsed + 1, s)
        /\ Dated(out', ring[s], parsed + 1, offered[s], s)
    <3>1. Ordered(out, ring[s], parsed, s) /\ Dated(out, ring[s], parsed, offered[s], s)
      BY <2>6 DEF Sequenced
    <3>2. CASE r.kind = "sample" /\ out' = Append(out, e)
      BY <2>1, <2>2, <2>4, <3>1, <3>2, OrderRead DEF r
    <3>3. CASE out' = out
      <4>1. parsed + 1 \in Nat /\ parsed <= parsed + 1
        BY <2>1
      <4> QED BY <2>1, <3>1, <3>3, <4>1, OrderSkip
    <3> QED BY <2>5, <3>2, <3>3
  <2>8. ASSUME NEW t \in Slots, t # s
        PROVE  Ordered(out', ring[t], Read(t)', t)
               /\ Dated(out', ring[t], Read(t)', offered[t], t)
    <3>1. Read(t) = 0 /\ Read(t)' = 0
      <4>1. ~AtFront(t)
        BY <2>1, <2>8, OneFront
      <4>2. ~AtFront(t)'
        BY <2>1, <4>1 DEF AtFront
      <4> QED BY <4>1, <4>2 DEF Read
    <3>2. Ordered(out, ring[t], 0, t) /\ Dated(out, ring[t], 0, offered[t], t)
      BY <3>1 DEF Sequenced
    <3>3. CASE out' = out
      BY <3>1, <3>2, <3>3
    <3>4. CASE out' = Append(out, e)
      BY <2>1, <2>4, <2>8, <3>1, <3>2, <3>4, OrderOther
    <3> QED BY <2>5, <3>3, <3>4
  <2>9. \A t \in Slots : /\ Ordered(out', ring'[t], Read(t)', t)
                         /\ Dated(out', ring'[t], Read(t)', offered'[t], t)
    BY <2>1, <2>6, <2>7, <2>8
  <2> QED BY <2>9 DEF Sequenced
<1>5. ASSUME NEW s \in Slots, DrainEnd(s) \/ DrainRejects(s)
      PROVE  Sequenced'
  <2>1. /\ AtFront(s) /\ pc = "drainloop" /\ pc' = "drain" /\ StoreTail(s)
        /\ UNCHANGED <<out, offered>> /\ parsed <= snap
    BY <1>5 DEF DrainEnd, DrainRejects, StoreTail, result, Below
  <2>2. /\ parsed \in Nat /\ snap \in Nat /\ ring[s] \in Seq(Record)
        /\ Len(ring[s]) \in Nat /\ snap <= Len(ring[s])
    BY <2>1, LenProperties DEF TypeOK, Below
  <2>3. parsed <= Len(ring[s])
    BY <2>1, <2>2
  <2>4. /\ ring'[s] = SubSeq(ring[s], parsed + 1, Len(ring[s]))
        /\ \A t \in Slots : t # s => ring'[t] = ring[t]
    BY <2>1 DEF StoreTail, Unread, TypeOK
  <2>5. \A t \in Slots : Read(t)' = 0
    BY <2>1 DEF Read
  <2>6. Ordered(out, ring[s], parsed, s) /\ Dated(out, ring[s], parsed, offered[s], s)
    BY <2>1 DEF Sequenced, Read
  <2>7. Ordered(out, ring'[s], 0, s) /\ Dated(out, ring'[s], 0, offered[s], s)
    BY <2>2, <2>3, <2>4, <2>6, OrderStore
  <2>8. ASSUME NEW t \in Slots, t # s
        PROVE  Ordered(out, ring'[t], 0, t) /\ Dated(out, ring'[t], 0, offered[t], t)
    <3>1. Read(t) = 0
      BY <2>1, <2>8, OneFront DEF Read
    <3> QED BY <2>4, <2>8, <3>1 DEF Sequenced
  <2>9. \A t \in Slots : /\ Ordered(out', ring'[t], Read(t)', t)
                         /\ Dated(out', ring'[t], Read(t)', offered'[t], t)
    BY <2>1, <2>5, <2>7, <2>8
  <2> QED BY <2>9 DEF Sequenced
<1> QED BY <1>1, <1>2, <1>3, <1>4, <1>5 DEF AtSlot

\* The kernel keeps it too.
LEMMA SequencedEmit ==
  ASSUME TypeOK, Sequenced, NEW s \in Slots, NEW kind \in {"sample", "other"},
         Emit(s, kind)
  PROVE  Sequenced'
<1>1. UNCHANGED <<pc, todo, parsed, out>>
  BY DEF Emit, drain, result
<1>2. \A t \in Slots : Read(t)' = Read(t) /\ Read(t) \in Nat
  BY <1>1 DEF Read, AtFront, TypeOK
<1>3. /\ out \in Seq(RawEvent)
      /\ \A t \in Slots : ring[t] \in Seq(Record) /\ offered[t] \in Nat
  BY DEF TypeOK
<1>4. Ordered(out, ring[s], Read(s), s) /\ Dated(out, ring[s], Read(s), offered[s], s)
  BY DEF Sequenced
<1>5. Ordered(out, ring'[s], Read(s), s)
      /\ Dated(out, ring'[s], Read(s), offered[s] + 1, s)
  <2>1. CASE ring'[s] = ring[s] \o More(s, kind)
    <3>1. More(s, kind) \in Seq(Record) /\ NewestLast(More(s, kind), offered[s])
      BY MoreIs
    <3> QED BY <1>2, <1>3, <1>4, <2>1, <3>1, OrderMore
  <2>2. CASE ring'[s] = ring[s]
    <3>1. <<>> \in Seq(Record) /\ ring[s] \o <<>> = ring[s]
          /\ NewestLast(<<>>, offered[s])
      BY <1>3, ConcatEmptySeq DEF NewestLast
    <3>2. Ordered(out, ring[s] \o <<>>, Read(s), s)
          /\ Dated(out, ring[s] \o <<>>, Read(s), offered[s] + 1, s)
      BY <1>2, <1>3, <1>4, <3>1, OrderMore
    <3> QED BY <2>2, <3>1, <3>2
  <2> QED BY <2>1, <2>2, EmitRing
<1>6. \A t \in Slots : /\ Ordered(out', ring'[t], Read(t)', t)
                       /\ Dated(out', ring'[t], Read(t)', offered'[t], t)
  BY <1>1, <1>2, <1>5, EmitRing DEF Sequenced
<1> QED BY <1>6 DEF Sequenced
-----------------------------------------------------------------------------
(* Every record in one place                                               *)

Units(f) == UNION { {i} \X (1 .. f[i]) : i \in DOMAIN f }

\* What the records of buffer q behind the first k stand for.
Value(r) == IF r.kind = "lost" THEN r.n ELSE 1
Behind(q, k) == {i \in DOMAIN q : k < i}
WorthOf(q, k) == Total([i \in Behind(q, k) |-> Value(q[i])])

\* A sum of finitely many counts is a number.
LEMMA TotalNumber ==
  ASSUME NEW S, IsFiniteSet(S), NEW f \in [S -> Nat]
  PROVE  IsFiniteSet(Units(f)) /\ Total(f) = Cardinality(Units(f)) /\ Total(f) \in Nat
<1> DEFINE parts == { {i} \X (1 .. f[i]) : i \in S }
           part  == [i \in S |-> {i} \X (1 .. f[i])]
<1>1. part \in Surjection(S, parts)
  BY DEF Surjection
<1>2. IsFiniteSet(parts)
  BY <1>1, FS_Surjection
<1>3. ASSUME NEW i \in S PROVE IsFiniteSet({i} \X (1 .. f[i]))
  <2>1. f[i] \in Int /\ 1 \in Int
    OBVIOUS
  <2>2. IsFiniteSet(1 .. f[i]) /\ IsFiniteSet({i})
    BY <2>1, FS_Interval, FS_Singleton
  <2> QED BY <2>2, FS_Product
<1>4. \A T \in parts : IsFiniteSet(T)
  BY <1>3
<1> HIDE DEF parts
<1>5. IsFiniteSet(UNION parts)
  BY <1>2, <1>4, FS_UNION
<1>6. Units(f) = UNION parts
  BY Zenon DEF Units, parts
<1> QED BY <1>5, <1>6, FS_CardinalityType DEF Total, Units

\* One more counter adds its count.
LEMMA TotalAdd ==
  ASSUME NEW S, IsFiniteSet(S), NEW x, x \notin S,
         NEW f \in [S -> Nat], NEW g \in [S \cup {x} -> Nat],
         \A i \in S : g[i] = f[i]
  PROVE  Total(g) = Total(f) + g[x]
<1> DEFINE new == {x} \X (1 .. g[x])
           n == g[x]
<1>1. IsFiniteSet(S \cup {x})
  BY FS_AddElement
<1>2. /\ IsFiniteSet(Units(f)) /\ Total(f) = Cardinality(Units(f)) /\ Total(f) \in Nat
      /\ Total(g) = Cardinality(Units(g))
  BY <1>1, TotalNumber
<1>3. IsFiniteSet(new) /\ Cardinality(new) = n /\ n \in Nat
  <2>1. n \in Nat /\ n \in Int /\ 1 \in Int
    OBVIOUS
  <2> HIDE DEF n
  <2>2. IsFiniteSet(1 .. n) /\ Cardinality(1 .. n) = n
    BY <2>1, FS_Interval
  <2>3. IsFiniteSet({x}) /\ Cardinality({x}) = 1
    BY FS_Singleton
  <2>4. /\ IsFiniteSet({x} \X (1 .. n))
        /\ Cardinality({x} \X (1 .. n)) = Cardinality({x}) * Cardinality(1 .. n)
    BY <2>2, <2>3, FS_Product, Zenon
  <2>5. Cardinality({x} \X (1 .. n)) = 1 * n
    BY <2>2, <2>3, <2>4
  <2> QED BY <2>1, <2>4, <2>5 DEF n
<1>4. Units(g) = Units(f) \cup new
  <2>1. Units(g) = UNION { {i} \X (1 .. g[i]) : i \in S \cup {x} }
    BY DEF Units
  <2>2. Units(f) = UNION { {i} \X (1 .. g[i]) : i \in S }
    <3>1. { {i} \X (1 .. g[i]) : i \in S } = { {i} \X (1 .. f[i]) : i \in S }
      OBVIOUS
    <3> QED BY <3>1 DEF Units
  <2> QED BY <2>1, <2>2
<1>5. Units(f) \cap new = {}
  <2> SUFFICES ASSUME NEW p \in Units(f), p \in new PROVE FALSE
    OBVIOUS
  <2>1. PICK i \in S : p \in {i} \X (1 .. f[i])
    BY DEF Units
  <2>2. p[1] = i /\ p[1] = x
    BY <2>1
  <2> QED BY <2>2
<1> HIDE DEF new
<1> HIDE DEF n
<1>6. /\ Cardinality(Units(f) \cup new)
           = Cardinality(Units(f)) + Cardinality(new) - Cardinality(Units(f) \cap new)
      /\ Cardinality(Units(f) \cap new) = 0
  BY <1>2, <1>3, <1>5, FS_Union, FS_EmptySet
<1>7. Total(g) = Total(f) + n
  BY <1>2, <1>3, <1>4, <1>6
<1> QED BY <1>7 DEF n

\* Taking one counter out.
LEMMA TotalSplit ==
  ASSUME NEW D, IsFiniteSet(D), NEW x \in D, NEW g \in [D -> Nat]
  PROVE  Total(g) = Total([i \in D \ {x} |-> g[i]]) + g[x]
<1> DEFINE R == D \ {x}
           h == [i \in R |-> g[i]]
<1>1. IsFiniteSet(R) /\ x \notin R /\ R \cup {x} = D
  BY FS_RemoveElement
<1>2. h \in [R -> Nat] /\ \A i \in R : g[i] = h[i]
  OBVIOUS
<1>3. g \in [R \cup {x} -> Nat]
  BY <1>1
<1> HIDE DEF R, h
<1>4. Total(g) = Total(h) + g[x]
  BY <1>1, <1>2, <1>3, TotalAdd
<1> QED BY <1>4 DEF h, R

\* Counting nothing.
LEMMA TotalZero ==
  ASSUME NEW f, \A i \in DOMAIN f : f[i] = 0
  PROVE  Total(f) = 0
<1>1. \A i \in DOMAIN f : {i} \X (1 .. f[i]) = {}
  OBVIOUS
<1>2. UNION { {i} \X (1 .. f[i]) : i \in DOMAIN f } = {}
  BY <1>1
<1> QED BY <1>2, FS_EmptySet DEF Total

\* Changing one counter.
LEMMA TotalAt ==
  ASSUME NEW S, IsFiniteSet(S), NEW s \in S,
         NEW f \in [S -> Nat], NEW g \in [S -> Nat],
         \A i \in S \ {s} : g[i] = f[i]
  PROVE  /\ Total(f) \in Nat /\ Total(g) \in Nat
         /\ Total(g) + f[s] = Total(f) + g[s]
<1> DEFINE h == [i \in S \ {s} |-> f[i]]
<1>1. h = [i \in S \ {s} |-> g[i]]
  OBVIOUS
<1>2. IsFiniteSet(S \ {s}) /\ h \in [S \ {s} -> Nat]
  BY FS_RemoveElement
<1>3. Total(f) = Total(h) + f[s]
  BY TotalSplit
<1>4. Total(g) = Total([i \in S \ {s} |-> g[i]]) + g[s]
  BY TotalSplit
<1> HIDE DEF h
<1>5. Total(h) \in Nat
  BY <1>2, TotalNumber
<1>6. f[s] \in Nat /\ g[s] \in Nat
  OBVIOUS
<1> QED BY <1>1, <1>3, <1>4, <1>5, <1>6

\* Numbering the counters anew.
LEMMA TotalRenamed ==
  ASSUME NEW S, NEW T, IsFiniteSet(T), NEW h \in Bijection(T, S),
         NEW f \in [S -> Nat], NEW g \in [T -> Nat],
         \A j \in T : g[j] = f[h[j]]
  PROVE  Total(g) = Total(f)
<1> DEFINE b == [p \in Units(g) |-> <<h[p[1]], p[2]>>]
<1>1. /\ h \in [T -> S]
      /\ \A i, j \in T : h[i] = h[j] => i = j
      /\ \A i \in S : \E j \in T : h[j] = i
  BY DEF Bijection, Injection, Surjection, IsInjective
<1>2. \A p : p \in Units(g) <=> \E j \in T, n \in Nat : n \in 1 .. g[j] /\ p = <<j, n>>
  BY DEF Units
<1>3. \A p : p \in Units(f) <=> \E i \in S, n \in Nat : n \in 1 .. f[i] /\ p = <<i, n>>
  BY DEF Units
<1>4. b \in [Units(g) -> Units(f)]
  <2> SUFFICES ASSUME NEW p \in Units(g) PROVE <<h[p[1]], p[2]>> \in Units(f)
    OBVIOUS
  <2>1. PICK j \in T, n \in Nat : n \in 1 .. g[j] /\ p = <<j, n>>
    BY <1>2
  <2>2. h[j] \in S /\ n \in 1 .. f[h[j]] /\ <<h[p[1]], p[2]>> = <<h[j], n>>
    BY <2>1, <1>1
  <2> QED BY <2>2, <1>3
<1>5. \A p, q \in Units(g) : b[p] = b[q] => p = q
  <2> SUFFICES ASSUME NEW p \in Units(g), NEW q \in Units(g), b[p] = b[q] PROVE p = q
    OBVIOUS
  <2>1. PICK j \in T, n \in Nat : n \in 1 .. g[j] /\ p = <<j, n>>
    BY <1>2
  <2>2. PICK k \in T, m \in Nat : m \in 1 .. g[k] /\ q = <<k, m>>
    BY <1>2
  <2>3. b[p] = <<h[j], n>> /\ b[q] = <<h[k], m>>
    BY <2>1, <2>2
  <2>4. h[j] = h[k] /\ n = m
    BY <2>3
  <2> QED BY <2>1, <2>2, <2>4, <1>1
<1>6. \A r \in Units(f) : \E p \in Units(g) : b[p] = r
  <2> SUFFICES ASSUME NEW r \in Units(f) PROVE \E p \in Units(g) : b[p] = r
    OBVIOUS
  <2>1. PICK i \in S, n \in Nat : n \in 1 .. f[i] /\ r = <<i, n>>
    BY <1>3
  <2>2. PICK j \in T : h[j] = i
    BY <1>1
  <2>3. n \in 1 .. g[j]
    BY <2>1, <2>2
  <2>4. <<j, n>> \in Units(g)
    BY <2>3, <1>2
  <2>5. b[<<j, n>>] = <<i, n>>
    BY <2>4, <2>2
  <2> QED BY <2>1, <2>4, <2>5
<1>7. b \in Bijection(Units(g), Units(f))
  BY <1>4, <1>5, <1>6 DEF Bijection, Injection, Surjection, IsInjective
<1>8. IsFiniteSet(Units(g)) /\ Total(g) = Cardinality(Units(g))
  BY TotalNumber
<1> HIDE DEF b
<1>9. Cardinality(Units(g)) = Cardinality(Units(f))
  BY <1>7, <1>8, FS_Bijection DEF ExistsBijection
<1> QED BY <1>8, <1>9 DEF Total, Units

\* The records of a buffer are worth a number.
LEMMA WorthNumber ==
  ASSUME NEW q \in Seq(Record), NEW k \in Nat
  PROVE  /\ IsFiniteSet(Behind(q, k))
         /\ [i \in Behind(q, k) |-> Value(q[i])] \in [Behind(q, k) -> Nat]
         /\ WorthOf(q, k) \in Nat
<1>1. DOMAIN q = 1 .. Len(q) /\ Len(q) \in Nat
  BY LenProperties
<1>2. IsFiniteSet(Behind(q, k))
  <2>1. IsFiniteSet(1 .. Len(q))
    BY <1>1, FS_Interval
  <2> QED BY <1>1, <2>1, FS_Subset DEF Behind
<1>3. \A i \in Behind(q, k) : Value(q[i]) \in Nat
  <2>1. \A i \in Behind(q, k) : q[i] \in Record
    BY <1>1, ElementOfSeq DEF Behind
  <2> QED BY <2>1 DEF Value, Record
<1>4. [i \in Behind(q, k) |-> Value(q[i])] \in [Behind(q, k) -> Nat]
  BY <1>3
<1> QED BY <1>2, <1>4, TotalNumber DEF WorthOf

\* A record counts for its value, at the front of what is to be read...
LEMMA WorthRead ==
  ASSUME NEW q \in Seq(Record), NEW k \in Nat, k + 1 \in DOMAIN q
  PROVE  WorthOf(q, k) = WorthOf(q, k + 1) + Value(q[k + 1])
<1> DEFINE D == Behind(q, k)
           x == k + 1
           g == [i \in D |-> Value(q[i])]
<1>1. DOMAIN q = 1 .. Len(q) /\ Len(q) \in Nat /\ x \in Nat
  BY LenProperties
<1>2. x \in D /\ D \ {x} = Behind(q, x)
  BY <1>1 DEF Behind
<1>3. IsFiniteSet(D) /\ g \in [D -> Nat]
  BY WorthNumber
<1>4. [i \in D \ {x} |-> g[i]] = [i \in Behind(q, x) |-> Value(q[i])]
  BY <1>2
<1>5. g[x] = Value(q[x])
  BY <1>2
<1> HIDE DEF D, g, x
<1>6. Total(g) = Total([i \in D \ {x} |-> g[i]]) + g[x]
  BY <1>2, <1>3, TotalSplit
<1>7. Total(g) = WorthOf(q, x) + Value(q[x])
  BY <1>4, <1>5, <1>6 DEF WorthOf
<1> QED BY <1>7 DEF WorthOf, g, D, x

\* ... and at its end.
LEMMA WorthAppend ==
  ASSUME NEW q \in Seq(Record), NEW k \in Nat, k <= Len(q), NEW r \in Record
  PROVE  WorthOf(Append(q, r), k) = WorthOf(q, k) + Value(r)
<1> DEFINE p == Append(q, r)
           x == Len(q) + 1
           D == Behind(p, k)
           g == [i \in D |-> Value(p[i])]
<1>1. DOMAIN q = 1 .. Len(q) /\ Len(q) \in Nat
  BY LenProperties
<1>2. /\ p \in Seq(Record) /\ DOMAIN p = 1 .. x
      /\ \A i \in 1 .. Len(q) : p[i] = q[i]
      /\ p[x] = r
  BY AppendProperties, LenProperties
<1> HIDE DEF p
<1>3. x \in D /\ D \ {x} = Behind(q, k) /\ Behind(q, k) \subseteq 1 .. Len(q)
  BY <1>1, <1>2 DEF Behind
<1>4. IsFiniteSet(D) /\ g \in [D -> Nat]
  BY <1>2, WorthNumber
<1>5. [i \in D \ {x} |-> g[i]] = [i \in Behind(q, k) |-> Value(q[i])]
  BY <1>2, <1>3
<1>6. g[x] = Value(r)
  BY <1>2, <1>3
<1> HIDE DEF D, g, x
<1>7. Total(g) = Total([i \in D \ {x} |-> g[i]]) + g[x]
  BY <1>3, <1>4, TotalSplit
<1>8. Total(g) = WorthOf(q, k) + Value(r)
  BY <1>5, <1>6, <1>7 DEF WorthOf
<1> QED BY <1>8 DEF WorthOf, g, D, p

\* Storing data_tail changes nothing of what is left.
LEMMA WorthStore ==
  ASSUME NEW q \in Seq(Record), NEW k \in Nat, k <= Len(q)
  PROVE  WorthOf(SubSeq(q, k + 1, Len(q)), 0) = WorthOf(q, k)
<1> DEFINE u == SubSeq(q, k + 1, Len(q))
           S == Behind(q, k)
           T == Behind(u, 0)
           f == [i \in S |-> Value(q[i])]
           g == [i \in T |-> Value(u[i])]
           h == [i \in T |-> k + i]
<1>1. DOMAIN q = 1 .. Len(q) /\ Len(q) \in Nat
  BY LenProperties
<1>2. /\ u \in Seq(Record) /\ DOMAIN u = 1 .. Len(q) - k
      /\ \A i \in 1 .. Len(q) - k : u[i] = q[k + i]
  BY RestIs, LenProperties
<1> HIDE DEF u
<1>3. T = 1 .. Len(q) - k /\ S = k + 1 .. Len(q)
  BY <1>1, <1>2 DEF Behind
<1>4. h \in Bijection(T, S)
  <2>1. h \in [T -> S] /\ \A i, j \in T : h[i] = h[j] => i = j
    BY <1>1, <1>3
  <2>2. \A i \in S : i - k \in T /\ h[i - k] = i
    BY <1>1, <1>3
  <2>3. \A i \in S : \E j \in T : h[j] = i
    BY <2>2
  <2> QED BY <2>1, <2>3 DEF Bijection, Injection, Surjection, IsInjective
<1>5. IsFiniteSet(T) /\ f \in [S -> Nat] /\ g \in [T -> Nat]
  BY <1>2, WorthNumber
<1>6. \A j \in T : g[j] = f[h[j]]
  <2> SUFFICES ASSUME NEW j \in T PROVE g[j] = f[h[j]]
    OBVIOUS
  <2>1. h[j] = k + j /\ k + j \in S /\ u[j] = q[k + j]
    BY <1>1, <1>2, <1>3
  <2> QED BY <2>1
<1> HIDE DEF S, T, f, g, h
<1>7. Total(g) = Total(f)
  BY <1>4, <1>5, <1>6, TotalRenamed
<1> QED BY <1>7 DEF WorthOf, f, g, S, T, u

\* What the kernel writes is worth the record and the drops it reports.
LEMMA WorthMore ==
  ASSUME TypeOK, NEW s \in Slots, NEW kind \in {"sample", "other"},
         NEW q \in Seq(Record), NEW k \in Nat, k <= Len(q)
  PROVE  WorthOf(q \o More(s, kind), k) = WorthOf(q, k) + klost[s] + 1
<1> DEFINE r == [kind |-> kind, n |-> offered[s] + 1]
           l == [kind |-> "lost", n |-> klost[s]]
           p == Append(q, l)
<1>1. /\ r \in Record /\ l \in Record /\ klost[s] \in Nat
      /\ Value(r) = 1 /\ Value(l) = klost[s]
  BY DEF TypeOK, Record, Value
<1>2. WorthOf(q, k) \in Nat
  BY WorthNumber
<1>3. CASE klost[s] = 0
  <2>1. More(s, kind) = <<r>>
    BY <1>3 DEF More
  <2> HIDE DEF r
  <2>2. q \o <<r>> = Append(q, r)
    BY <1>1, AppendIsConcat
  <2>3. WorthOf(Append(q, r), k) = WorthOf(q, k) + 1
    BY <1>1, WorthAppend
  <2>4. \A w \in Nat : w + 1 = w + 0 + 1
    OBVIOUS
  <2> QED BY <1>2, <1>3, <2>1, <2>2, <2>3, <2>4
<1>4. CASE klost[s] # 0
  <2>1. More(s, kind) = <<l, r>>
    BY <1>4 DEF More
  <2> HIDE DEF r, l
  <2>2. p \in Seq(Record) /\ k <= Len(p)
    BY <1>1, AppendProperties, LenProperties
  <2>3. q \o <<l, r>> = Append(p, r)
    <3>1. <<l, r>> = <<l>> \o <<r>> /\ <<l>> \in Seq(Record) /\ <<r>> \in Seq(Record)
      BY <1>1
    <3>2. q \o (<<l>> \o <<r>>) = (q \o <<l>>) \o <<r>>
      BY <3>1, ConcatAssociative
    <3>3. q \o <<l>> = p /\ p \o <<r>> = Append(p, r)
      BY <1>1, <2>2, AppendIsConcat
    <3> QED BY <3>1, <3>2, <3>3
  <2>4. WorthOf(p, k) = WorthOf(q, k) + klost[s]
    BY <1>1, WorthAppend
  <2>5. WorthOf(Append(p, r), k) = WorthOf(p, k) + 1
    BY <1>1, <2>2, WorthAppend, ZenonT(30)
  <2> QED BY <1>1, <1>2, <2>1, <2>3, <2>4, <2>5
<1> QED BY <1>3, <1>4

\* The records of slot s that are still to be parsed.
LEMMA WorthIs ==
  ASSUME TypeOK, NEW s \in Slots
  PROVE  Worth(s) = WorthOf(ring[s], Read(s)) /\ Read(s) \in Nat /\ Worth(s) \in Nat
<1>1. ring[s] \in Seq(Record) /\ Read(s) \in Nat
  BY DEF TypeOK, Read
<1>2. Worth(s) = WorthOf(ring[s], Read(s))
  BY DEF Worth, WorthOf, Pending, Behind, Value
<1> QED BY <1>1, <1>2, WorthNumber

\* A record of value z moves from the slot's buffer to the result.
LEMMA Moves ==
  ASSUME NEW a \in Nat, NEW b \in Nat, NEW z \in Nat, NEW w \in Nat, NEW v \in Nat,
         NEW k \in Nat, NEW o \in Nat, b = a + z, w = v + z
  PROVE  b + v + k + o = a + w + k + o
OBVIOUS

\* A step that touches one slot keeps the account if it does so there.
LEMMA AccountAt ==
  ASSUME TypeOK, TypeOK', RecordsAccounted, NEW s \in Slots, Worth(s)' \in Nat,
         \A t \in Slots \ {s} : /\ Worth(t)' = Worth(t) /\ offered'[t] = offered[t]
                                /\ klost'[t] = klost[t],
         (Len(out') + ignored' + lost') + Worth(s)' + klost'[s] + offered[s]
           = (Len(out) + ignored + lost) + Worth(s) + klost[s] + offered'[s]
  PROVE  RecordsAccounted'
<1> DEFINE w == [t \in Slots |-> Worth(t)]
           v == [t \in Slots |-> Worth(t)']
           a == Len(out) + ignored + lost
           b == Len(out') + ignored' + lost'
<1>1. IsFiniteSet(Slots)
  BY CaptureAssumption, FS_Interval DEF Slots
<1>2. w \in [Slots -> Nat] /\ v \in [Slots -> Nat]
  BY WorthIs
<1>3. /\ offered \in [Slots -> Nat] /\ offered' \in [Slots -> Nat]
      /\ klost \in [Slots -> Nat] /\ klost' \in [Slots -> Nat]
      /\ a \in Nat /\ b \in Nat
  <2>1. Len(out) \in Nat /\ Len(out') \in Nat
    BY LenProperties DEF TypeOK
  <2>2. /\ ignored \in Nat /\ lost \in Nat /\ ignored' \in Nat /\ lost' \in Nat
        /\ offered \in [Slots -> Nat] /\ offered' \in [Slots -> Nat]
        /\ klost \in [Slots -> Nat] /\ klost' \in [Slots -> Nat]
    BY DEF TypeOK
  <2> QED BY ONLY <2>1, <2>2
<1>4. /\ Total(w) \in Nat /\ Total(v) \in Nat
      /\ Total(v) + w[s] = Total(w) + v[s]
  BY <1>1, <1>2, TotalAt
<1>4a. \A t \in Slots \ {s} : offered'[t] = offered[t] /\ klost'[t] = klost[t]
  OBVIOUS
<1>5. /\ Total(offered) \in Nat /\ Total(offered') \in Nat
      /\ Total(offered') + offered[s] = Total(offered) + offered'[s]
  <2>1. offered \in [Slots -> Nat] /\ offered' \in [Slots -> Nat]
    BY <1>3
  <2>2. \A t \in Slots \ {s} : offered'[t] = offered[t]
    BY <1>4a
  <2> QED BY ONLY s \in Slots, <1>1, <2>1, <2>2, TotalAt
<1>6. /\ Total(klost) \in Nat /\ Total(klost') \in Nat
      /\ Total(klost') + klost[s] = Total(klost) + klost'[s]
  <2>1. klost \in [Slots -> Nat] /\ klost' \in [Slots -> Nat]
    BY <1>3
  <2>2. \A t \in Slots \ {s} : klost'[t] = klost[t]
    BY <1>4a
  <2> QED BY ONLY s \in Slots, <1>1, <2>1, <2>2, TotalAt
<1>7. /\ b + v[s] + klost'[s] + offered[s] = a + w[s] + klost[s] + offered'[s]
      /\ Total(offered) = a + Total(w) + Total(klost)
  BY DEF RecordsAccounted
<1>8. /\ v[s] \in Nat /\ w[s] \in Nat /\ klost[s] \in Nat /\ klost'[s] \in Nat
      /\ offered[s] \in Nat /\ offered'[s] \in Nat
  BY <1>2, <1>3
<1> HIDE DEF v, w, a, b
<1>9. Total(offered') = b + Total(v) + Total(klost')
  <2> DEFINE W == Total(w)       V == Total(v)        ws == w[s]       vs == v[s]
             O == Total(offered) P == Total(offered') os == offered[s] ps == offered'[s]
             K == Total(klost)   L == Total(klost')   ks == klost[s]   ls == klost'[s]
  <2>1. /\ a \in Nat /\ b \in Nat /\ W \in Nat /\ V \in Nat /\ ws \in Nat /\ vs \in Nat
        /\ O \in Nat /\ P \in Nat /\ os \in Nat /\ ps \in Nat
        /\ K \in Nat /\ L \in Nat /\ ks \in Nat /\ ls \in Nat
        /\ V + ws = W + vs /\ P + os = O + ps /\ L + ks = K + ls
        /\ b + vs + ls + os = a + ws + ks + ps
        /\ O = a + W + K
    BY <1>3, <1>4, <1>5, <1>6, <1>7, <1>8
  <2> HIDE DEF W, V, ws, vs, O, P, os, ps, K, L, ks, ls
  <2>2. P = b + V + L
    BY ONLY <2>1
  <2> QED BY <2>2 DEF P, V, L
<1> QED BY <1>9 DEF RecordsAccounted, Total, v, b

\* A step that leaves the records where they are.
LEMMA AccountAlone ==
  ASSUME RecordsAccounted, UNCHANGED <<ring, out, offered, klost, lost, ignored>>,
         \A s \in Slots : Read(s)' = Read(s)
  PROVE  RecordsAccounted'
<1>1. \A s \in Slots : Worth(s)' = Worth(s)
  BY DEF Worth, Pending
<1>2. [s \in Slots |-> Worth(s)'] = [s \in Slots |-> Worth(s)]
  BY <1>1
<1> QED BY <1>2 DEF RecordsAccounted

\* Every step of run() keeps the account.
LEMMA AccountRun ==
  ASSUME TypeOK, TypeOK', Below, RecordsAccounted,
         Between \/ \E s \in Slots : AtSlot(s)
  PROVE  RecordsAccounted'
<1>1. CASE Between
  <2>1. /\ pc # "drainloop" /\ pc' # "drainloop"
        /\ UNCHANGED <<ring, out, offered, klost, lost, ignored>>
    BY <1>1 DEF Between, ProbeRefused, ProbeReady, NothingOpened, AllOpened,
       AllEnabled, PollTimeout, PollReady, PollInterrupted, PollFails, TimeIsUp,
       Drained, FinallyDrained, Return, kernel, result
  <2>2. \A s \in Slots : Read(s)' = Read(s)
    BY <2>1 DEF Read
  <2> QED BY <2>1, <2>2, AccountAlone
<1>2. ASSUME NEW s \in Slots, OpenFails(s) \/ OpenSucceeds(s) \/ MmapFails(s)
               \/ MmapSucceeds(s) \/ Enable(s) \/ EnableFails(s) \/ Release(s)
               \/ DrainBegin(s)
      PROVE  RecordsAccounted'
  <2>1. /\ pc # "drainloop" /\ pc' = "drainloop" => parsed' = 0
        /\ UNCHANGED <<ring, out, offered, klost, lost, ignored>>
    BY <1>2 DEF OpenFails, OpenSucceeds, MmapFails, MmapSucceeds, Enable,
       EnableFails, Release, DrainBegin, kernel, result
  <2>2. \A t \in Slots : Read(t)' = Read(t)
    BY <1>2, <2>1 DEF Read, OpenFails, OpenSucceeds, MmapFails, MmapSucceeds, Enable,
       EnableFails, Release, DrainBegin
  <2> QED BY <2>1, <2>2, AccountAlone
<1>3. ASSUME NEW s \in Slots, DrainRecord(s)
      PROVE  RecordsAccounted'
  <2> DEFINE r == ring[s][parsed + 1]
  <2>1. /\ AtFront(s) /\ pc = "drainloop" /\ pc' = "drainloop"
        /\ UNCHANGED <<ring, offered, klost, todo>> /\ parsed' = parsed + 1
        /\ parsed \in Nat /\ ring[s] \in Seq(Record) /\ out \in Seq(RawEvent)
        /\ lost \in Nat /\ ignored \in Nat /\ klost[s] \in Nat /\ offered[s] \in Nat
    BY <1>3 DEF DrainRecord, kernel, TypeOK
  <2>2. parsed + 1 \in DOMAIN ring[s]
    <3>1. snap \in Nat /\ Len(ring[s]) \in Nat /\ DOMAIN ring[s] = 1 .. Len(ring[s])
      BY <2>1, LenProperties DEF TypeOK
    <3>2. parsed < snap /\ snap <= Len(ring[s])
      BY <1>3, <2>1 DEF DrainRecord, Below
    <3> QED BY <2>1, <3>1, <3>2
  <2>3. r \in Record
    BY <2>1, <2>2, LenProperties, ElementOfSeq
  <2>4. Read(s) = parsed /\ Read(s)' = parsed + 1
    BY <2>1 DEF Read, AtFront
  <2>5. \A t \in Slots \ {s} : Read(t)' = Read(t)
    <3>1. \A t \in Slots \ {s} : ~AtFront(t) /\ ~AtFront(t)'
      BY <2>1, OneFront DEF AtFront
    <3> QED BY <3>1 DEF Read
  <2>6. Len(out') + ignored' + lost' = Len(out) + ignored + lost + Value(r)
    <3> DEFINE e == [kind |-> "sample", slot |-> s, n |-> r.n]
    <3>1. \/ r.kind = "sample" /\ out' = Append(out, e) /\ lost' = lost /\ ignored' = ignored
          \/ r.kind = "lost" /\ out' = out /\ lost' = lost + r.n /\ ignored' = ignored
          \/ r.kind = "other" /\ out' = out /\ lost' = lost /\ ignored' = ignored + 1
      BY <1>3 DEF DrainRecord
    <3>2. e \in RawEvent /\ r.n \in Nat
      BY <2>3 DEF RawEvent, Record
    <3>3. Len(Append(out, e)) = Len(out) + 1 /\ Len(out) \in Nat
      BY <2>1, <3>2, AppendProperties, LenProperties
    <3> HIDE DEF e, r
    <3> QED BY <2>1, <3>1, <3>2, <3>3 DEF Value
  <2>7. Worth(s) = Worth(s)' + Value(r) /\ Worth(s)' \in Nat /\ Value(r) \in Nat
    <3>1. WorthOf(ring[s], parsed) = WorthOf(ring[s], parsed + 1) + Value(r)
      BY <2>1, <2>2, WorthRead
    <3>2. Worth(s) = WorthOf(ring[s], parsed)
      BY <2>4, WorthIs
    <3>3. Worth(s)' = WorthOf(ring'[s], Read(s)')
      BY DEF Worth, WorthOf, Pending, Behind, Value
    <3>4. WorthOf(ring[s], parsed + 1) \in Nat
      BY <2>1, WorthNumber
    <3>5. Value(r) \in Nat
      BY <2>3 DEF Value, Record
    <3> QED BY <2>1, <2>4, <3>1, <3>2, <3>3, <3>4, <3>5
  <2>8. \A t \in Slots \ {s} : Worth(t)' = Worth(t)
    BY <2>1, <2>5 DEF Worth, Pending
  <2>9. (Len(out') + ignored' + lost') + Worth(s)' + klost'[s] + offered[s]
          = (Len(out) + ignored + lost) + Worth(s) + klost[s] + offered'[s]
    <3> DEFINE a == Len(out) + ignored + lost
               b == Len(out') + ignored' + lost'
    <3>1. Len(out) \in Nat /\ Len(out') \in Nat /\ ignored' \in Nat /\ lost' \in Nat
      BY <2>1, LenProperties DEF TypeOK
    <3>2. a \in Nat /\ b \in Nat
      BY <2>1, <3>1
    <3>3. b = a + Value(r)
      BY <2>6
    <3>4. klost'[s] = klost[s] /\ offered'[s] = offered[s]
      BY <2>1
    <3> HIDE DEF a, b, r
    <3>5. Worth(s) \in Nat
      BY WorthIs
    <3>6. b + Worth(s)' + klost[s] + offered[s] = a + Worth(s) + klost[s] + offered[s]
      BY ONLY <2>1, <2>7, <3>2, <3>3, <3>5, Moves
    <3> QED BY <3>4, <3>6 DEF a, b
  <2> QED BY <2>1, <2>7, <2>8, <2>9, AccountAt
<1>4. ASSUME NEW s \in Slots, DrainEnd(s) \/ DrainRejects(s)
      PROVE  RecordsAccounted'
  <2>1. /\ AtFront(s) /\ pc = "drainloop" /\ pc' = "drain" /\ StoreTail(s)
        /\ UNCHANGED <<out, offered, klost, lost, ignored>> /\ parsed <= snap
    BY <1>4 DEF DrainEnd, DrainRejects, StoreTail, result, Below
  <2>2. /\ parsed \in Nat /\ snap \in Nat /\ ring[s] \in Seq(Record)
        /\ Len(ring[s]) \in Nat /\ snap <= Len(ring[s])
    BY <2>1, LenProperties DEF TypeOK, Below
  <2>3. parsed <= Len(ring[s])
    BY <2>1, <2>2
  <2>4. /\ ring'[s] = SubSeq(ring[s], parsed + 1, Len(ring[s]))
        /\ \A t \in Slots : t # s => ring'[t] = ring[t]
    BY <2>1 DEF StoreTail, Unread, TypeOK
  <2>5. Read(s) = parsed /\ Read(s)' = 0
    BY <2>1 DEF Read
  <2>6. \A t \in Slots \ {s} : Read(t)' = Read(t)
    BY <2>1, OneFront DEF Read
  <2>7. Worth(s)' = Worth(s) /\ Worth(s) \in Nat
    <3>1. Worth(s)' = WorthOf(ring'[s], Read(s)')
      BY DEF Worth, WorthOf, Pending, Behind, Value
    <3>2. Worth(s) = WorthOf(ring[s], parsed) /\ Worth(s) \in Nat
      BY <2>5, WorthIs
    <3>3. WorthOf(ring'[s], 0) = WorthOf(ring[s], parsed)
      BY <2>2, <2>3, <2>4, WorthStore
    <3> QED BY <2>5, <3>1, <3>2, <3>3
  <2>8. \A t \in Slots \ {s} : Worth(t)' = Worth(t)
    BY <2>4, <2>6 DEF Worth, Pending
  <2> QED BY <2>1, <2>7, <2>8, AccountAt
<1> QED BY <1>1, <1>2, <1>3, <1>4 DEF AtSlot

\* The kernel's record is in the buffer or dropped, and drops are reported once.
LEMMA AccountEmit ==
  ASSUME TypeOK, TypeOK', Below, RecordsAccounted, NEW s \in Slots,
         NEW kind \in {"sample", "other"}, Emit(s, kind)
  PROVE  RecordsAccounted'
<1>1. UNCHANGED <<pc, todo, parsed, out, lost, ignored>>
  BY DEF Emit, drain, result
<1>2. \A t \in Slots : Read(t)' = Read(t)
  BY <1>1 DEF Read, AtFront
<1>3. /\ ring[s] \in Seq(Record) /\ klost[s] \in Nat /\ offered[s] \in Nat
      /\ Len(out) + ignored + lost \in Nat
  BY LenProperties DEF TypeOK
<1>4. Read(s) <= Len(ring[s]) /\ Read(s) \in Nat
  <2>1. Len(ring[s]) \in Nat /\ parsed \in Nat /\ snap \in Nat
    BY <1>3, LenProperties DEF TypeOK
  <2> QED BY <2>1 DEF Read, Below
<1>5. Worth(s)' = WorthOf(ring'[s], Read(s))
  <2>1. Worth(s)' = WorthOf(ring'[s], Read(s)')
    BY DEF Worth, WorthOf, Pending, Behind, Value
  <2> QED BY <2>1, <1>2
<1>6. Worth(s) = WorthOf(ring[s], Read(s)) /\ Worth(s) \in Nat
  BY WorthIs
<1>7. offered'[s] = offered[s] + 1
  BY DEF Emit, TypeOK
<1>8. /\ Worth(s)' \in Nat
      /\ Worth(s)' + klost'[s] = Worth(s) + klost[s] + 1
  <2>1. CASE ring'[s] = ring[s] \o More(s, kind) /\ klost'[s] = 0
    <3>1. WorthOf(ring'[s], Read(s)) = WorthOf(ring[s], Read(s)) + klost[s] + 1
      BY <1>3, <1>4, <2>1, WorthMore
    <3> QED BY <1>3, <1>5, <1>6, <2>1, <3>1
  <2>2. CASE ring'[s] = ring[s] /\ klost'[s] = klost[s] + 1
    BY <1>3, <1>5, <1>6, <2>2
  <2>3. \/ ring'[s] = ring[s] \o More(s, kind) /\ klost'[s] = 0
        \/ ring'[s] = ring[s] /\ klost'[s] = klost[s] + 1
    BY DEF Emit, TypeOK
  <2> QED BY <2>1, <2>2, <2>3
<1>9. \A t \in Slots \ {s} : /\ Worth(t)' = Worth(t) /\ offered'[t] = offered[t]
                             /\ klost'[t] = klost[t]
  <2>1. \A t \in Slots \ {s} : /\ ring'[t] = ring[t] /\ offered'[t] = offered[t]
                               /\ klost'[t] = klost[t]
    BY DEF Emit, TypeOK
  <2> QED BY <1>2, <2>1 DEF Worth, Pending
<1>10. (Len(out') + ignored' + lost') + Worth(s)' + klost'[s] + offered[s]
         = (Len(out) + ignored + lost) + Worth(s) + klost[s] + offered'[s]
  <2> DEFINE a == Len(out) + ignored + lost
  <2>1. a \in Nat /\ Len(out') + ignored' + lost' = a
    BY <1>1, <1>3
  <2>2. klost'[s] \in Nat
    BY DEF TypeOK
  <2> HIDE DEF a
  <2> DEFINE w == Worth(s) v == Worth(s)' k == klost[s] l == klost'[s] o == offered[s]
  <2>3. {a, w, v, k, l, o} \subseteq Nat /\ v + l = w + k + 1
    BY <1>3, <1>6, <1>8, <2>1, <2>2
  <2> HIDE DEF w, v, k, l, o
  <2>4. a + v + l + o = a + w + k + (o + 1)
    BY ONLY <2>3
  <2> QED BY <1>7, <2>1, <2>4 DEF a, w, v, k, l, o
<1> QED BY <1>8, <1>9, <1>10, AccountAt
-----------------------------------------------------------------------------
(* The invariant                                                           *)

\* A fresh command satisfies the invariant.
LEMMA InvInit ==
  ASSUME RInit
  PROVE  IInv
<1> USE DEF RInit, Init
<1>1. <<>> \in Seq(Record) /\ <<>> \in Seq(RawEvent)
  OBVIOUS
<1>2. TypeOK
  <2>1. ring \in [Slots -> Seq(Record)]
    BY <1>1
  <2>2. out \in Seq(RawEvent) /\ journal \in Seq(RawEvent)
    BY <1>1
  <2> QED BY <2>1, <2>2, CaptureAssumption DEF TypeOK, Places
<1>3. Held /\ Answer /\ Written
  BY DEF Held, Answer, Written
<1>4. Budget /\ Below
  BY CaptureAssumption DEF Budget, Below
<1>5. Sequenced
  <2>1. \A s \in Slots : Captured(out, s) = {} /\ Waiting(ring[s], Read(s)) = {}
    BY DEF Captured, Waiting
  <2>2. \A s \in Slots : Ordered(out, ring[s], Read(s), s)
    BY <2>1 DEF Ordered
  <2>3. \A s \in Slots : Dated(out, ring[s], Read(s), offered[s], s)
    BY <2>1 DEF Dated
  <2> QED BY <2>2, <2>3 DEF Sequenced
<1>6. RecordsAccounted
  <2>1. \A s \in Slots : Pending(s) = {}
    BY DEF Pending
  <2>2. \A s \in Slots : Worth(s) = 0
    BY <2>1, TotalZero DEF Worth
  <2>3. Total([s \in Slots |-> Worth(s)]) = 0
    <3> DEFINE w == [s \in Slots |-> Worth(s)]
    <3>1. \A s \in DOMAIN w : w[s] = 0
      BY <2>2
    <3> HIDE DEF w
    <3>2. Total(w) = 0
      BY <3>1, TotalZero
    <3> QED BY <3>2 DEF w
  <2>4. Total(offered) = 0 /\ Total(klost) = 0
    BY TotalZero
  <2>5. Len(out) = 0 /\ ignored = 0 /\ lost = 0
    OBVIOUS
  <2> QED BY <2>3, <2>4, <2>5 DEF RecordsAccounted
<1> QED BY <1>2, <1>3, <1>4, <1>5, <1>6 DEF IInv

\* Every step of the command, of run() and of the kernel keeps it.
LEMMA InvStep ==
  ASSUME IInv, [RNext]_allVars
  PROVE  IInv'
<1> USE DEF IInv
<1>1. Written'
  <2>1. CASE UNCHANGED allVars
    BY <2>1 DEF Written, allVars, vars, result, cmdVars
  <2> QED BY <2>1, WrittenStep
<1>2. CASE UNCHANGED vars
  <2>1. TypeOK'
    <3>1. CASE RNext
      BY <1>2, <3>1, TypesCommand
    <3>2. CASE UNCHANGED allVars
      BY <3>2 DEF TypeOK, allVars, vars, drain, resources, kernel, clock, result,
                  cmdVars
    <3> QED BY <3>1, <3>2
  <2>2. Held' /\ Answer' /\ Budget' /\ Below'
    BY <1>2 DEF Held, Answer, Budget, Below, AtFront, vars, drain, resources,
                kernel, clock, result
  <2>3. Sequenced'
    <3>1. UNCHANGED <<out, ring, offered, pc, todo, parsed>>
      BY <1>2 DEF vars, drain, kernel, result
    <3>2. \A s \in Slots : Read(s)' = Read(s)
      BY <3>1 DEF Read, AtFront
    <3>3. \A t \in Slots : /\ Ordered(out', ring'[t], Read(t)', t)
                           /\ Dated(out', ring'[t], Read(t)', offered'[t], t)
      BY <3>1, <3>2 DEF Sequenced
    <3> QED BY <3>3 DEF Sequenced
  <2>4. RecordsAccounted'
    <3>1. UNCHANGED <<out, ring, offered, klost, lost, ignored, pc, todo, parsed>>
      BY <1>2 DEF vars, drain, kernel, result
    <3>2. \A s \in Slots : Read(s)' = Read(s)
      BY <3>1 DEF Read, AtFront
    <3> QED BY <3>1, <3>2, AccountAlone
  <2> QED BY <1>1, <2>1, <2>2, <2>3, <2>4
<1>3. CASE UNCHANGED cmdVars /\ (Between \/ \E s \in Slots : AtSlot(s))
  BY <1>1, <1>3, TypesRun, HeldRun, AnswerRun, BudgetRun, BelowRun, SequencedRun,
     AccountRun
<1>4. ASSUME NEW s \in Slots, NEW kind \in {"sample", "other"},
             Emit(s, kind), UNCHANGED cmdVars
      PROVE  IInv'
  <2>1. Held' /\ Answer' /\ Budget'
    BY <1>4 DEF Emit, Held, Answer, Budget, AtFront, resources, clock, result
  <2> QED BY <1>1, <1>4, <2>1, TypesEmit, BelowEmit, SequencedEmit,
         AccountEmit
<1> QED BY <1>2, <1>3, <1>4, StepCases
-----------------------------------------------------------------------------
(* Theorems                                                                *)

\* Every behaviour of the command keeps the inductive invariant.
THEOREM RecordInvariant == RSpec => []IInv
BY InvInit, InvStep, PTL DEF RSpec

\* A slot's samples reach `out' in the order in which the kernel produced them
\* and at most once, and those still to be read are younger: drain() parses
\* up to the head it has read, however the kernel writes meanwhile, and stores
\* the tail of exactly what it parsed, also when it stops at a bad header.
THEOREM CaptureSlotOrder == RSpec => []SlotOrder
<1>1. IInv => SlotOrder
  <2> SUFFICES ASSUME IInv, NEW s \in Slots
               PROVE  Ordered(out, ring[s], Read(s), s)
    BY DEF SlotOrder, Ordered, CapturedOf, Captured, WaitingOf, Waiting, Pending
  <2> QED BY DEF IInv, Sequenced
<1> QED BY <1>1, RecordInvariant, PTL

\* Every record the kernel produced is captured, ignored, counted in lost_samples,
\* still in a buffer, or dropped and not yet reported, and in one of these only:
\* neither drain() nor a full buffer loses a record without a trace.
THEOREM CaptureRecordsAccounted == RSpec => []RecordsAccounted
<1>1. IInv => RecordsAccounted
  BY DEF IInv
<1> QED BY <1>1, RecordInvariant, PTL

\* run() opens, maps, enables and gives back each slot in this order, on every
\* way out.
THEOREM CaptureSlotLifecycle == RSpec => []SlotLifecycle
<1>1. IInv => SlotLifecycle
  BY DEF IInv, TypeOK, Places, Held, SlotLifecycle
<1> QED BY <1>1, RecordInvariant, PTL

\* The journal of a finished command is the capture, and a refused or skipped
\* capture leaves none.
THEOREM RecordJournalFaithful == RSpec => []JournalFaithful
<1>1. IInv => JournalFaithful
  BY DEF IInv, TypeOK, Held, Answer, Written, JournalFaithful, None
<1> QED BY <1>1, RecordInvariant, PTL

\* However often poll() is interrupted, the time it waits adds up to at most
\* duration_ms: the safety half of EndsInTime.
THEOREM RecordInTime == RSpec => []InTime
<1>1. IInv => InTime
  BY CaptureAssumption DEF IInv, TypeOK, Budget, InTime
<1> QED BY <1>1, RecordInvariant, PTL
=============================================================================
