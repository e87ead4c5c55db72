----------------------------- MODULE LiveCapture -----------------------------
(***************************************************************************)
(* xsprof::capture::LiveCapture (src/collectors/live_capture.cpp): probe,  *)
(* open one perf event per (kind, CPU), map its ring buffer, enable, poll  *)
(* for duration_ms, drain, unmap and close - while the kernel writes into  *)
(* the mapped buffers.                                                     *)
(*                                                                         *)
(* A slot is one (kind, CPU) pair; run() visits them in increasing order.  *)
(* A buffer is the sequence of records between data_tail and data_head, so *)
(* the kernel has room for RingSize - Len(ring[s]) more.  The kernel's     *)
(* side (Emit, how poll() ends) is external.                               *)
(***************************************************************************)
EXTENDS Naturals, Sequences, FiniteSets

CONSTANTS N,          \* number of (kind, CPU) pairs asked for
          RingSize,   \* records a buffer of mmap_pages pages holds
          Duration,   \* cfg.duration_ms
          Step,       \* the 200 ms slice of the poll loop
          MaxRecords  \* bound on the records the kernel produces

ASSUME CaptureAssumption ==
  /\ N \in Nat /\ Duration \in Nat /\ MaxRecords \in Nat
  /\ RingSize \in Nat \ {0}
  /\ Step \in Nat \ {0}

Slots == 1 .. N

\* PERF_RECORD_SAMPLE (n numbers the slot's records), PERF_RECORD_LOST (n is
\* its count) and a record run() ignores (throttle, or too short a sample).
Record == [kind : {"sample", "lost", "other"}, n : Nat]

\* A RawEvent: a sample of a slot (its EventKind is the slot's), or a marker.
RawEvent == [kind : {"sample", "marker"}, slot : Slots, n : Nat]

VARIABLES
  pc,         \* where run() is
  cap,        \* summary.capability.state
  todo,       \* the slots the current loop still has to visit
  fds,        \* open descriptors
  maps,       \* mapped buffers
  slots,      \* the vector `slots'
  enabled,    \* slots after PERF_EVENT_IOC_ENABLE
  ring,       \* ring[s]: the records not yet released to the kernel
  klost,      \* klost[s]: records the kernel dropped and has not reported
  offered,    \* offered[s]: records the kernel tried to write (history)
  pollin,     \* slots on which the kernel has raised POLLIN
  revents,    \* slots whose pfds[i].revents holds POLLIN
  final,      \* is the drain loop the one after the poll loop?
  snap,       \* records below the data_head that drain() has read
  parsed,     \* records below drain()'s own tail
  remaining,  \* remaining_ms
  elapsed,    \* time spent in poll() (history)
  ignored,    \* records of kind "other" read (history)
  out,        \* the captured events
  lost        \* summary.lost_samples

drain     == <<snap, parsed>>
resources == <<fds, maps, slots, enabled>>
kernel    == <<ring, klost, offered, pollin>>
clock     == <<remaining, elapsed>>
result    == <<out, lost, ignored>>
vars == <<pc, cap, todo, final, drain, revents, resources, kernel, clock, result>>

Init ==
  /\ pc = "probe" /\ cap = "unprobed"
  /\ todo = {} /\ final = FALSE /\ snap = 0 /\ parsed = 0 /\ revents = {}
  /\ fds = {} /\ maps = {} /\ slots = {} /\ enabled = {}
  /\ ring = [s \in Slots |-> <<>>]
  /\ klost = [s \in Slots |-> 0]
  /\ offered = [s \in Slots |-> 0]
  /\ pollin = {}
  /\ remaining = Duration /\ elapsed = 0
  /\ out = <<>> /\ lost = 0 /\ ignored = 0

\* The slot the current loop is at.
AtFront(s) == s \in todo /\ \A t \in todo : s <= t
-----------------------------------------------------------------------------
(* probe(), and opening and mapping the buffers                            *)

\* The tracepoint id is unreadable or perf_event_open is refused.
ProbeRefused ==
  /\ pc = "probe"
  /\ pc' = "done" /\ cap' = "skip"
  /\ UNCHANGED <<todo, final, drain, revents, resources, kernel, clock, result>>

\* The trial descriptor was opened, and closed again.
ProbeReady ==
  /\ pc = "probe"
  /\ pc' = "open" /\ cap' = "ready" /\ todo' = Slots
  /\ UNCHANGED <<final, drain, revents, resources, kernel, clock, result>>

\* The slot's tracepoint has no id, or open_tracepoint / open_software fails.
OpenFails(s) ==
  /\ pc = "open" /\ AtFront(s)
  /\ todo' = todo \ {s}
  /\ UNCHANGED <<pc, cap, final, drain, revents, resources, kernel, clock, result>>

OpenSucceeds(s) ==
  /\ pc = "open" /\ AtFront(s)
  /\ pc' = "mmap"
  /\ fds' = fds \cup {s}
  /\ UNCHANGED <<cap, todo, final, drain, revents, maps, slots, enabled,
                 kernel, clock, result>>

\* Mutant of MmapFails: the descriptor is not closed.
MmapFailsKeepsFd(s) ==
  /\ pc = "mmap" /\ AtFront(s)
  /\ pc' = "open" /\ todo' = todo \ {s}
  /\ UNCHANGED <<cap, final, drain, revents, resources, kernel, clock, result>>

\* mmap returned MAP_FAILED: close and go on with the next slot.
MmapFails(s) ==
  /\ pc = "mmap" /\ AtFront(s)
  /\ pc' = "open" /\ todo' = todo \ {s}
  /\ fds' = fds \ {s}
  /\ UNCHANGED <<cap, final, drain, revents, maps, slots, enabled, kernel, clock, result>>

MmapSucceeds(s) ==
  /\ pc = "mmap" /\ AtFront(s)
  /\ pc' = "open" /\ todo' = todo \ {s}
  /\ maps' = maps \cup {s}
  /\ slots' = slots \cup {s}
  /\ UNCHANGED <<cap, final, drain, revents, fds, enabled, kernel, clock, result>>

\* slots.empty(): fail-closed SKIP.
NothingOpened ==
  /\ pc = "open" /\ todo = {} /\ slots = {}
  /\ pc' = "done" /\ cap' = "skip"
  /\ UNCHANGED <<todo, final, drain, revents, resources, kernel, clock, result>>

AllOpened ==
  /\ pc = "open" /\ todo = {} /\ slots # {}
  /\ pc' = "enable" /\ todo' = slots
  /\ UNCHANGED <<cap, final, drain, revents, resources, kernel, clock, result>>

\* ioctl(PERF_EVENT_IOC_ENABLE), one slot after the other (F-04).
Enable(s) ==
  /\ pc = "enable" /\ AtFront(s)
  /\ todo' = todo \ {s}
  /\ enabled' = enabled \cup {s}
  /\ UNCHANGED <<pc, cap, final, drain, revents, fds, maps, slots, kernel, clock, result>>

\* The result of the ioctl is not looked at: the slot stays in the vector.
EnableFails(s) ==
  /\ pc = "enable" /\ AtFront(s)
  /\ todo' = todo \ {s}
  /\ UNCHANGED <<pc, cap, final, drain, revents, resources, kernel, clock, result>>

AllEnabled ==
  /\ pc = "enable" /\ todo = {}
  /\ pc' = "poll"
  /\ UNCHANGED <<cap, todo, final, drain, revents, resources, kernel, clock, result>>
-----------------------------------------------------------------------------
(* The kernel (external)                                                   *)

\* The sum of the counts f, by numbering what each of them counts.
Total(f) == Cardinality(UNION { {i} \X (1 .. f[i]) : i \in DOMAIN f })

\* The bound on the kernel's side of the model.
KernelHasMore == Total(offered) < MaxRecords

\* What a record takes with it into the buffer: if some were dropped before,
\* the PERF_RECORD_LOST that reports them precedes it.
More(s, kind) ==
  LET record == [kind |-> kind, n |-> offered[s] + 1]
  IN  IF klost[s] = 0 THEN <<record>>
      ELSE <<[kind |-> "lost", n |-> klost[s]], record>>

\* A record for slot s: dropped and counted when there is no room for it.
\* POLLIN is raised at the watermark: at this record, or not.
Emit(s, kind) ==
  /\ s \in enabled /\ KernelHasMore
  /\ offered' = [offered EXCEPT ![s] = @ + 1]
  /\ LET fits == Len(ring[s]) + Len(More(s, kind)) <= RingSize
     IN  \/ /\ fits
            /\ ring' = [ring EXCEPT ![s] = @ \o More(s, kind)]
            /\ klost' = [klost EXCEPT ![s] = 0]
            /\ \E raise \in SUBSET {s} : pollin' = pollin \cup raise
         \/ /\ ~fits
            /\ klost' = [klost EXCEPT ![s] = @ + 1]
            /\ UNCHANGED <<ring, pollin>>
  /\ UNCHANGED <<pc, cap, todo, final, drain, revents, resources, clock, result>>
-----------------------------------------------------------------------------
(* The poll loop                                                           *)

\* int step = remaining_ms > 200 ? 200 : remaining_ms
Slice == IF remaining > Step THEN Step ELSE remaining

\* Mutant of Spend: an early return gives the slice back.
SpendOnTimeout(passed) ==
  /\ remaining' = remaining - passed
  /\ elapsed' = elapsed + passed

\* remaining_ms -= step, however much of the slice has passed.
Spend(passed) ==
  /\ remaining' = remaining - Slice
  /\ elapsed' = elapsed + passed

\* poll() times out: no descriptor is ready.
PollTimeout ==
  /\ pc = "poll" /\ remaining > 0
  /\ pollin = {}
  /\ Spend(Slice)
  /\ revents' = {}
  /\ UNCHANGED <<pc, cap, todo, final, drain, resources, kernel, result>>

\* poll() returns ready descriptors at once or late in the slice; reading the
\* poll state of a perf descriptor clears it.
PollReady ==
  /\ pc = "poll" /\ remaining > 0
  /\ pollin # {}
  /\ \E passed \in {0, Slice} : Spend(passed)
  /\ revents' = pollin /\ pollin' = {}
  /\ pc' = "drain" /\ todo' = pollin
  /\ UNCHANGED <<cap, final, drain, resources, ring, klost, offered, result>>

\* EINTR: revents is zeroed (Linux) or left as it was (POSIX allows both), and
\* the loop below poll() reads it in either case.
PollInterrupted ==
  /\ pc = "poll" /\ remaining > 0
  /\ pollin = {}
  /\ \E passed \in {0, Slice} : Spend(passed)
  /\ revents' \in {{}, revents}
  /\ pc' = "drain" /\ todo' = revents'
  /\ UNCHANGED <<cap, final, drain, resources, kernel, result>>

\* Any other error: break, then the final drain.
PollFails ==
  /\ pc = "poll" /\ remaining > 0
  /\ Spend(0)
  /\ pc' = "drain" /\ todo' = slots /\ final' = TRUE
  /\ UNCHANGED <<cap, drain, revents, resources, kernel, result>>

\* remaining_ms <= 0: `for (auto& s : slots) drain(s)'
TimeIsUp ==
  /\ pc = "poll" /\ remaining = 0
  /\ pc' = "drain" /\ todo' = slots /\ final' = TRUE
  /\ UNCHANGED <<cap, drain, revents, resources, kernel, clock, result>>
-----------------------------------------------------------------------------
(* drain(): read data_head, parse one record after the other, and only     *)
(* then store data_tail, so the kernel gets the room back at the end.      *)

DrainBegin(s) ==
  /\ pc = "drain" /\ AtFront(s)
  /\ pc' = "drainloop"
  /\ snap' = Len(ring[s]) /\ parsed' = 0
  /\ UNCHANGED <<cap, todo, final, revents, resources, kernel, clock, result>>

\* A PERF_RECORD_SAMPLE becomes an event, a PERF_RECORD_LOST adds its count,
\* any other record is passed over.
DrainRecord(s) ==
  /\ pc = "drainloop" /\ AtFront(s) /\ parsed < snap
  /\ LET r == ring[s][parsed + 1]
     IN  \/ /\ r.kind = "sample"
            /\ out' = Append(out, [kind |-> "sample", slot |-> s, n |-> r.n])
            /\ UNCHANGED <<lost, ignored>>
         \/ /\ r.kind = "lost"
            /\ lost' = lost + r.n
            /\ UNCHANGED <<out, ignored>>
         \/ /\ r.kind = "other"
            /\ ignored' = ignored + 1
            /\ UNCHANGED <<out, lost>>
  /\ parsed' = parsed + 1
  /\ UNCHANGED <<pc, cap, todo, final, snap, revents, resources, kernel, clock>>

\* Mutant of Unread: data_tail is set to what data_head is now.
UnreadNothing(s) == <<>>

\* Mutant of Unread: data_tail is never stored.
UnreadAll(s) == ring[s]

\* What is left above the data_tail that drain() stores.
Unread(s) == SubSeq(ring[s], parsed + 1, Len(ring[s]))

\* mc->data_tail = tail, and the next slot.
StoreTail(s) ==
  /\ ring' = [ring EXCEPT ![s] = Unread(s)]
  /\ pc' = "drain" /\ todo' = todo \ {s} /\ snap' = 0 /\ parsed' = 0
  /\ UNCHANGED <<cap, final, revents, resources, klost, offered, pollin, clock, result>>

\* All records below the head were parsed.
DrainEnd(s) ==
  /\ pc = "drainloop" /\ AtFront(s) /\ parsed = snap
  /\ StoreTail(s)

\* A header with an impossible size (F-02): stop in front of it.
DrainRejects(s) ==
  /\ pc = "drainloop" /\ AtFront(s) /\ parsed < snap
  /\ StoreTail(s)

\* The loop over the ready slots is over: poll again.
Drained ==
  /\ pc = "drain" /\ todo = {} /\ ~final
  /\ pc' = "poll"
  /\ UNCHANGED <<cap, todo, final, drain, revents, resources, kernel, clock, result>>

\* The loop over all slots is over.
FinallyDrained ==
  /\ pc = "drain" /\ todo = {} /\ final
  /\ pc' = "cleanup" /\ todo' = slots
  /\ UNCHANGED <<cap, final, drain, revents, resources, kernel, clock, result>>

\* munmap, close
Release(s) ==
  /\ pc = "cleanup" /\ AtFront(s)
  /\ todo' = todo \ {s}
  /\ maps' = maps \ {s}
  /\ fds' = fds \ {s}
  /\ enabled' = enabled \ {s}
  /\ UNCHANGED <<pc, cap, final, drain, revents, slots, kernel, clock, result>>

Return ==
  /\ pc = "cleanup" /\ todo = {}
  /\ pc' = "done" /\ cap' = "ready"
  /\ UNCHANGED <<todo, final, drain, revents, resources, kernel, clock, result>>
-----------------------------------------------------------------------------
AtSlot(s) ==
  \/ OpenFails(s) \/ OpenSucceeds(s) \/ MmapFails(s) \/ MmapSucceeds(s)
  \/ Enable(s) \/ EnableFails(s)
  \/ DrainBegin(s) \/ DrainRecord(s) \/ DrainEnd(s) \/ DrainRejects(s)
  \/ Release(s)

Between ==
  \/ ProbeRefused \/ ProbeReady \/ NothingOpened \/ AllOpened \/ AllEnabled
  \/ PollTimeout \/ PollReady \/ PollInterrupted \/ PollFails \/ TimeIsUp
  \/ Drained \/ FinallyDrained \/ Return

Run == Between \/ \E s \in Slots : AtSlot(s)

Kernel == \E s \in Slots : Emit(s, "sample") \/ Emit(s, "other")

-----------------------------------------------------------------------------
(* Properties                                                              *)

\* The records of ring[s] that drain() has parsed and not yet released.
Read(s) == IF pc = "drainloop" /\ AtFront(s) THEN parsed ELSE 0

\* The places in ring[s] of the records not yet parsed.
Pending(s) == {i \in DOMAIN ring[s] : Read(s) < i}

\* What those records stand for: themselves, or the records whose loss a
\* PERF_RECORD_LOST reports.
Worth(s) ==
  Total([i \in Pending(s) |-> IF ring[s][i].kind = "lost" THEN ring[s][i].n ELSE 1])

\* Every record the kernel produced is in exactly one place: captured, ignored,
\* added to lost_samples, still in a buffer, or dropped and not yet reported.
\* drain() neither loses nor repeats a record that arrives while it parses.
RecordsAccounted ==
  Total(offered) = Len(out) + ignored + lost
                     + Total([s \in Slots |-> Worth(s)]) + Total(klost)

\* The places in `out' of the samples of slot s, and in ring[s] of the samples
\* still to be parsed.
CapturedOf(s) == {i \in DOMAIN out : out[i].slot = s}
WaitingOf(s)  == {i \in Pending(s) : ring[s][i].kind = "sample"}

\* A slot's events reach `out' in the order the kernel produced them, each at
\* most once, and all that is still to be read of its buffer is younger.
SlotOrder ==
  \A s \in Slots :
    /\ \A i, j \in CapturedOf(s) : i < j => out[i].n < out[j].n
    /\ \A i, j \in WaitingOf(s) : i < j => ring[s][i].n < ring[s][j].n
    /\ \A i \in CapturedOf(s), j \in WaitingOf(s) : out[i].n < ring[s][j].n

\* A slot is opened, mapped, enabled and given back in this order.  Every exit
\* of run() - refused, nothing opened, poll() failed or time up - gives back
\* each descriptor and mapping; an enabled event has its descriptor and its
\* buffer; and no event is enabled while another one is still to be opened or
\* mapped (F-04), so no slot's samples start before the last buffer exists.
SlotLifecycle ==
  /\ pc = "done" => fds = {} /\ maps = {}
  /\ enabled \subseteq maps /\ maps \subseteq fds
  /\ enabled # {} => pc \notin {"probe", "open", "mmap"} /\ fds \subseteq slots
=============================================================================
