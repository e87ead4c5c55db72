------------------------------ MODULE BpfCapture ------------------------------
(***************************************************************************)
(* xsprof::bpf::BpfLoader (src/bpf/loader.cpp) behind the SafetyGate       *)
(* (src/safety/safety.cpp): load() and capture() of a BPF object, while    *)
(* the attached programs (bpf/*.bpf.c) write events into its ring buffer.  *)
(*                                                                         *)
(* libbpf and the kernel are external; each of their calls may fail where  *)
(* loader.cpp looks at the result.                                         *)
(***************************************************************************)
EXTENDS Naturals, Sequences, FiniteSets

CONSTANTS NumPrograms,  \* programs of the object, attached in order
          RingSize,     \* records the ring buffer map holds
          Duration,     \* duration_ms
          Step,         \* the 100 ms slice of the poll loop
          MaxEvents     \* events that are told apart; the programs never stop

ASSUME BpfAssumption ==
  /\ NumPrograms \in Nat /\ Duration \in Nat /\ MaxEvents \in Nat
  /\ RingSize \in Nat \ {0} /\ Step \in Nat \ {0}

Programs == 1 .. NumPrograms

\* The number shared by all the events after the first MaxEvents.
Beyond == MaxEvents + 1

\* An AuditContext is the set of its members that are true or not empty.
AuditContext == SUBSET {"allow_mutate", "vm_lab_marker", "audit_id", "rollback_id"}

\* A record of the ring buffer, which may be shorter than the event struct.
Entry == [n : Nat, size : {"full", "short"}]

Result == {"none", "loaded", "refused", "skip_no_btf", "skip_no_libbpf", "error"}

VARIABLES
  op,         \* the call: "load" or "capture"
  ctx,        \* its AuditContext
  pc,
  obj,        \* the bpf_object: "closed", "open" or "loaded"
  todo,       \* programs still to attach
  links,      \* attached programs
  rb,         \* the ring_buffer: "none" or "open"
  ring,       \* events in the map that user space has not consumed
  produced,   \* the number of the last event the programs produced (history)
  dropped,    \* the events dropped because bpf_ringbuf_reserve failed (history)
  short,      \* the events whose record is too short for their struct (history)
  abandoned,  \* the events left in the map when it was freed (history)
  remaining,
  out,        \* the captured events that are told apart
  result      \* the LoadResult

stream == <<ring, produced, dropped, short, abandoned>>

vars == <<op, ctx, pc, obj, todo, links, rb, stream, remaining, out, result>>

Init ==
  /\ op \in {"load", "capture"} /\ ctx \in AuditContext
  /\ pc = "gate" /\ obj = "closed" /\ todo = {} /\ links = {} /\ rb = "none"
  /\ ring = <<>> /\ produced = 0 /\ dropped = {} /\ short = {} /\ abandoned = {}
  /\ remaining = Duration /\ out = <<>> /\ result = "none"
-----------------------------------------------------------------------------
(* SafetyGate::decide, and the checks before libbpf is called              *)

\* Mutant of Authorized: an audit id alone is enough.
AuthorizedWithoutRollback ==
  {"allow_mutate", "vm_lab_marker", "audit_id"} \subseteq ctx

Authorized ==
  {"allow_mutate", "vm_lab_marker", "audit_id", "rollback_id"} \subseteq ctx

Answer(r) == pc' = "done" /\ result' = r

Refuse ==
  /\ pc = "gate" /\ ~Authorized
  /\ Answer("refused")
  /\ UNCHANGED <<op, ctx, obj, todo, links, rb, stream, remaining, out>>

\* No BTF on this kernel, or no libbpf in this build.
Unsupported ==
  /\ pc = "gate" /\ Authorized
  /\ Answer("skip_no_btf") \/ Answer("skip_no_libbpf")
  /\ UNCHANGED <<op, ctx, obj, todo, links, rb, stream, remaining, out>>

OpenFails ==
  /\ pc = "gate" /\ Authorized
  /\ Answer("error")
  /\ UNCHANGED <<op, ctx, obj, todo, links, rb, stream, remaining, out>>

OpenFile ==
  /\ pc = "gate" /\ Authorized
  /\ pc' = "load" /\ obj' = "open"
  /\ UNCHANGED <<op, ctx, todo, links, rb, stream, remaining, out, result>>

\* bpf_object__load fails (the verifier refuses): close.
LoadFails ==
  /\ pc = "load"
  /\ obj' = "closed" /\ Answer("error")
  /\ UNCHANGED <<op, ctx, todo, links, rb, stream, remaining, out>>

\* load() closes the object at once; capture() goes on to attach.
LoadSucceeds ==
  /\ pc = "load"
  /\ \/ op = "load" /\ obj' = "closed" /\ Answer("loaded") /\ UNCHANGED todo
     \/ /\ op = "capture" /\ obj' = "loaded"
        /\ pc' = "attach" /\ todo' = Programs /\ UNCHANGED result
  /\ UNCHANGED <<op, ctx, links, rb, stream, remaining, out>>
-----------------------------------------------------------------------------
(* capture()                                                               *)

AtFront(p) == p \in todo /\ \A q \in todo : p <= q

\* Without a link the program is passed over, and nobody is told.
AttachFails(p) ==
  /\ pc = "attach" /\ AtFront(p)
  /\ todo' = todo \ {p}
  /\ UNCHANGED <<op, ctx, pc, obj, links, rb, stream, remaining, out, result>>

Attach(p) ==
  /\ pc = "attach" /\ AtFront(p)
  /\ todo' = todo \ {p}
  /\ links' = links \cup {p}
  /\ UNCHANGED <<op, ctx, pc, obj, rb, stream, remaining, out, result>>

\* The map goes with the object, and what is in it.
FreeMap ==
  /\ ring' = <<>>
  /\ abandoned' = abandoned \cup {ring[i].n : i \in DOMAIN ring}
  /\ UNCHANGED <<produced, dropped, short>>

\* Mutant of NoRingBuffer: the links stay.
NoRingBufferKeepsLinks ==
  /\ pc = "attach" /\ todo = {}
  /\ obj' = "closed"
  /\ Answer("error")
  /\ FreeMap
  /\ UNCHANGED <<op, ctx, todo, links, rb, remaining, out>>

\* No map of that name, or ring_buffer__new fails: destroy the links, close.
NoRingBuffer ==
  /\ pc = "attach" /\ todo = {}
  /\ links' = {} /\ obj' = "closed"
  /\ Answer("error")
  /\ FreeMap
  /\ UNCHANGED <<op, ctx, todo, rb, remaining, out>>

RingBuffer ==
  /\ pc = "attach" /\ todo = {}
  /\ pc' = "poll" /\ rb' = "open"
  /\ UNCHANGED <<op, ctx, obj, todo, links, stream, remaining, out, result>>

\* Mutant of Slice: a timeout costs nothing.
SliceZero == 0

\* int step = remaining > 100 ? 100 : remaining
Slice == IF remaining > Step THEN Step ELSE remaining

\* ring_buffer__poll times out, or is interrupted: the slice is spent.
PollNothing ==
  /\ pc = "poll" /\ remaining > 0
  /\ remaining' = remaining - Slice
  /\ UNCHANGED <<op, ctx, pc, obj, todo, links, rb, stream, out, result>>

\* There is data: ring_buffer__poll consumes until it finds no more.
PollData ==
  /\ pc = "poll" /\ remaining > 0 /\ ring # <<>>
  /\ pc' = "consume"
  /\ UNCHANGED <<op, ctx, obj, todo, links, rb, stream, remaining, out, result>>

\* Mutant of handle_event: the size is not looked at.
AppendAnySize(e) == IF e.n = Beyond THEN out ELSE Append(out, e.n)

\* handle_event() for one record: what `out' holds then. A record that is too
\* short is ignored.
handle_event(e) ==
  IF e.size = "short" \/ e.n = Beyond THEN out ELSE Append(out, e.n)

Consume ==
  /\ pc = "consume" /\ ring # <<>>
  /\ out' = handle_event(Head(ring))
  /\ ring' = Tail(ring)
  /\ UNCHANGED <<op, ctx, pc, obj, todo, links, rb, produced, dropped, short,
                 abandoned, remaining, result>>

\* No more data, however long that took: one slice is spent.
AllConsumed ==
  /\ pc = "consume" /\ ring = <<>>
  /\ pc' = "poll" /\ remaining' = remaining - Slice
  /\ UNCHANGED <<op, ctx, obj, todo, links, rb, stream, out, result>>

\* ring_buffer__poll fails with something else than EINTR: break.
PollFails ==
  /\ pc = "poll" /\ remaining > 0
  /\ pc' = "free"
  /\ UNCHANGED <<op, ctx, obj, todo, links, rb, stream, remaining, out, result>>

TimeIsUp ==
  /\ pc = "poll" /\ remaining = 0
  /\ pc' = "free"
  /\ UNCHANGED <<op, ctx, obj, todo, links, rb, stream, remaining, out, result>>

\* ring_buffer__free, while the programs are still attached.
FreeRing ==
  /\ pc = "free" /\ rb = "open"
  /\ rb' = "none"
  /\ UNCHANGED <<op, ctx, pc, obj, todo, links, stream, remaining, out, result>>

DestroyLink(p) ==
  /\ pc = "free" /\ rb = "none"
  /\ p \in links /\ \A q \in links : p <= q
  /\ links' = links \ {p}
  /\ UNCHANGED <<op, ctx, pc, obj, todo, rb, stream, remaining, out, result>>

CloseObject ==
  /\ pc = "free" /\ rb = "none" /\ links = {}
  /\ obj' = "closed"
  /\ Answer("loaded")
  /\ FreeMap
  /\ UNCHANGED <<op, ctx, todo, links, rb, remaining, out>>
-----------------------------------------------------------------------------
\* An attached program fires, as often as its tracepoint is hit:
\* bpf_ringbuf_reserve fails when the map is full, and the program returns 0.
Fires(p, size) ==
  /\ p \in links
  /\ produced' = IF produced < Beyond THEN produced + 1 ELSE Beyond
  /\ \/ /\ Len(ring) < RingSize
        /\ ring' = Append(ring, [n |-> produced', size |-> size])
        /\ short' = IF size = "short" THEN short \cup {produced'} ELSE short
        /\ UNCHANGED dropped
     \/ /\ Len(ring) = RingSize
        /\ dropped' = dropped \cup {produced'}
        /\ UNCHANGED <<ring, short>>
  /\ UNCHANGED <<op, ctx, pc, obj, todo, links, rb, abandoned, remaining, out, result>>

Loader ==
  \/ Refuse \/ Unsupported \/ OpenFails \/ OpenFile \/ LoadFails \/ LoadSucceeds
  \/ NoRingBuffer \/ RingBuffer
  \/ PollNothing \/ PollData \/ Consume \/ AllConsumed \/ TimeIsUp
  \/ FreeRing \/ CloseObject
  \/ \E p \in Programs : AttachFails(p) \/ Attach(p) \/ DestroyLink(p)

Done == pc = "done" /\ UNCHANGED vars

Next ==
  \/ Loader \/ PollFails
  \/ \E p \in Programs, size \in {"full", "short"} : Fires(p, size)
  \/ Done

Spec == Init /\ [][Next]_vars

\* The caller's thread is scheduled; a program may fire or not, and poll may
\* fail or not.
FairSpec == Spec /\ WF_vars(Loader)
-----------------------------------------------------------------------------
(* Properties                                                              *)

\* The resources of the loader and the ring buffer keep their types and bounds.
TypeOK ==
  /\ op \in {"load", "capture"} /\ ctx \in AuditContext
  /\ pc \in {"gate", "load", "attach", "poll", "consume", "free", "done"}
  /\ obj \in {"closed", "open", "loaded"}
  /\ todo \subseteq Programs /\ links \subseteq Programs /\ rb \in {"none", "open"}
  /\ ring \in Seq(Entry) /\ Len(ring) <= RingSize
  /\ produced \in 0 .. Beyond
  /\ dropped \subseteq Nat /\ short \subseteq Nat /\ abandoned \subseteq Nat
  /\ remaining \in Nat
  /\ out \in Seq(Nat) /\ result \in Result

\* Fail-closed: the kernel is not touched - no object opened, no program
\* attached, no event taken - unless mutation was allowed in a VM lab with both
\* an audit id and a rollback id.
NothingUnauthorized ==
  obj # "closed" \/ links # {} \/ rb = "open" \/ out # <<>> \/ result = "loaded" =>
    {"allow_mutate", "vm_lab_marker", "audit_id", "rollback_id"} \subseteq ctx

\* Every exit closes the object, destroys every link and frees the ring buffer;
\* until then an attached program has its object loaded, and a capture that did
\* not end as "loaded" hands out no event.
NothingLeftBehind ==
  /\ pc = "done" => obj = "closed" /\ links = {} /\ rb = "none"
  /\ links # {} \/ rb = "open" => obj = "loaded"
  /\ result \notin {"none", "loaded"} => out = <<>>

\* capture() hands out events of the programs, each once and in the order they
\* happened, the ring holding only younger ones; none is made of a record too
\* short for its struct; and each of the first MaxEvents that is neither handed
\* out nor still in the ring was dropped by a full ring, too short, or left in
\* the ring when the capture ended.
EachEventOnce ==
  LET all == out \o [i \in DOMAIN ring |-> ring[i].n]
  IN  /\ \A i, j \in DOMAIN all : i < j => all[i] < all[j] \/ all[i] = Beyond
      /\ \A i \in DOMAIN out : out[i] \notin short
      /\ \A n \in 1 .. produced :
           \/ n = Beyond \/ n \in dropped \cup short \cup abandoned
           \/ \E i \in DOMAIN all : all[i] = n

\* load() and capture() return, unless one ring_buffer__poll goes on consuming
\* for ever because the programs refill the ring: the duration is not looked at
\* until it comes back.
Returns == <>(pc = "done") \/ <>[](pc = "consume")
=============================================================================
