------------------------------- MODULE SpscRing -------------------------------
(***************************************************************************)
(* xsprof::RingBuffer (include/xsprof/ring_buffer.hpp): the lock-free ring *)
(* between one collector thread, which calls push(), and one pipeline      *)
(* thread, which calls pop() and empty().                                  *)
(*                                                                         *)
(* Every load, cell access and store of the two methods is a step of its   *)
(* own.  A thread reads its own index with a relaxed load and therefore    *)
(* sees its own last store.  The other thread's index is read with an      *)
(* acquire load, which the memory model lets return an earlier store:      *)
(* headSeen and tailSeen are the stores that have become visible so far,   *)
(* and each visibility step lets one more through, in store order.         *)
(***************************************************************************)
EXTENDS Naturals, Sequences

CONSTANTS Capacity,  \* the constructor's argument
          Values,    \* the samples
          None       \* what a variable of type T holds before any sample

ASSUME RingAssumption ==
  /\ Capacity \in Nat
  /\ None \notin Values

VARIABLES
  buf,       \* buf_: the cells
  head,      \* head_: the producer's last store
  tail,      \* tail_: the consumer's last store
  headSeen,  \* the store to head_ that the consumer's next acquire load returns
  tailSeen,  \* the store to tail_ that the producer's next acquire load returns
  ppc,       \* where the producer is in push(): idle, check, write, publish
  pval,      \* the argument of the running push()
  cpc,       \* where the consumer is in pop(): idle, check, read, release
  cval,      \* `out' of the running pop()
  pushRet,   \* the last result of push()
  popRet,    \* the last sample delivered by pop(), None when it returned false
  emptyRet   \* the last result of empty()

vars == <<buf, head, tail, headSeen, tailSeen, ppc, pval, cpc, cval,
          pushRet, popRet, emptyRet>>

\* cap_: one cell more than the capacity, so that full and empty differ.
Cap == Capacity + 1

Index == 0 .. Cap - 1

\* The index after i.
NextIndex(i) == (i + 1) % Cap

\* How many steps lead from index i forward to index j.
Dist(i, j) == IF i <= j THEN j - i ELSE j + Cap - i

\* The cell k steps after index i.
Plus(i, k) == IF i + k < Cap THEN i + k ELSE i + k - Cap

Init ==
  /\ buf = [i \in Index |-> None]
  /\ head = 0 /\ tail = 0
  /\ headSeen = 0 /\ tailSeen = 0
  /\ ppc = "idle" /\ pval = None
  /\ cpc = "idle" /\ cval = None
  /\ pushRet = TRUE /\ popRet = None /\ emptyRet = TRUE
-----------------------------------------------------------------------------
(* The producer: push(v).                                                  *)

\* The collector calls push(v); the relaxed load of head_ returns `head'.
PushCall(v) ==
  /\ ppc = "idle"
  /\ ppc' = "check"
  /\ pval' = v
  /\ UNCHANGED <<buf, head, tail, headSeen, tailSeen, cpc, cval,
                 pushRet, popRet, emptyRet>>

\* Mutant of Full: the test is dropped.
FullNever == FALSE

\* The full test: does the next index run into the tail_ that is loaded here?
Full == NextIndex(head) = tailSeen

\* Full: push() returns false and touches nothing.
PushFull ==
  /\ ppc = "check"
  /\ Full
  /\ ppc' = "idle"
  /\ pval' = None
  /\ pushRet' = FALSE
  /\ UNCHANGED <<buf, head, tail, headSeen, tailSeen, cpc, cval, popRet, emptyRet>>

PushRoom ==
  /\ ppc = "check"
  /\ ~Full
  /\ ppc' = "write"
  /\ UNCHANGED <<buf, head, tail, headSeen, tailSeen, pval, cpc, cval,
                 pushRet, popRet, emptyRet>>

\* Mutant of PushWrite: the cell after head_ is written.
PushWriteNextCell ==
  /\ ppc = "write"
  /\ buf' = [buf EXCEPT ![NextIndex(head)] = pval]
  /\ ppc' = "publish"
  /\ UNCHANGED <<head, tail, headSeen, tailSeen, pval, cpc, cval,
                 pushRet, popRet, emptyRet>>

\* The plain store to the cell at head_.
PushWrite ==
  /\ ppc = "write"
  /\ buf' = [buf EXCEPT ![head] = pval]
  /\ ppc' = "publish"
  /\ UNCHANGED <<head, tail, headSeen, tailSeen, pval, cpc, cval,
                 pushRet, popRet, emptyRet>>

\* The release store of head_, and return true.
PushPublish ==
  /\ ppc = "publish"
  /\ head' = NextIndex(head)
  /\ ppc' = "idle"
  /\ pval' = None
  /\ pushRet' = TRUE
  /\ UNCHANGED <<buf, tail, headSeen, tailSeen, cpc, cval, popRet, emptyRet>>
-----------------------------------------------------------------------------
(* The consumer: pop(out) and empty().                                     *)

\* The pipeline calls pop(); the relaxed load of tail_ returns `tail'.
PopCall ==
  /\ cpc = "idle"
  /\ cpc' = "check"
  /\ UNCHANGED <<buf, head, tail, headSeen, tailSeen, ppc, pval, cval,
                 pushRet, popRet, emptyRet>>

\* The empty test, against the head_ that is loaded here.
Empty == tail = headSeen

PopEmpty ==
  /\ cpc = "check"
  /\ Empty
  /\ cpc' = "idle"
  /\ popRet' = None
  /\ UNCHANGED <<buf, head, tail, headSeen, tailSeen, ppc, pval, cval,
                 pushRet, emptyRet>>

PopSome ==
  /\ cpc = "check"
  /\ ~Empty
  /\ cpc' = "read"
  /\ UNCHANGED <<buf, head, tail, headSeen, tailSeen, ppc, pval, cval,
                 pushRet, popRet, emptyRet>>

\* The plain load of the cell at tail_.
PopRead ==
  /\ cpc = "read"
  /\ cval' = buf[tail]
  /\ cpc' = "release"
  /\ UNCHANGED <<buf, head, tail, headSeen, tailSeen, ppc, pval,
                 pushRet, popRet, emptyRet>>

\* Mutant of PopRelease: tail_ is not stored.
PopReleaseNoStore ==
  /\ cpc = "release"
  /\ popRet' = cval
  /\ cval' = None
  /\ cpc' = "idle"
  /\ UNCHANGED <<buf, head, tail, headSeen, tailSeen, ppc, pval, pushRet, emptyRet>>

\* The release store of tail_, and return true with the sample in `out'.
PopRelease ==
  /\ cpc = "release"
  /\ tail' = NextIndex(tail)
  /\ popRet' = cval
  /\ cval' = None
  /\ cpc' = "idle"
  /\ UNCHANGED <<buf, head, headSeen, tailSeen, ppc, pval, pushRet, emptyRet>>

\* empty(), called by the consumer between two pops: its own tail_ cannot
\* change meanwhile, so only the load of head_ matters.
AskEmpty ==
  /\ cpc = "idle"
  /\ emptyRet' = Empty
  /\ UNCHANGED <<buf, head, tail, headSeen, tailSeen, ppc, pval, cpc, cval,
                 pushRet, popRet>>
-----------------------------------------------------------------------------
(* The memory system: one more store of an index becomes visible.          *)

HeadBecomesVisible ==
  /\ headSeen # head
  /\ headSeen' = Plus(headSeen, 1)
  /\ UNCHANGED <<buf, head, tail, tailSeen, ppc, pval, cpc, cval,
                 pushRet, popRet, emptyRet>>

TailBecomesVisible ==
  /\ tailSeen # tail
  /\ tailSeen' = Plus(tailSeen, 1)
  /\ UNCHANGED <<buf, head, tail, headSeen, ppc, pval, cpc, cval,
                 pushRet, popRet, emptyRet>>

Producer == (\E v \in Values : PushCall(v)) \/ PushFull \/ PushRoom \/ PushWrite \/ PushPublish
Consumer == PopCall \/ PopEmpty \/ PopSome \/ PopRead \/ PopRelease \/ AskEmpty

Next == Producer \/ Consumer \/ HeadBecomesVisible \/ TailBecomesVisible

Spec == Init /\ [][Next]_vars

\* A running push() finishes (the method never blocks), the pipeline keeps
\* calling pop(), and a store becomes visible in finite time.
Fairness ==
  /\ WF_vars(PushFull \/ PushRoom \/ PushWrite \/ PushPublish)
  /\ WF_vars(PopCall) /\ WF_vars(PopEmpty \/ PopSome \/ PopRead \/ PopRelease)
  /\ WF_vars(HeadBecomesVisible) /\ WF_vars(TailBecomesVisible)

FairSpec == Spec /\ Fairness
-----------------------------------------------------------------------------
(* Properties                                                              *)

\* Every variable stays in the range its C++ type and the two methods give it.
TypeOK ==
  /\ buf \in [Index -> Values \cup {None}]
  /\ head \in Index /\ tail \in Index
  /\ headSeen \in Index /\ tailSeen \in Index
  /\ ppc \in {"idle", "check", "write", "publish"}
  /\ pval \in Values \cup {None}
  /\ cpc \in {"idle", "check", "read", "release"}
  /\ cval \in Values \cup {None}
  /\ pushRet \in BOOLEAN /\ emptyRet \in BOOLEAN
  /\ popRet \in Values \cup {None}

\* The producer never writes a cell (buf_[head] = v) that the consumer may be
\* reading (out = buf_[tail]): with plain cell accesses that would be a data race.
NoDataRace == ppc = "write" /\ cpc = "read" => head # tail

\* The samples in the ring, oldest first: what the detailed state means.
Contents == [k \in 1 .. Dist(tail, head) |-> buf[Plus(tail, k - 1)]]

Fifo == INSTANCE BoundedFifo WITH q <- Contents

\* push(), pop() and empty() behave as the bounded queue of BoundedFifo: no
\* sample accepted by push() is lost, duplicated, reordered or changed, and a
\* rejected one never appears.
ImplementsFifo == Fifo!Spec

\* The oldest sample in the ring does not stay there: as long as the pipeline
\* keeps polling, pop() moves past it, however stale the indices it loads.
OldestLeaves == \A i \in Index : (tail = i /\ Contents # <<>>) ~> (tail # i)

\* A rejection is temporary: a collector that keeps calling push() is told
\* "accepted" again, because each pop() of the pipeline makes room for it.
RejectionIsTemporary == []<>(ppc = "check") => (~pushRet ~> pushRet)

\* The handoff keeps moving: samples leave, and collectors get room again.
KeepsMoving == OldestLeaves /\ RejectionIsTemporary
=============================================================================
