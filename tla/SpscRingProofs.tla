---------------------------- MODULE SpscRingProofs ----------------------------
(***************************************************************************)
(* Proofs about SpscRing for every capacity and every set of samples:      *)
(* typing, absence of data races, and refinement of BoundedFifo.           *)
(*                                                                         *)
(* The index arithmetic is done once, in the lemmas about NextIndex, Dist  *)
(* and Plus; the invariant proof then only reasons about the cyclic order  *)
(* tailSeen <= tail <= headSeen <= head.                                   *)
(***************************************************************************)
EXTENDS SpscRing, SequenceTheorems, TLAPS

\* The four indices follow each other around the ring: what the producer knows
\* of tail_ is not ahead of it, the consumer does not pass what it knows of
\* head_, and that is not ahead of head_.
CyclicOrder ==
  /\ Dist(tailSeen, tail) <= Dist(tailSeen, headSeen)
  /\ Dist(tailSeen, headSeen) <= Dist(tailSeen, head)

\* Between the full test and the store of head_, the room found is still there.
RoomHeld == ppc \in {"write", "publish"} => Dist(tailSeen, head) < Capacity

\* Between the empty test and the store of tail_, the sample found is still there.
SampleHeld == cpc \in {"read", "release"} => tail # headSeen

\* What the running calls carry.
Carried ==
  /\ ppc # "idle" => pval \in Values
  /\ ppc = "publish" => buf[head] = pval
  /\ cpc = "release" => cval = buf[tail]

Inv == TypeOK /\ CyclicOrder /\ RoomHeld /\ SampleHeld /\ Carried
-----------------------------------------------------------------------------
(* Index arithmetic                                                        *)

\* The modulo in push() and pop() is a step of one along the ring.
LEMMA NextIsPlus ==
  ASSUME NEW i \in Index
  PROVE  NextIndex(i) = Plus(i, 1)
<1>1. Cap \in Nat /\ Cap > 0 /\ i \in Nat /\ i < Cap
  BY RingAssumption DEF Cap, Index
<1>2. CASE i + 1 < Cap
  BY <1>1, <1>2, (i + 1) % Cap = i + 1 DEF NextIndex, Plus
<1>3. CASE i + 1 = Cap
  BY <1>1, <1>3, Cap % Cap = 0 DEF NextIndex, Plus
<1>. QED  BY <1>1, <1>2, <1>3

\* A distance never exceeds the capacity.
LEMMA DistRange ==
  ASSUME NEW i \in Index, NEW j \in Index
  PROVE  Dist(i, j) \in 0 .. Capacity /\ Dist(i, j) \in Nat
BY RingAssumption DEF Dist, Cap, Index

\* Going the whole distance from i to j ends at j, and no shorter way does.
LEMMA PlusDist ==
  ASSUME NEW i \in Index, NEW j \in Index
  PROVE  /\ Plus(i, Dist(i, j)) = j
         /\ \A k \in 0 .. Dist(i, j) - 1 : Plus(i, k) \in Index \ {j}
BY RingAssumption DEF Dist, Plus, Cap, Index

\* A step forward at the far end lengthens the distance, unless it closes the ring.
LEMMA DistGrows ==
  ASSUME NEW i \in Index, NEW j \in Index, Dist(i, j) < Capacity
  PROVE  Plus(j, 1) \in Index /\ Dist(i, Plus(j, 1)) = Dist(i, j) + 1
BY RingAssumption DEF Dist, Plus, Cap, Index

\* A step forward at the near end shortens it.
LEMMA DistShrinks ==
  ASSUME NEW i \in Index, NEW j \in Index, i # j
  PROVE  Plus(i, 1) \in Index /\ Dist(Plus(i, 1), j) = Dist(i, j) - 1
BY RingAssumption DEF Dist, Plus, Cap, Index

\* The full test of push() asks whether the distance has reached the capacity.
LEMMA FullIsCapacity ==
  ASSUME NEW i \in Index, NEW j \in Index
  PROVE  (NextIndex(j) = i) <=> (Dist(i, j) = Capacity)
<1>1. NextIndex(j) = Plus(j, 1)
  BY NextIsPlus
<1>. QED  BY <1>1, RingAssumption DEF Dist, Plus, Cap, Index

\* Distances from a common origin order the indices and tell them apart.
LEMMA DistSplits ==
  ASSUME NEW o \in Index, NEW i \in Index, NEW j \in Index,
         Dist(o, i) <= Dist(o, j)
  PROVE  /\ Dist(i, j) = Dist(o, j) - Dist(o, i)
         /\ i = j <=> Dist(o, i) = Dist(o, j)
BY RingAssumption DEF Dist, Cap, Index
-----------------------------------------------------------------------------
(* The invariant                                                           *)

\* The invariant holds for an empty ring.
LEMMA InvInit == Init => Inv
BY RingAssumption
   DEF Init, Inv, TypeOK, CyclicOrder, RoomHeld, SampleHeld, Carried, Dist, Index, Cap

\* Each of the five producer steps keeps the invariant.
LEMMA InvProducer ==
  ASSUME Inv, Producer
  PROVE  Inv'
<1>0. /\ head \in Index /\ tail \in Index /\ headSeen \in Index /\ tailSeen \in Index
      /\ None \notin Values
  BY RingAssumption DEF Inv, TypeOK
<1>1. ASSUME NEW v \in Values, PushCall(v) PROVE Inv'
  BY <1>1 DEF Inv, TypeOK, CyclicOrder, RoomHeld, SampleHeld, Carried, PushCall
<1>2. CASE PushFull
  BY <1>2 DEF Inv, TypeOK, CyclicOrder, RoomHeld, SampleHeld, Carried, PushFull
<1>3. CASE PushRoom
  <2>1. Dist(tailSeen, head) < Capacity
    <3>1. NextIndex(head) # tailSeen
      BY <1>3 DEF PushRoom, Full
    <3>2. Dist(tailSeen, head) # Capacity
      BY <1>0, <3>1, FullIsCapacity
    <3>. QED  BY <1>0, <3>2, DistRange, RingAssumption
  <2>. QED
    BY <1>3, <2>1 DEF Inv, TypeOK, CyclicOrder, RoomHeld, SampleHeld, Carried, PushRoom
<1>4. CASE PushWrite
  <2>1. head # tail \/ cpc # "release"
    <3>1. CASE cpc = "release"
      <4>1. Dist(tailSeen, tail) # Dist(tailSeen, headSeen)
        BY <1>0, <3>1, DistSplits DEF Inv, SampleHeld, CyclicOrder
      <4>2. Dist(tailSeen, tail) < Dist(tailSeen, head)
        BY <1>0, <4>1, DistRange DEF Inv, CyclicOrder
      <4>. QED  BY <1>0, <4>2, DistRange
    <3>. QED  BY <3>1
  <2>2. TypeOK'
    BY <1>0, <1>4 DEF Inv, TypeOK, PushWrite
  <2>3. Carried'
    BY <1>0, <1>4, <2>1 DEF Inv, TypeOK, Carried, PushWrite
  <2>. QED
    BY <1>4, <2>2, <2>3 DEF Inv, CyclicOrder, RoomHeld, SampleHeld, PushWrite
<1>5. CASE PushPublish
  <2>1. /\ head' \in Index
        /\ Dist(tailSeen, head') = Dist(tailSeen, head) + 1
    <3>1. Dist(tailSeen, head) < Capacity
      BY <1>5 DEF Inv, RoomHeld, PushPublish
    <3>2. head' = Plus(head, 1)
      BY <1>0, <1>5, NextIsPlus DEF PushPublish
    <3>. QED  BY <1>0, <3>1, <3>2, DistGrows
  <2>2. CyclicOrder'
    BY <1>0, <1>5, <2>1, DistRange DEF Inv, CyclicOrder, PushPublish
  <2>. QED
    BY <1>5, <2>1, <2>2 DEF Inv, TypeOK, RoomHeld, SampleHeld, Carried, PushPublish
<1>. QED  BY <1>1, <1>2, <1>3, <1>4, <1>5 DEF Producer

\* Each of the six consumer steps keeps it.
LEMMA InvConsumer ==
  ASSUME Inv, Consumer
  PROVE  Inv'
<1>0. head \in Index /\ tail \in Index /\ headSeen \in Index /\ tailSeen \in Index
  BY DEF Inv, TypeOK
<1>1. CASE PopCall
  BY <1>1 DEF Inv, TypeOK, CyclicOrder, RoomHeld, SampleHeld, Carried, PopCall
<1>2. CASE PopEmpty
  BY <1>2 DEF Inv, TypeOK, CyclicOrder, RoomHeld, SampleHeld, Carried, PopEmpty
<1>3. CASE PopSome
  BY <1>3 DEF Inv, TypeOK, CyclicOrder, RoomHeld, SampleHeld, Carried, PopSome, Empty
<1>4. CASE PopRead
  BY <1>0, <1>4 DEF Inv, TypeOK, CyclicOrder, RoomHeld, SampleHeld, Carried, PopRead
<1>5. CASE PopRelease
  <2>1. /\ tail # headSeen
        /\ tail' = Plus(tail, 1)
    BY <1>0, <1>5, NextIsPlus DEF Inv, SampleHeld, PopRelease
  <2>2. Dist(tailSeen, tail) < Dist(tailSeen, headSeen)
    <3>1. Dist(tailSeen, tail) # Dist(tailSeen, headSeen)
      BY <1>0, <2>1, DistSplits DEF Inv, CyclicOrder
    <3>. QED  BY <1>0, <3>1, DistRange DEF Inv, CyclicOrder
  <2>3. /\ tail' \in Index
        /\ Dist(tailSeen, tail') = Dist(tailSeen, tail) + 1
    <3>1. Dist(tailSeen, tail) < Capacity
      BY <1>0, <2>2, DistRange, RingAssumption
    <3>. QED  BY <1>0, <2>1, <3>1, DistGrows
  <2>4. CyclicOrder'
    BY <1>0, <1>5, <2>2, <2>3, DistRange DEF Inv, CyclicOrder, PopRelease
  <2>. QED
    BY <1>5, <2>3, <2>4 DEF Inv, TypeOK, RoomHeld, SampleHeld, Carried, PopRelease
<1>6. CASE AskEmpty
  BY <1>6 DEF Inv, TypeOK, CyclicOrder, RoomHeld, SampleHeld, Carried, AskEmpty, Empty
<1>. QED  BY <1>1, <1>2, <1>3, <1>4, <1>5, <1>6 DEF Consumer

\* A store that becomes visible moves a seen index towards the real one.
LEMMA InvVisible ==
  ASSUME Inv, HeadBecomesVisible \/ TailBecomesVisible
  PROVE  Inv'
<1>0. head \in Index /\ tail \in Index /\ headSeen \in Index /\ tailSeen \in Index
  BY DEF Inv, TypeOK
<1>1. CASE HeadBecomesVisible
  <2>1. Dist(tailSeen, headSeen) < Dist(tailSeen, head)
    BY <1>0, <1>1, DistSplits, DistRange DEF Inv, CyclicOrder, HeadBecomesVisible
  <2>2. /\ headSeen' \in Index
        /\ Dist(tailSeen, headSeen') = Dist(tailSeen, headSeen) + 1
    <3>1. Dist(tailSeen, headSeen) < Capacity
      BY <1>0, <2>1, DistRange, RingAssumption
    <3>. QED  BY <1>0, <1>1, <3>1, DistGrows DEF HeadBecomesVisible
  <2>3. CyclicOrder'
    BY <1>0, <1>1, <2>1, <2>2, DistRange DEF Inv, CyclicOrder, HeadBecomesVisible
  <2>4. SampleHeld'
    <3>1. Dist(tailSeen, tail) < Dist(tailSeen, headSeen')
      BY <1>0, <2>2, DistRange DEF Inv, CyclicOrder
    <3>. QED  BY <1>0, <1>1, <2>2, <3>1, DistRange DEF SampleHeld, HeadBecomesVisible
  <2>. QED
    BY <1>1, <2>2, <2>3, <2>4 DEF Inv, TypeOK, RoomHeld, Carried, HeadBecomesVisible
<1>2. CASE TailBecomesVisible
  <2>1. /\ tailSeen # tail
        /\ tailSeen' = Plus(tailSeen, 1)
    BY <1>2 DEF TailBecomesVisible
  <2>2. /\ 0 < Dist(tailSeen, tail)
        /\ 0 < Dist(tailSeen, headSeen)
        /\ 0 < Dist(tailSeen, head)
    <3>1. Dist(tailSeen, tail) # 0
      BY <1>0, <2>1, RingAssumption DEF Dist, Index, Cap
    <3>. QED  BY <1>0, <3>1, DistRange DEF Inv, CyclicOrder
  <2>3. tailSeen # headSeen /\ tailSeen # head
    BY <1>0, <2>2, RingAssumption DEF Dist, Index, Cap
  <2>4. /\ tailSeen' \in Index
        /\ Dist(tailSeen', tail) = Dist(tailSeen, tail) - 1
        /\ Dist(tailSeen', headSeen) = Dist(tailSeen, headSeen) - 1
        /\ Dist(tailSeen', head) = Dist(tailSeen, head) - 1
    BY <1>0, <2>1, <2>3, DistShrinks
  <2>5. CyclicOrder' /\ RoomHeld'
    BY <1>0, <1>2, <2>4, DistRange, RingAssumption
       DEF Inv, CyclicOrder, RoomHeld, TailBecomesVisible
  <2>. QED
    BY <1>2, <2>4, <2>5 DEF Inv, TypeOK, SampleHeld, Carried, TailBecomesVisible
<1>. QED  BY <1>1, <1>2

\* Every step of either thread, and every store that becomes visible, keeps it.
LEMMA InvNext == Inv /\ [Next]_vars => Inv'
<1>1. ASSUME Inv, UNCHANGED vars PROVE Inv'
  BY <1>1 DEF Inv, TypeOK, CyclicOrder, RoomHeld, SampleHeld, Carried, vars
<1>. QED  BY <1>1, InvProducer, InvConsumer, InvVisible DEF Next

\* The inductive invariant holds in every reachable state.
THEOREM RingInvariant == Spec => []Inv
BY InvInit, InvNext, PTL DEF Spec

\* Every variable of the ring keeps its type, for every capacity.
THEOREM RingTypeOK == Spec => []TypeOK
<1>1. Inv => TypeOK
  BY DEF Inv
<1>. QED  BY <1>1, RingInvariant, PTL

\* buf_[head] is never written while buf_[tail] is the same cell and is being
\* read, for every capacity and however late the index stores become visible.
THEOREM RingNoDataRace == Spec => []NoDataRace
<1>1. ASSUME Inv PROVE NoDataRace
  <2>1. CASE ppc = "write" /\ cpc = "read"
    <3>0. head \in Index /\ tail \in Index /\ headSeen \in Index /\ tailSeen \in Index
      BY <1>1 DEF Inv, TypeOK
    <3>1. Dist(tailSeen, tail) < Dist(tailSeen, headSeen)
      BY <1>1, <2>1, <3>0, DistSplits, DistRange DEF Inv, SampleHeld, CyclicOrder
    <3>2. Dist(tailSeen, tail) < Dist(tailSeen, head)
      BY <1>1, <3>0, <3>1, DistRange DEF Inv, CyclicOrder
    <3>. QED  BY <3>0, <3>2, DistRange DEF NoDataRace
  <2>. QED  BY <2>1 DEF NoDataRace
<1>. QED  BY <1>1, RingInvariant, PTL

-----------------------------------------------------------------------------
(* Refinement: the ring is a bounded FIFO queue                            *)

\* The consumer's view of the order, seen from tail_: how full the ring is.
LEMMA ContentsLength ==
  ASSUME Inv
  PROVE  /\ tail \in Index /\ head \in Index
         /\ Dist(tail, head) \in Nat
         /\ Dist(tail, head) = Dist(tailSeen, head) - Dist(tailSeen, tail)
         /\ Dist(tailSeen, tail) \in Nat /\ Dist(tailSeen, head) \in Nat
         /\ Contents \in Seq(Values \cup {None})
         /\ Len(Contents) = Dist(tail, head)
<1>0. head \in Index /\ tail \in Index /\ headSeen \in Index /\ tailSeen \in Index
  BY DEF Inv, TypeOK
<1>1. Dist(tailSeen, tail) <= Dist(tailSeen, head)
  BY <1>0, DistRange DEF Inv, CyclicOrder
<1>2. Dist(tail, head) = Dist(tailSeen, head) - Dist(tailSeen, tail)
  BY <1>0, <1>1, DistSplits
<1>3. Dist(tail, head) \in Nat
  BY <1>0, DistRange
<1>4. \A k \in 1 .. Dist(tail, head) : buf[Plus(tail, k - 1)] \in Values \cup {None}
  <2>. SUFFICES ASSUME NEW k \in 1 .. Dist(tail, head)
                PROVE  buf[Plus(tail, k - 1)] \in Values \cup {None}
    OBVIOUS
  <2>1. k - 1 \in 0 .. Dist(tail, head) - 1
    BY <1>3
  <2>2. Plus(tail, k - 1) \in Index
    BY <1>0, <2>1, PlusDist
  <2>. QED  BY <2>2 DEF Inv, TypeOK
<1>5. Contents \in Seq(Values \cup {None}) /\ Len(Contents) = Dist(tail, head)
  BY <1>3, <1>4 DEF Contents
<1>. QED  BY <1>0, <1>2, <1>3, <1>5, DistRange

\* Storing head_ appends the carried sample; there was room for it.
LEMMA PublishAppends ==
  ASSUME Inv, PushPublish
  PROVE  /\ pval \in Values
         /\ Len(Contents) < Capacity
         /\ Contents' = Append(Contents, pval)
<1>. DEFINE n == Dist(tail, head)
<1>1. /\ pval \in Values /\ buf[head] = pval
      /\ Dist(tailSeen, head) < Capacity
  BY DEF Inv, Carried, RoomHeld, PushPublish
<1>2. /\ n \in Nat /\ n < Capacity /\ Len(Contents) = n
      /\ tail \in Index /\ head \in Index
  BY <1>1, ContentsLength, RingAssumption
<1>3. /\ tail' = tail /\ buf' = buf
      /\ Dist(tail, head') = n + 1
  BY <1>2, NextIsPlus, DistGrows DEF PushPublish
<1>4. Contents' = [k \in 1 .. n + 1 |-> buf[Plus(tail, k - 1)]]
  BY <1>3 DEF Contents
<1>5. buf[Plus(tail, n)] = pval
  BY <1>1, <1>2, PlusDist
<1>6. Contents = [k \in 1 .. n |-> buf[Plus(tail, k - 1)]]
  BY DEF Contents
<1>7. Append(Contents, pval) = [k \in 1 .. n + 1 |-> IF k = n + 1 THEN pval
                                                   ELSE buf[Plus(tail, k - 1)]]
  <2>. HIDE DEF n
  <2>1. Append(Contents, pval) = [k \in 1 .. n + 1 |->
                                   IF k = n + 1 THEN pval ELSE Contents[k]]
    <3>. DEFINE longer == [k \in 1 .. n + 1 |-> IF k = n + 1 THEN pval ELSE Contents[k]]
    <3>1. longer \in Seq(Values \cup {None}) /\ Len(longer) = n + 1
      BY <1>1, <1>2, ContentsLength
    <3>2. /\ Append(Contents, pval) \in Seq(Values \cup {None})
          /\ Len(Append(Contents, pval)) = n + 1
          /\ \A k \in 1 .. n : Append(Contents, pval)[k] = Contents[k]
          /\ Append(Contents, pval)[n + 1] = pval
      BY <1>1, <1>2, ContentsLength, AppendProperties
    <3>3. \A k \in 1 .. n + 1 : Append(Contents, pval)[k] = longer[k]
      BY <1>2, <3>2
    <3>. HIDE DEF longer
    <3>4. Append(Contents, pval) = longer
      BY <3>1, <3>2, <3>3, SeqEqual
    <3>. QED  BY <3>4 DEF longer
  <2>2. \A k \in 1 .. n + 1 : k # n + 1 => Contents[k] = buf[Plus(tail, k - 1)]
    BY <1>2, <1>6
  <2>. QED  BY <1>2, <2>1, <2>2
<1>8. \A k \in 1 .. n + 1 : k = n + 1 => buf[Plus(tail, k - 1)] = pval
  BY <1>2, <1>5
<1>. HIDE DEF n
<1>. QED  BY <1>1, <1>2, <1>4, <1>7, <1>8

\* The plain store to the cell at head_ is outside the samples in the ring.
LEMMA WriteKeepsContents ==
  ASSUME Inv, PushWrite
  PROVE  Contents' = Contents
<1>1. /\ tail' = tail /\ head' = head
      /\ buf' = [buf EXCEPT ![head] = pval] /\ buf \in [Index -> Values \cup {None}]
      /\ tail \in Index /\ head \in Index /\ Dist(tail, head) \in Nat
  BY ContentsLength DEF PushWrite, Inv, TypeOK
<1>2. ASSUME NEW k \in 1 .. Dist(tail, head)
      PROVE  buf'[Plus(tail, k - 1)] = buf[Plus(tail, k - 1)]
  <2>1. k - 1 \in 0 .. Dist(tail, head) - 1
    BY <1>1, <1>2
  <2>2. Plus(tail, k - 1) \in Index \ {head}
    BY <1>1, <2>1, PlusDist
  <2>. QED  BY <1>1, <2>2
<1>. QED  BY <1>1, <1>2 DEF Contents

\* Storing tail_ removes the oldest sample, which is the one in `out'.
LEMMA ReleaseDelivers ==
  ASSUME Inv, PopRelease
  PROVE  /\ Contents # <<>>
         /\ popRet' = Head(Contents)
         /\ Contents' = Tail(Contents)
<1>. DEFINE n == Dist(tail, head)
<1>0. head \in Index /\ tail \in Index /\ headSeen \in Index /\ tailSeen \in Index
  BY DEF Inv, TypeOK
<1>1. /\ tail # headSeen /\ cval = buf[tail] /\ popRet' = cval
      /\ head' = head /\ buf' = buf /\ tail' = Plus(tail, 1)
  BY <1>0, NextIsPlus DEF Inv, SampleHeld, Carried, PopRelease
<1>2. Dist(tailSeen, tail) < Dist(tailSeen, head)
  <2>1. Dist(tailSeen, tail) # Dist(tailSeen, headSeen)
    BY <1>0, <1>1, DistSplits DEF Inv, CyclicOrder
  <2>. QED  BY <1>0, <2>1, DistRange DEF Inv, CyclicOrder
<1>3. n \in Nat /\ n > 0 /\ Len(Contents) = n /\ Contents \in Seq(Values \cup {None})
  BY <1>2, ContentsLength
<1>4. tail # head
  BY <1>0, <1>2, DistRange
<1>5. Dist(tail', head) = n - 1
  BY <1>0, <1>1, <1>4, DistShrinks
<1>6. Contents = [k \in 1 .. n |-> buf[Plus(tail, k - 1)]]
  BY DEF Contents
<1>7. Contents' = [k \in 1 .. n - 1 |-> buf[Plus(tail', k - 1)]]
  BY <1>1, <1>5 DEF Contents
<1>8. \A k \in 1 .. n - 1 : Plus(tail', k - 1) = Plus(tail, k)
  BY <1>0, <1>1, <1>3, <1>4, RingAssumption DEF Plus, Dist, Cap, Index
<1>9. Plus(tail, 0) = tail
  BY <1>0, RingAssumption DEF Plus, Cap, Index
<1>. HIDE DEF n
<1>10. Contents # <<>> /\ Head(Contents) = buf[tail]
  BY <1>3, <1>6, <1>9
<1>11. Tail(Contents) = [k \in 1 .. n - 1 |-> buf[Plus(tail, k)]]
  <2>1. Tail(Contents) = [k \in 1 .. n - 1 |-> Contents[k + 1]]
    <3>. DEFINE rest == [k \in 1 .. n - 1 |-> Contents[k + 1]]
    <3>1. rest \in Seq(Values \cup {None}) /\ Len(rest) = n - 1
      BY <1>3
    <3>2. /\ Tail(Contents) \in Seq(Values \cup {None})
          /\ Len(Tail(Contents)) = n - 1
          /\ \A k \in 1 .. n - 1 : Tail(Contents)[k] = Contents[k + 1]
      BY <1>3, <1>10, HeadTailProperties
    <3>. QED  BY <3>1, <3>2, SeqEqual
  <2>2. \A k \in 1 .. n - 1 : Contents[k + 1] = buf[Plus(tail, k)]
    BY <1>3, <1>6
  <2>. QED  BY <2>1, <2>2
<1>12. Contents' = Tail(Contents)
  BY <1>7, <1>8, <1>11
<1>. QED  BY <1>1, <1>10, <1>12

\* Every step of the ring is a step of the queue, or leaves the queue alone.
LEMMA RefinesNext ==
  ASSUME Inv, [Next]_vars
  PROVE  [Fifo!Next]_(Fifo!vars)
<1>. USE DEF Fifo!Next, Fifo!vars
<1>1. ASSUME NEW v \in Values, PushCall(v) PROVE UNCHANGED Fifo!vars
  BY <1>1 DEF PushCall, Contents
<1>2. CASE PushFull
  BY <1>2 DEF PushFull, Contents, Fifo!Reject
<1>3. CASE PushRoom
  BY <1>3 DEF PushRoom, Contents
<1>4. CASE PushWrite
  BY <1>4, WriteKeepsContents DEF PushWrite
<1>5. CASE PushPublish
  <2>1. pushRet' = TRUE /\ UNCHANGED <<popRet, emptyRet>>
    BY <1>5 DEF PushPublish
  <2>2. Fifo!Accept(pval) /\ pval \in Values
    BY <1>5, <2>1, PublishAppends DEF Fifo!Accept
  <2>. QED  BY <2>2
<1>6. CASE PopCall
  BY <1>6 DEF PopCall, Contents
<1>7. CASE PopEmpty
  BY <1>7 DEF PopEmpty, Contents, Fifo!DeliverNothing
<1>8. CASE PopSome
  BY <1>8 DEF PopSome, Contents
<1>9. CASE PopRead
  BY <1>9 DEF PopRead, Contents
<1>10. CASE PopRelease
  <2>1. UNCHANGED <<pushRet, emptyRet>>
    BY <1>10 DEF PopRelease
  <2>2. Fifo!Deliver
    BY <1>10, <2>1, ReleaseDelivers DEF Fifo!Deliver
  <2>. QED  BY <2>2
<1>11. CASE AskEmpty
  <2>1. /\ emptyRet' = (tail = headSeen)
        /\ Contents' = Contents /\ UNCHANGED <<pushRet, popRet>>
    BY <1>11 DEF AskEmpty, Empty, Contents
  <2>2. tail # headSeen => Contents # <<>>
    <3>1. head \in Index /\ tail \in Index /\ headSeen \in Index /\ tailSeen \in Index
      BY DEF Inv, TypeOK
    <3>2. tail # headSeen => Dist(tailSeen, tail) < Dist(tailSeen, head)
      <4>1. tail # headSeen => Dist(tailSeen, tail) # Dist(tailSeen, headSeen)
        BY <3>1, DistSplits DEF Inv, CyclicOrder
      <4>. QED  BY <3>1, <4>1, DistRange DEF Inv, CyclicOrder
    <3>. QED  BY <3>2, ContentsLength
  <2>3. Fifo!AskEmpty
    BY <2>1, <2>2 DEF Fifo!AskEmpty
  <2>. QED  BY <2>3
<1>12. CASE HeadBecomesVisible \/ TailBecomesVisible
  BY <1>12 DEF HeadBecomesVisible, TailBecomesVisible, Contents
<1>13. CASE UNCHANGED vars
  BY <1>13 DEF vars, Contents
<1>. QED
  BY <1>1, <1>2, <1>3, <1>4, <1>5, <1>6, <1>7, <1>8, <1>9, <1>10, <1>11, <1>12, <1>13
     DEF Next, Producer, Consumer

\* An empty ring is an empty queue.
LEMMA RefinesInit == Init => Fifo!Init
<1>. SUFFICES ASSUME Init PROVE Fifo!Init
  OBVIOUS
<1>1. Dist(tail, head) = 0
  BY RingAssumption DEF Init, Dist
<1>2. Contents = <<>>
  BY <1>1 DEF Contents
<1>. QED  BY <1>2 DEF Init, Fifo!Init

\* push(), pop() and empty() implement the bounded FIFO queue: no accepted
\* sample is lost, duplicated, reordered or changed, for every capacity.
THEOREM RingImplementsFifo == Spec => ImplementsFifo
BY RefinesInit, RefinesNext, RingInvariant, PTL DEF Spec, ImplementsFifo, Fifo!Spec

=============================================================================
