--------------------------- MODULE BpfCaptureProofs ---------------------------
(***************************************************************************)
(* What the loader of BpfCapture guarantees for every number of programs,  *)
(* ring size and duration, and however many events are told apart.                                   *)
(***************************************************************************)
EXTENDS BpfCapture, TLAPS

\* The resources held at each point of load() and capture(), and that every
\* point behind the gate was reached with authority.
HeldAt ==
  /\ pc \notin {"gate", "done"} => Authorized /\ result = "none"
  /\ pc = "gate" => obj = "closed" /\ links = {} /\ rb = "none" /\ out = <<>> /\ result = "none"
  /\ pc = "load" => obj = "open" /\ links = {} /\ rb = "none" /\ out = <<>>
  /\ pc = "attach" => obj = "loaded" /\ rb = "none" /\ out = <<>>
  /\ pc \in {"poll", "consume"} => obj = "loaded" /\ rb = "open"
  /\ pc = "free" => obj = "loaded"
  /\ pc = "done" => obj = "closed" /\ links = {} /\ rb = "none"
  /\ pc = "done" => (result = "loaded" => Authorized) /\ (result # "loaded" => out = <<>>)

\* The numbers in `out' and then in the ring increase, up to the shared number
\* of the events that are not told apart, and none is a number still to come.
Ordered ==
  /\ \A i, j \in 1 .. Len(out) : i < j => out[i] < out[j]
  /\ \A i, j \in 1 .. Len(ring) : i < j => ring[i].n < ring[j].n \/ ring[i].n = Beyond
  /\ \A i \in 1 .. Len(out), j \in 1 .. Len(ring) : out[i] < ring[j].n
  /\ \A i \in 1 .. Len(out) : out[i] <= MaxEvents
  /\ \A j \in 1 .. Len(ring) : ring[j].n \in 1 .. produced

\* The event n is in the ring.
InRing(n) == \E j \in 1 .. Len(ring) : ring[j].n = n

\* The event n was handed out.
InOut(n) == \E i \in 1 .. Len(out) : out[i] = n

\* The records of `short' are the short ones: none of them is in `out', and the
\* ring's records are marked. Each event told apart is accounted for.
Accounted ==
  /\ \A i \in 1 .. Len(out) : out[i] \notin short /\ out[i] <= produced
  /\ \A j \in 1 .. Len(ring) :
       /\ ring[j].size = "short" => ring[j].n \in short
       /\ ring[j].size = "full" => ring[j].n \notin short \/ ring[j].n = Beyond
  /\ \A n \in short : n <= produced
  /\ \A n \in 1 .. produced :
       n = Beyond \/ n \in dropped \cup short \cup abandoned \/ InRing(n) \/ InOut(n)

IInv == TypeOK /\ HeldAt /\ Ordered /\ Accounted

\* The invariant holds before load() or capture() has done anything.
LEMMA InitIInv == Init => IInv
<1> SUFFICES ASSUME Init PROVE IInv
  OBVIOUS
<1>1. TypeOK /\ HeldAt
  BY BpfAssumption DEF Init, TypeOK, HeldAt, AuditContext, Result, Programs, Beyond
<1>2. Ordered /\ Accounted
  BY BpfAssumption DEF Init, Ordered, Accounted, Beyond
<1> QED
  BY <1>1, <1>2 DEF IInv

\* What the order and the account are about, typed.
LEMMA Typed ==
  ASSUME IInv
  PROVE  /\ Len(out) \in Nat /\ Len(ring) \in Nat
         /\ \A i \in 1 .. Len(out) : out[i] \in Nat
         /\ \A i \in 1 .. Len(ring) : ring[i] \in Entry /\ ring[i].n \in Nat
         /\ \A i \in 1 .. Len(ring) : ring[i].size \in {"full", "short"}
         /\ out \in Seq(Nat) /\ ring \in Seq(Entry)
         /\ MaxEvents \in Nat /\ Beyond = MaxEvents + 1
         /\ produced \in Nat /\ produced <= Beyond
<1>1. \A i \in 1 .. Len(ring) : ring[i] \in Entry
  BY DEF IInv, TypeOK
<1>2. \A i \in 1 .. Len(ring) : ring[i].n \in Nat /\ ring[i].size \in {"full", "short"}
  BY <1>1 DEF Entry
<1> QED
  BY <1>1, <1>2, BpfAssumption DEF IInv, TypeOK, Beyond

\* The types survive every step.
LEMMA TypeStep == IInv /\ [Next]_vars => TypeOK'
<1> SUFFICES ASSUME IInv, [Next]_vars PROVE TypeOK'
  OBVIOUS
<1> USE BpfAssumption DEF IInv, TypeOK, Result
<1>1. CASE Refuse \/ Unsupported \/ OpenFails \/ OpenFile \/ LoadFails \/ LoadSucceeds
  BY <1>1 DEF Refuse, Unsupported, OpenFails, OpenFile, LoadFails, LoadSucceeds, Answer, stream
<1>2. CASE RingBuffer \/ PollData \/ PollFails \/ TimeIsUp \/ FreeRing
  BY <1>2 DEF RingBuffer, PollData, PollFails, TimeIsUp, FreeRing, stream
<1>3. CASE PollNothing \/ AllConsumed
  <2>1. remaining' \in Nat
    BY <1>3 DEF PollNothing, AllConsumed, Slice
  <2> QED
    BY <1>3, <2>1 DEF PollNothing, AllConsumed, stream
<1>4. CASE NoRingBuffer \/ CloseObject
  <2>1. ring' \in Seq(Entry) /\ Len(ring') = 0 /\ abandoned' \subseteq Nat
    <3>1. /\ ring' = <<>>
          /\ abandoned' = abandoned \cup {ring[i].n : i \in DOMAIN ring}
      BY <1>4 DEF NoRingBuffer, CloseObject, FreeMap
    <3>2. DOMAIN ring = 1 .. Len(ring) /\ \A i \in 1 .. Len(ring) : ring[i].n \in Nat
      BY Typed
    <3>3. \A i \in DOMAIN ring : ring[i].n \in Nat
      BY <3>2
    <3>4. abandoned' \subseteq Nat
      BY <3>1, <3>3
    <3> QED
      BY <3>1, <3>4
  <2>2. Len(ring') <= RingSize
    BY <2>1
  <2> QED
    BY <1>4, <2>1, <2>2 DEF NoRingBuffer, CloseObject, FreeMap, Answer
<1>5. CASE Consume
  <2>1. Head(ring) \in Entry /\ ring' \in Seq(Entry) /\ Len(ring') <= RingSize
    BY <1>5 DEF Consume
  <2>2. out' \in Seq(Nat)
    BY <1>5, <2>1 DEF Consume, handle_event, Entry
  <2> QED
    BY <1>5, <2>1, <2>2 DEF Consume
<1>6. ASSUME NEW p \in Programs, AttachFails(p) \/ Attach(p) \/ DestroyLink(p) PROVE TypeOK'
  BY <1>6 DEF AttachFails, Attach, DestroyLink, AtFront, stream
<1>7. ASSUME NEW p \in Programs, NEW size \in {"full", "short"}, Fires(p, size) PROVE TypeOK'
  <2>1. /\ produced' \in 0 .. Beyond
        /\ [n |-> produced', size |-> size] \in Entry
        /\ short' \subseteq Nat /\ dropped' \subseteq Nat
    <3>1. produced' \in 0 .. Beyond /\ produced' \in Nat
      BY <1>7 DEF Fires, Beyond
    <3> QED
      BY <1>7, <3>1 DEF Fires, Entry
  <2>2. ring' \in Seq(Entry) /\ Len(ring') <= RingSize
    <3>1. CASE ring' = ring
      BY <3>1
    <3>2. CASE /\ Len(ring) < RingSize
               /\ ring' = Append(ring, [n |-> produced', size |-> size])
      <4> DEFINE e == [n |-> produced', size |-> size]
      <4>1. e \in Entry /\ ring' = Append(ring, e)
        BY <2>1, <3>2
      <4> HIDE DEF e
      <4>2. ring' \in Seq(Entry) /\ Len(ring') = Len(ring) + 1
        BY <4>1
      <4> QED
        BY <4>2, <3>2
    <3> QED
      BY <1>7, <3>1, <3>2 DEF Fires
  <2> QED
    BY <1>7, <2>1, <2>2 DEF Fires
<1>8. CASE Done \/ UNCHANGED vars
  BY <1>8 DEF Done, vars, stream
<1>9. QED
  BY <1>1, <1>2, <1>3, <1>4, <1>5, <1>6, <1>7, <1>8 DEF Next, Loader

\* So does the bookkeeping of resources and authority.
LEMMA HeldStep == IInv /\ [Next]_vars => HeldAt'
<1> SUFFICES ASSUME IInv, [Next]_vars PROVE HeldAt'
  OBVIOUS
<1> USE DEF IInv, HeldAt, TypeOK, Authorized
<1>1. CASE Refuse \/ Unsupported \/ OpenFails \/ OpenFile \/ LoadFails
  BY <1>1 DEF Refuse, Unsupported, OpenFails, OpenFile, LoadFails, Answer, stream
<1>2. CASE LoadSucceeds
  BY <1>2 DEF LoadSucceeds, Answer, stream
<1>3. CASE RingBuffer \/ PollData \/ PollNothing \/ PollFails \/ TimeIsUp \/ FreeRing
  BY <1>3 DEF RingBuffer, PollData, PollNothing, PollFails, TimeIsUp, FreeRing, stream
<1>4. CASE NoRingBuffer \/ CloseObject
  BY <1>4 DEF NoRingBuffer, CloseObject, Answer
<1>5. CASE Consume \/ AllConsumed
  BY <1>5 DEF Consume, AllConsumed, stream
<1>6. ASSUME NEW p \in Programs, AttachFails(p) \/ Attach(p) \/ DestroyLink(p) PROVE HeldAt'
  BY <1>6 DEF AttachFails, Attach, DestroyLink, AtFront, stream
<1>7. ASSUME NEW p \in Programs, NEW size \in {"full", "short"}, Fires(p, size) PROVE HeldAt'
  BY <1>7 DEF Fires
<1>8. CASE Done \/ UNCHANGED vars
  BY <1>8 DEF Done, vars, stream
<1>9. QED
  BY <1>1, <1>2, <1>3, <1>4, <1>5, <1>6, <1>7, <1>8 DEF Next, Loader

\* handle_event() keeps the order and the account: the record leaves the ring,
\* and its number is in `out', or among the short ones, or not told apart.
LEMMA ConsumeKeeps == IInv /\ Consume => Ordered' /\ Accounted'
<1> SUFFICES ASSUME IInv, Consume PROVE Ordered' /\ Accounted'
  OBVIOUS
<1>0. Ordered /\ Accounted
  BY DEF IInv
<1>1. /\ Len(ring) \in Nat \ {0} /\ Len(ring') = Len(ring) - 1
      /\ \A i \in 1 .. Len(ring') : ring'[i] = ring[i + 1]
      /\ Head(ring) = ring[1] /\ 1 \in 1 .. Len(ring)
      /\ UNCHANGED <<produced, dropped, short, abandoned>>
  BY Typed DEF Consume
<1>2. \A j \in 1 .. Len(ring') : j + 1 \in 1 .. Len(ring) /\ 1 < j + 1 /\ j \in Nat
  BY <1>1
<1>3. /\ \A i \in 1 .. Len(out) : out[i] < ring[1].n
      /\ ring[1].n \in 1 .. produced
  BY <1>0, <1>1 DEF Ordered
<1>4. ASSUME NEW j \in 1 .. Len(ring')
      PROVE  /\ ring'[j].n \in 1 .. produced'
             /\ ring[1].n < ring'[j].n \/ ring[1].n = Beyond
             /\ \A i \in 1 .. Len(out) : out[i] < ring'[j].n
             /\ ring'[j].size = "short" => ring'[j].n \in short'
             /\ ring'[j].size = "full" => ring'[j].n \notin short' \/ ring'[j].n = Beyond
  <2>1. ring'[j] = ring[j + 1] /\ j + 1 \in 1 .. Len(ring) /\ 1 < j + 1
    BY <1>1, <1>2
  <2>2. /\ ring[j + 1].n \in 1 .. produced
        /\ ring[1].n < ring[j + 1].n \/ ring[1].n = Beyond
        /\ \A i \in 1 .. Len(out) : out[i] < ring[j + 1].n
    BY <1>0, <1>1, <2>1 DEF Ordered
  <2>3. /\ ring[j + 1].size = "short" => ring[j + 1].n \in short
        /\ ring[j + 1].size = "full" => ring[j + 1].n \notin short \/ ring[j + 1].n = Beyond
    BY <1>0, <2>1 DEF Accounted
  <2> QED
    BY <1>1, <2>1, <2>2, <2>3
<1>5. ASSUME NEW i \in 1 .. Len(ring'), NEW j \in 1 .. Len(ring'), i < j
      PROVE  ring'[i].n < ring'[j].n \/ ring'[i].n = Beyond
  <2>1. ring'[i] = ring[i + 1] /\ ring'[j] = ring[j + 1] /\ i + 1 < j + 1
    BY <1>1, <1>2, <1>5
  <2> QED
    BY <1>0, <1>2, <2>1 DEF Ordered
<1>6. \A n : InRing(n) => n = ring[1].n \/ InRing(n)'
  <2> SUFFICES ASSUME NEW j \in 1 .. Len(ring), j # 1
               PROVE  \E k \in 1 .. Len(ring') : ring'[k].n = ring[j].n
    BY DEF InRing
  <2>1. j - 1 \in 1 .. Len(ring') /\ ring'[j - 1] = ring[j]
    BY <1>1
  <2> QED
    BY <2>1
<1>7. CASE Head(ring).size = "short" \/ Head(ring).n = Beyond
  <2>1. out' = out
    BY <1>7 DEF Consume, handle_event
  <2>2. Ordered'
    BY <1>0, <1>4, <1>5, <2>1 DEF Ordered
  <2>3. ring[1].n = Beyond \/ ring[1].n \in short
    BY <1>0, <1>1, <1>7 DEF Accounted
  <2>4. \A n : InOut(n) => InOut(n)'
    BY <2>1 DEF InOut
  <2>5. \A n \in 1 .. produced' :
          \/ n = Beyond \/ n \in dropped' \cup short' \cup abandoned'
          \/ InRing(n)' \/ InOut(n)'
    BY <1>0, <1>1, <1>6, <2>3, <2>4 DEF Accounted
  <2> HIDE DEF InRing, InOut
  <2>6. /\ \A i \in 1 .. Len(out') : out'[i] \notin short' /\ out'[i] <= produced'
        /\ \A n \in short' : n <= produced'
    BY <1>0, <1>1, <2>1 DEF Accounted
  <2>7. Accounted'
    BY <1>4, <2>5, <2>6 DEF Accounted
  <2> QED
    BY <2>2, <2>7
<1>8. CASE Head(ring).size # "short" /\ Head(ring).n # Beyond
  <2>1. /\ Len(out') = Len(out) + 1
        /\ \A i \in 1 .. Len(out) : out'[i] = out[i]
        /\ out'[Len(out) + 1] = ring[1].n
    BY Typed, <1>1, <1>8 DEF Consume, handle_event
  <2>2. \A i \in 1 .. Len(out') : i \in 1 .. Len(out) \/ i = Len(out) + 1
    BY Typed, <2>1
  <2>3. ring[1].n <= MaxEvents /\ ring[1].n \notin short
    <3>1. ring[1].n # Beyond /\ ring[1].size = "full" /\ ring[1].n <= produced
      BY Typed, <1>1, <1>3, <1>8
    <3> QED
      BY Typed, <1>0, <1>1, <3>1 DEF Accounted
  <2>4. \A i, j \in 1 .. Len(out') : i < j => out'[i] < out'[j]
    <3> SUFFICES ASSUME NEW i \in 1 .. Len(out'), NEW j \in 1 .. Len(out'), i < j
                 PROVE  out'[i] < out'[j]
      OBVIOUS
    <3>1. i \in 1 .. Len(out)
      BY Typed, <2>1
    <3>2. CASE j \in 1 .. Len(out)
      BY <1>0, <2>1, <3>1, <3>2 DEF Ordered
    <3>3. CASE j = Len(out) + 1
      BY <1>3, <2>1, <3>1, <3>3
    <3> QED
      BY <2>2, <3>2, <3>3
  <2>5. /\ \A i \in 1 .. Len(out') : out'[i] <= MaxEvents
        /\ \A i \in 1 .. Len(out'), j \in 1 .. Len(ring') : out'[i] < ring'[j].n
    BY <1>0, <1>4, <1>8, <1>1, <2>1, <2>2, <2>3 DEF Ordered
  <2>6. Ordered'
    BY <1>4, <1>5, <2>4, <2>5 DEF Ordered
  <2>7. \A i \in 1 .. Len(out') : out'[i] \notin short' /\ out'[i] <= produced'
    <3> SUFFICES ASSUME NEW i \in 1 .. Len(out')
                 PROVE  out'[i] \notin short /\ out'[i] <= produced
      BY <1>1
    <3>1. CASE i \in 1 .. Len(out)
      BY <1>0, <2>1, <3>1 DEF Accounted
    <3>2. CASE i = Len(out) + 1
      BY <1>3, <2>1, <2>3, <3>2
    <3> QED
      BY <2>2, <3>1, <3>2
  <2>8. \A n : n = ring[1].n \/ InOut(n) => InOut(n)'
    <3>1. Len(out) + 1 \in 1 .. Len(out') /\ \A i \in 1 .. Len(out) : i \in 1 .. Len(out')
      BY Typed, <2>1
    <3> QED
      BY <2>1, <3>1 DEF InOut
  <2>9. \A n \in 1 .. produced' :
          \/ n = Beyond \/ n \in dropped' \cup short' \cup abandoned'
          \/ InRing(n)' \/ InOut(n)'
    BY <1>0, <1>1, <1>6, <2>8 DEF Accounted
  <2>10. \A n \in short' : n <= produced'
    BY <1>0, <1>1 DEF Accounted
  <2>11. Accounted'
    BY <1>4, <2>7, <2>9, <2>10 DEF Accounted
  <2> QED
    BY <2>6, <2>11
<1> QED
  BY <1>7, <1>8

\* A program that fires adds the next number at the end of the ring, or drops it.
LEMMA FiresKeeps ==
  ASSUME IInv, NEW p \in Programs, NEW size \in {"full", "short"}, Fires(p, size)
  PROVE  Ordered' /\ Accounted'
<1>0. Ordered /\ Accounted
  BY DEF IInv
<1>1. /\ produced' \in Nat /\ produced <= produced' /\ produced' <= Beyond
      /\ produced' = produced \/ produced' = produced + 1
      /\ produced' = Beyond \/ produced < produced'
      /\ 1 <= produced'
      /\ UNCHANGED <<out, abandoned>>
  BY Typed DEF Fires
<1>2. \A n \in 1 .. produced' : n \in 1 .. produced \/ n = produced'
  BY Typed, <1>1
<1>3. \A n : InOut(n) => InOut(n)'
  BY <1>1 DEF InOut
<1>4. CASE dropped' = dropped \cup {produced'} /\ UNCHANGED <<ring, short>>
  <2>1. \A j \in 1 .. Len(ring) : ring[j].n \in 1 .. produced'
    BY Typed, <1>0, <1>1 DEF Ordered
  <2>2. Ordered'
    BY <1>0, <1>1, <1>4, <2>1 DEF Ordered
  <2>3. /\ \A n \in short' : n <= produced'
        /\ \A i \in 1 .. Len(out') : out'[i] \notin short' /\ out'[i] <= produced'
    <3>1. \A n \in short : n \in Nat
      BY DEF IInv, TypeOK
    <3> QED
      BY Typed, <1>0, <1>1, <1>4, <3>1 DEF Accounted
  <2>4. \A n : InRing(n) => InRing(n)'
    BY <1>4 DEF InRing
  <2>5. \A n \in 1 .. produced' :
          \/ n = Beyond \/ n \in dropped' \cup short' \cup abandoned'
          \/ InRing(n)' \/ InOut(n)'
    BY <1>0, <1>1, <1>2, <1>3, <1>4, <2>4 DEF Accounted
  <2>6. Accounted'
    BY <1>0, <1>4, <2>3, <2>5 DEF Accounted
  <2> QED
    BY <2>2, <2>6
<1>5. CASE /\ ring' = Append(ring, [n |-> produced', size |-> size])
           /\ short' = IF size = "short" THEN short \cup {produced'} ELSE short
           /\ UNCHANGED dropped
  <2> DEFINE e == [n |-> produced', size |-> size]
  <2>1. e.n = produced' /\ e.size = size /\ e \in Entry /\ ring' = Append(ring, e)
    BY <1>1, <1>5 DEF Entry
  <2> HIDE DEF e
  <2>2. /\ Len(ring') = Len(ring) + 1
        /\ \A i \in 1 .. Len(ring) : ring'[i] = ring[i]
        /\ ring'[Len(ring) + 1] = e
    BY Typed, <2>1
  <2>3. \A j \in 1 .. Len(ring') : j \in 1 .. Len(ring) \/ j = Len(ring) + 1
    BY Typed, <2>2
  <2>4. \A i, j \in 1 .. Len(ring') :
          i < j => ring'[i].n < ring'[j].n \/ ring'[i].n = Beyond
    <3> SUFFICES ASSUME NEW i \in 1 .. Len(ring'), NEW j \in 1 .. Len(ring'), i < j
                 PROVE  ring'[i].n < ring'[j].n \/ ring'[i].n = Beyond
      OBVIOUS
    <3>1. i \in 1 .. Len(ring)
      BY Typed, <2>2
    <3>2. CASE j \in 1 .. Len(ring)
      BY <1>0, <2>2, <3>1, <3>2 DEF Ordered
    <3>3. CASE j = Len(ring) + 1
      <4>1. ring'[i].n \in Nat /\ ring'[i].n <= produced /\ ring'[j].n = produced'
        BY Typed, <1>0, <2>1, <2>2, <3>1, <3>3 DEF Ordered
      <4> QED
        BY Typed, <1>1, <4>1
    <3> QED
      BY <2>3, <3>2, <3>3
  <2>5. \A j \in 1 .. Len(ring') : ring'[j].n \in 1 .. produced'
    BY Typed, <1>0, <1>1, <2>1, <2>2, <2>3 DEF Ordered
  <2>6. \A i \in 1 .. Len(out') : out'[i] < produced' /\ out'[i] <= produced'
    <3> SUFFICES ASSUME NEW i \in 1 .. Len(out) PROVE out[i] < produced'
      BY Typed, <1>1
    <3>1. out[i] \in Nat /\ out[i] <= MaxEvents /\ out[i] <= produced
      BY Typed, <1>0 DEF Ordered, Accounted
    <3> QED
      BY Typed, <1>1, <3>1
  <2>7. \A i \in 1 .. Len(out'), j \in 1 .. Len(ring') : out'[i] < ring'[j].n
    BY <1>0, <1>1, <2>1, <2>2, <2>3, <2>6 DEF Ordered
  <2>8. Ordered'
    BY <1>0, <1>1, <2>4, <2>5, <2>7 DEF Ordered
  <2>9. \A n \in short : n \in Nat /\ n <= produced
    BY <1>0 DEF Accounted, IInv, TypeOK
  <2>10. /\ short \subseteq short'
         /\ \A n \in short' : n \in short \/ (n = produced' /\ size = "short")
    <3>1. CASE size = "short"
      BY <1>5, <3>1
    <3>2. CASE size # "short"
      <4>1. short' = short
        BY <1>5, <3>2
      <4> QED
        BY <4>1
    <3> QED
      BY <3>1, <3>2
  <2>11. \A n \in short' : n <= produced'
    BY Typed, <1>1, <2>9, <2>10
  <2>12. \A i \in 1 .. Len(out') : out'[i] \notin short'
    <3> SUFFICES ASSUME NEW i \in 1 .. Len(out) PROVE out[i] \notin short'
      BY <1>1
    <3>1. out[i] \notin short /\ out[i] \in Nat
      BY Typed, <1>0 DEF Accounted
    <3>2. out[i] # produced'
      BY <1>1, <2>6, <3>1
    <3> QED
      BY <2>10, <3>1, <3>2
  <2>13. ASSUME NEW j \in 1 .. Len(ring')
         PROVE  /\ ring'[j].size = "short" => ring'[j].n \in short'
                /\ ring'[j].size = "full" => ring'[j].n \notin short' \/ ring'[j].n = Beyond
    <3>1. CASE j \in 1 .. Len(ring)
      <4>1. /\ ring[j].size = "short" => ring[j].n \in short
            /\ ring[j].size = "full" => ring[j].n \notin short \/ ring[j].n = Beyond
            /\ ring'[j] = ring[j]
        BY <1>0, <2>2, <3>1 DEF Accounted
      <4>2. ring[j].n = produced' => ring[j].n = Beyond
        <5>1. ring[j].n \in Nat /\ ring[j].n <= produced
          BY Typed, <1>0, <3>1 DEF Ordered
        <5> QED
          BY Typed, <1>1, <5>1
      <4> QED
        BY <2>10, <4>1, <4>2
    <3>2. CASE j = Len(ring) + 1
      <4>1. ring'[j].n = produced' /\ ring'[j].size = size
        BY <2>1, <2>2, <3>2
      <4>2. size = "short" => produced' \in short'
        BY <1>5
      <4>3. size = "full" => produced' \notin short' \/ produced' = Beyond
        <5>1. produced' \in short => produced' = Beyond
          BY Typed, <1>1, <2>9
        <5> QED
          BY <2>10, <5>1
      <4> QED
        BY <4>1, <4>2, <4>3
    <3> QED
      BY <2>3, <3>1, <3>2
  <2>14. \A n : n = produced' \/ InRing(n) => InRing(n)'
    <3>1. Len(ring) + 1 \in 1 .. Len(ring') /\ \A i \in 1 .. Len(ring) : i \in 1 .. Len(ring')
      BY Typed, <2>2
    <3>2. \A n : n = produced' => InRing(n)'
      BY <2>1, <2>2, <3>1 DEF InRing
    <3>3. \A n : InRing(n) => InRing(n)'
      BY <2>2, <3>1 DEF InRing
    <3> QED
      BY <3>2, <3>3
  <2>15. \A n \in 1 .. produced' :
           \/ n = Beyond \/ n \in dropped' \cup short' \cup abandoned'
           \/ InRing(n)' \/ InOut(n)'
    <3> SUFFICES ASSUME NEW n \in 1 .. produced', n # Beyond,
                        n \notin dropped' \cup short' \cup abandoned'
                 PROVE  InRing(n)' \/ InOut(n)'
      OBVIOUS
    <3>1. CASE n \in 1 .. produced
      <4>1. InRing(n) \/ InOut(n)
        BY <1>0, <1>1, <1>5, <2>10, <3>1 DEF Accounted
      <4> QED
        BY <1>3, <2>14, <4>1
    <3>2. CASE n = produced'
      BY <2>14, <3>2
    <3> QED
      BY <1>2, <3>1, <3>2
  <2>16. Accounted'
    BY <2>6, <2>11, <2>12, <2>13, <2>15 DEF Accounted
  <2> QED
    BY <2>8, <2>16
<1> QED
  BY <1>4, <1>5 DEF Fires

\* What is in the map when it is freed is abandoned.
LEMMA FreeKeeps == IInv /\ FreeMap /\ UNCHANGED out => Ordered' /\ Accounted'
<1> SUFFICES ASSUME IInv, FreeMap, UNCHANGED out PROVE Ordered' /\ Accounted'
  OBVIOUS
<1>0. Ordered /\ Accounted
  BY DEF IInv
<1>1. /\ ring' = <<>> /\ Len(ring') = 0 /\ UNCHANGED <<out, produced, dropped, short>>
      /\ abandoned' = abandoned \cup {ring[i].n : i \in DOMAIN ring}
  BY DEF FreeMap
<1>2. \A j \in 1 .. Len(ring') : FALSE
  BY <1>1
<1>3. Ordered'
  BY <1>0, <1>1, <1>2 DEF Ordered
<1>4. \A n : InRing(n) => n \in abandoned'
  <2>1. DOMAIN ring = 1 .. Len(ring)
    BY Typed
  <2> QED
    BY <1>1, <2>1 DEF InRing
<1>5. \A n : InOut(n) => InOut(n)'
  BY <1>1 DEF InOut
<1>6. \A n \in 1 .. produced' :
        \/ n = Beyond \/ n \in dropped' \cup short' \cup abandoned'
        \/ InRing(n)' \/ InOut(n)'
  BY <1>0, <1>1, <1>4, <1>5 DEF Accounted
<1>7. Accounted'
  BY <1>0, <1>1, <1>2, <1>6 DEF Accounted
<1> QED
  BY <1>3, <1>7

\* The order of the events and their account survive every step: only Consume,
\* Fires and the two actions that give the map back touch them.
LEMMA OrderStep == IInv /\ [Next]_vars => Ordered' /\ Accounted'
<1> SUFFICES ASSUME IInv, [Next]_vars PROVE Ordered' /\ Accounted'
  OBVIOUS
<1>1. CASE UNCHANGED <<out, stream>>
  BY <1>1 DEF IInv, Ordered, Accounted, InRing, InOut, stream
<1>2. CASE NoRingBuffer \/ CloseObject
  BY <1>2, FreeKeeps DEF NoRingBuffer, CloseObject
<1>3. CASE Consume
  BY <1>3, ConsumeKeeps
<1>4. ASSUME NEW p \in Programs, NEW size \in {"full", "short"}, Fires(p, size)
      PROVE  Ordered' /\ Accounted'
  BY <1>4, FiresKeeps
<1>5. ASSUME NEW p \in Programs, AttachFails(p) \/ Attach(p) \/ DestroyLink(p)
      PROVE  UNCHANGED <<out, stream>>
  BY <1>5 DEF AttachFails, Attach, DestroyLink
<1>6. CASE \/ Refuse \/ Unsupported \/ OpenFails \/ OpenFile \/ LoadFails \/ LoadSucceeds
           \/ RingBuffer \/ PollNothing \/ PollData \/ AllConsumed \/ PollFails
           \/ TimeIsUp \/ FreeRing \/ Done \/ UNCHANGED vars
  <2>1. UNCHANGED <<out, stream>>
    BY <1>6 DEF Refuse, Unsupported, OpenFails, OpenFile, LoadFails, LoadSucceeds,
                RingBuffer, PollNothing, PollData, AllConsumed, PollFails, TimeIsUp,
                FreeRing, Done, vars, stream
  <2> QED
    BY <1>1, <2>1
<1>7. QED
  BY <1>1, <1>2, <1>3, <1>4, <1>5, <1>6 DEF Next, Loader

\* The four parts of the invariant hold at every point of load() and capture().
THEOREM LoaderInvariant == Spec => []IInv
<1>1. Init => IInv
  BY InitIInv
<1>2. IInv /\ [Next]_vars => IInv'
  BY TypeStep, HeldStep, OrderStep DEF IInv
<1>3. QED
  BY <1>1, <1>2, PTL DEF Spec

\* The variables of load() and capture() keep their types.
THEOREM LoaderTypeOK == Spec => []TypeOK
<1>1. IInv => TypeOK
  BY DEF IInv
<1>2. QED
  BY <1>1, LoaderInvariant, PTL

\* Fail-closed: whatever the audit context, load() and capture() touch the
\* kernel only with all four grants of SafetyGate::decide.
THEOREM LoaderFailClosed == Spec => []NothingUnauthorized
<1>1. IInv => NothingUnauthorized
  BY DEF IInv, TypeOK, HeldAt, NothingUnauthorized, Authorized
<1>2. QED
  BY <1>1, LoaderInvariant, PTL

\* Every exit of load() and capture() releases what was acquired.
THEOREM LoaderReleases == Spec => []NothingLeftBehind
<1>1. IInv => NothingLeftBehind
  BY DEF IInv, TypeOK, HeldAt, NothingLeftBehind
<1>2. QED
  BY <1>1, LoaderInvariant, PTL

\* The events handed out are distinct events of the programs, in their order,
\* none of them made of a short record, and every other event told apart has a
\* reason to be missing.
THEOREM LoaderEachEventOnce == Spec => []EachEventOnce
<1>1. IInv => EachEventOnce
  <2> SUFFICES ASSUME IInv PROVE EachEventOnce
    OBVIOUS
  <2> DEFINE tail == [i \in DOMAIN ring |-> ring[i].n]
             all  == out \o tail
  <2>0. Ordered /\ Accounted /\ DOMAIN ring = 1 .. Len(ring) /\ DOMAIN out = 1 .. Len(out)
    BY Typed DEF IInv
  <2>1. /\ tail \in Seq(Nat) /\ Len(tail) = Len(ring)
        /\ \A i \in 1 .. Len(ring) : tail[i] = ring[i].n
    BY Typed, <2>0
  <2>2. /\ Len(all) = Len(out) + Len(ring) /\ DOMAIN all = 1 .. Len(all)
        /\ \A i \in 1 .. Len(out) : all[i] = out[i]
        /\ \A i \in Len(out) + 1 .. Len(all) : all[i] = tail[i - Len(out)]
    BY Typed, <2>1
  <2>3. /\ Len(out) \in Nat /\ Len(ring) \in Nat
        /\ \A i \in 1 .. Len(out) : out[i] \in Nat
        /\ \A i \in 1 .. Len(ring) : tail[i] \in Nat
    BY Typed, <2>1
  <2>4. /\ \A i, j \in 1 .. Len(out) : i < j => out[i] < out[j]
        /\ \A i, j \in 1 .. Len(ring) : i < j => tail[i] < tail[j] \/ tail[i] = Beyond
        /\ \A i \in 1 .. Len(out), j \in 1 .. Len(ring) : out[i] < tail[j]
    BY <2>0, <2>1 DEF Ordered
  <2> HIDE DEF all, tail
  <2>5. ASSUME NEW i \in DOMAIN all, NEW j \in DOMAIN all, i < j
        PROVE  all[i] < all[j] \/ all[i] = Beyond
    <3>1. i \in 1 .. Len(out) \/ i - Len(out) \in 1 .. Len(ring)
      BY <2>2, <2>3
    <3>2. j \in 1 .. Len(out) \/ j - Len(out) \in 1 .. Len(ring)
      BY <2>2, <2>3
    <3>3. CASE j \in 1 .. Len(out)
      BY <2>2, <2>3, <2>4, <2>5, <3>3
    <3>4. CASE j - Len(out) \in 1 .. Len(ring) /\ i \in 1 .. Len(out)
      BY <2>2, <2>3, <2>4, <3>4
    <3>5. CASE j - Len(out) \in 1 .. Len(ring) /\ i - Len(out) \in 1 .. Len(ring)
      <4>1. all[i] = tail[i - Len(out)] /\ all[j] = tail[j - Len(out)]
        BY <2>2, <2>3, <3>5, SMTT(30)
      <4>2. i - Len(out) < j - Len(out)
        BY <2>2, <2>3, <2>5
      <4> QED
        BY <4>1, <4>2, <3>5, <2>4
    <3> QED
      BY <3>1, <3>2, <3>3, <3>4, <3>5
  <2>6. \A i \in DOMAIN out : out[i] \notin short
    BY <2>0 DEF Accounted
  <2>7. ASSUME NEW n, InOut(n) \/ InRing(n)
        PROVE  \E i \in DOMAIN all : all[i] = n
    <3>1. CASE InOut(n)
      <4>1. PICK i \in 1 .. Len(out) : out[i] = n
        BY <3>1 DEF InOut
      <4>2. i \in DOMAIN all /\ all[i] = n
        BY <2>2, <2>3, <4>1
      <4> QED
        BY <4>2
    <3>2. CASE InRing(n)
      <4>1. PICK j \in 1 .. Len(ring) : ring[j].n = n
        BY <3>2 DEF InRing
      <4>2. Len(out) + j \in Len(out) + 1 .. Len(all) /\ (Len(out) + j) - Len(out) = j
        BY <2>2, <2>3
      <4>3. all[Len(out) + j] = tail[j] /\ Len(out) + j \in DOMAIN all
        BY <2>2, <2>3, <4>2
      <4> QED
        BY <2>1, <4>1, <4>3
    <3> QED
      BY <2>7, <3>1, <3>2
  <2>8. \A n \in 1 .. produced :
          \/ n = Beyond \/ n \in dropped \cup short \cup abandoned
          \/ \E i \in DOMAIN all : all[i] = n
    BY <2>0, <2>7 DEF Accounted
  <2> QED
    BY <2>5, <2>6, <2>8 DEF EachEventOnce, all, tail
<1>2. QED
  BY <1>1, LoaderInvariant, PTL
=============================================================================
