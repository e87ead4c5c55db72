---------------------------- MODULE TimelineProofs ----------------------------
(***************************************************************************)
(* The streaming exporter agrees with the in-memory exports for journals   *)
(* of every length and every chunk size.                                   *)
(***************************************************************************)
EXTENDS Timeline, SequenceTheorems, FiniteSetTheorems, TLAPS

TypeOK ==
  /\ size \in Nat \ {0}
  /\ input \in Seq(Line)
  /\ batch \in Seq(Nat) /\ gap_in_batch \in BOOLEAN /\ prev_ts \in Nat
  /\ chunks \in Seq([events : Seq(Nat), marker : BOOLEAN])
  /\ rows \in Nat /\ pc \in {"read", "done"}

\* The number of events in the chunks written so far.
Flushed == Len(chunks) * size

\* The chunk that was being filled when line i was read.
Fills(in, s, i) == Before(in, i) \div s + 1

\* The events written and those in the batch are those of the journal.
Sliced ==
  /\ rows = Len(Events(input)) /\ rows = Flushed + Len(batch)
  /\ \A k \in 1 .. Len(chunks) :
       /\ Len(chunks[k].events) = size
       /\ \A j \in 1 .. size : chunks[k].events[j] = Events(input)[(k - 1) * size + j]
  /\ \A j \in 1 .. Len(batch) : batch[j] = Events(input)[Flushed + j]

\* prev_ts is the timestamp of the last event.
Previous ==
  /\ rows = 0 => prev_ts = 0
  /\ rows > 0 => prev_ts = input[Events(input)[rows]].ts

\* Each line that sets a marker marks a chunk written or the one to come.
Marked ==
  /\ \A i \in 1 .. Len(input) : Unsafe(input, i) => Fills(input, size, i) \in 1 .. Len(chunks) + 1
  /\ \A k \in 1 .. Len(chunks) :
       chunks[k].marker = TRUE <=> \E i \in 1 .. Len(input) : Unsafe(input, i) /\ Fills(input, size, i) = k
  /\ gap_in_batch = TRUE <=>
       \E i \in 1 .. Len(input) : Unsafe(input, i) /\ Fills(input, size, i) = Len(chunks) + 1

\* ChunksAreSlices where it speaks of every state.
Bounded ==
  /\ Len(batch) < size
  /\ \A k \in 1 .. Len(chunks) : Len(chunks[k].events) <= size

IInv ==
  /\ TypeOK /\ Bounded
  /\ pc = "read" => Sliced /\ Previous /\ Marked
  /\ pc = "done" => ChunksAreSlices /\ MarkersWhereTheyBelong
-----------------------------------------------------------------------------
(* Lines in their order *)

\* How many members of a set of lines precede line i.
Rank(S, i) == Cardinality({j \in S : j < i})

\* The lines before i, a finite set of lines given.
LEMMA RankType ==
  ASSUME NEW S \in SUBSET Nat, IsFiniteSet(S), NEW i
  PROVE  /\ IsFiniteSet({j \in S : j < i})
         /\ Cardinality(S) \in Nat /\ Rank(S, i) \in 0 .. Cardinality(S)
<1> DEFINE T == {j \in S : j < i}
<1>1. T \in SUBSET S
  OBVIOUS
<1> HIDE DEF T
<1>2. IsFiniteSet(T) /\ Cardinality(T) <= Cardinality(S)
  BY <1>1, FS_Subset
<1>3. Cardinality(T) \in Nat /\ Cardinality(S) \in Nat
  BY <1>2, FS_CardinalityType
<1> QED
  BY <1>2, <1>3 DEF T, Rank

\* Each member counts itself before the later ones.
LEMMA RankIncreases ==
  ASSUME NEW S \in SUBSET Nat, IsFiniteSet(S), NEW i \in S, NEW k \in Nat, i < k
  PROVE  Rank(S, i) < Rank(S, k)
<1> DEFINE T == {j \in S : j < i}
           U == {j \in S : j < k}
<1>0. (\A j \in S : j < i => j < k) /\ ~(i < i)
  <2>1. i \in Nat /\ \A j \in S : j \in Nat
    OBVIOUS
  <2> QED
    BY <2>1
<1>1. T \in SUBSET U /\ i \in U /\ i \notin T
  BY <1>0, Zenon
<1>2. IsFiniteSet(U) /\ Rank(S, i) = Cardinality(T) /\ Rank(S, k) = Cardinality(U)
  BY RankType DEF Rank
<1>3. Cardinality(T) \in Nat /\ Cardinality(U) \in Nat
  BY <1>2, RankType
<1> HIDE DEF T, U
<1>4. Cardinality(T) <= Cardinality(U) /\ (Cardinality(U) = Cardinality(T) => U = T)
  BY <1>1, <1>2, FS_Subset
<1> QED
  BY <1>1, <1>2, <1>3, <1>4

\* The ranks of the members are 0 to n-1: each place in the order is taken.
LEMMA EveryRankTaken ==
  ASSUME NEW S \in SUBSET Nat, IsFiniteSet(S), NEW k \in 1 .. Cardinality(S)
  PROVE  \E i \in S : Rank(S, i) = k - 1
<1> DEFINE n == Cardinality(S)
           R == 0 .. n - 1
           f == [i \in S |-> Rank(S, i)]
<1>1. n \in Nat
  BY FS_CardinalityType
<1>2. ASSUME NEW i \in S PROVE Rank(S, i) \in R
  <2>1. Rank(S, i) \in 0 .. n
    BY RankType
  <2>2. Rank(S, i) # n
    <3>1. {j \in S : j < i} \in SUBSET S /\ i \notin {j \in S : j < i}
      OBVIOUS
    <3> QED
      BY <3>1, FS_Subset DEF Rank
  <2> QED
    BY <1>1, <2>1, <2>2
<1>3. \A i, j \in S : Rank(S, i) = Rank(S, j) => i = j
  <2> SUFFICES ASSUME NEW i \in S, NEW j \in S, i < j PROVE Rank(S, i) # Rank(S, j)
    BY SMT
  <2>0. j \in Nat /\ Cardinality(S) \in Nat
    BY RankType
  <2>1. Rank(S, i) < Rank(S, j)
    BY <2>0, RankIncreases
  <2>2. Rank(S, i) \in 0 .. Cardinality(S) /\ Rank(S, j) \in 0 .. Cardinality(S)
    BY RankType
  <2> QED
    BY <2>0, <2>1, <2>2
<1>4. f \in Injection(S, R)
  BY <1>2, <1>3 DEF Injection, IsInjective
<1>5. IsFiniteSet(R) /\ Cardinality(R) = n
  <2>1. 0 \in Int /\ n - 1 \in Int
    BY <1>1
  <2>2. IsFiniteSet(R) /\ Cardinality(R) = IF 0 > n - 1 THEN 0 ELSE (n - 1) - 0 + 1
    BY <2>1, FS_Interval
  <2> QED
    BY <1>1, <2>2
<1> HIDE DEF R, f
<1>6. f \in Surjection(S, R)
  BY <1>4, <1>5, FS_Injection
<1>7. k - 1 \in R
  BY <1>1 DEF R
<1>8. \E i \in S : f[i] = k - 1
  BY <1>6, <1>7 DEF Surjection
<1> QED
  BY <1>8 DEF f

\* InOrder lists each line once, at the place its rank gives.
LEMMA InOrderPlaces ==
  ASSUME NEW S \in SUBSET Nat, IsFiniteSet(S)
  PROVE  /\ InOrder(S) \in Seq(S) /\ Len(InOrder(S)) = Cardinality(S)
         /\ DOMAIN InOrder(S) = 1 .. Cardinality(S)
         /\ \A i \in S : Rank(S, i) + 1 \in 1 .. Cardinality(S) /\ InOrder(S)[Rank(S, i) + 1] = i
         /\ \A k \in 1 .. Cardinality(S) :
              InOrder(S)[k] \in S /\ Rank(S, InOrder(S)[k]) = k - 1
<1> DEFINE n == Cardinality(S)
           e == InOrder(S)
<1>1. n \in Nat
  BY FS_CardinalityType
<1>2. e = [k \in 1 .. n |-> CHOOSE i \in S : Rank(S, i) = k - 1]
  BY DEF InOrder, Rank
<1> HIDE DEF e
<1>3. ASSUME NEW k \in 1 .. n PROVE e[k] \in S /\ Rank(S, e[k]) = k - 1
  <2>1. e[k] = CHOOSE i \in S : Rank(S, i) = k - 1
    BY <1>2
  <2> QED
    BY <2>1, EveryRankTaken
<1>4. e \in [1 .. n -> S]
  BY <1>2, <1>3
<1>5. e \in Seq(S) /\ Len(e) = n
  BY <1>1, <1>4, SeqDef
<1>6. ASSUME NEW i \in S PROVE Rank(S, i) + 1 \in 1 .. n /\ e[Rank(S, i) + 1] = i
  <2>1. Rank(S, i) \in 0 .. n
    BY RankType
  <2>2. Rank(S, i) # n
    <3>1. {j \in S : j < i} \in SUBSET S /\ i \notin {j \in S : j < i}
      OBVIOUS
    <3> QED
      BY <3>1, FS_Subset DEF Rank
  <2>3. Rank(S, i) + 1 \in 1 .. n
    BY <1>1, <2>1, <2>2
  <2> DEFINE j == e[Rank(S, i) + 1]
  <2>4. ASSUME NEW r \in 1 .. n PROVE e[r] \in S /\ Rank(S, e[r]) = r - 1
    BY <1>3
  <2>5. j \in S /\ Rank(S, j) = Rank(S, i) /\ Rank(S, i) \in Nat
    <3>1. PICK r \in 1 .. n : r = Rank(S, i) + 1
      BY <2>3
    <3>2. j = e[r]
      BY <3>1, Zenon
    <3>3. r - 1 = Rank(S, i) /\ Rank(S, i) \in Nat
      BY <2>1, <1>1, <3>1
    <3> QED
      BY <2>4, <3>2, <3>3, Zenon
  <2> HIDE DEF j
  <2>6. i \in Nat /\ j \in Nat
    BY <2>5
  <2>7. ~(i < j) /\ ~(j < i)
    BY <2>5, <2>6, RankIncreases
  <2> QED
    BY <2>3, <2>6, <2>7 DEF j
<1> QED
  BY <1>3, <1>4, <1>5, <1>6 DEF e

\* A later line comes last.
LEMMA InOrderAdd ==
  ASSUME NEW S \in SUBSET Nat, IsFiniteSet(S), NEW x \in Nat, \A i \in S : i < x
  PROVE  /\ InOrder(S \cup {x}) = Append(InOrder(S), x)
         /\ Rank(S \cup {x}, x) = Cardinality(S)
         /\ \A i \in Nat : i <= x => Rank(S \cup {x}, i) = Rank(S, i)
<1> DEFINE n == Cardinality(S)
           T == S \cup {x}
<1>1. n \in Nat /\ IsFiniteSet(T) /\ Cardinality(T) = n + 1 /\ T \in SUBSET Nat
  BY FS_CardinalityType, FS_AddElement
<1>2. ASSUME NEW i \in Nat, i <= x PROVE Rank(T, i) = Rank(S, i)
  <2>1. {j \in T : j < i} = {j \in S : j < i}
    BY <1>2
  <2> QED
    BY <2>1, Zenon DEF Rank
<1>3. Rank(T, x) = n
  <2>1. {j \in T : j < x} = S
    <3>1. (\A j \in S : j < x /\ j \in T) /\ ~(x < x)
      OBVIOUS
    <3> QED
      BY <3>1, Zenon
  <2> QED
    BY <2>1, Zenon DEF Rank
<1> HIDE DEF T
<1>4. /\ InOrder(T) \in Seq(T) /\ Len(InOrder(T)) = n + 1
      /\ \A i \in T : InOrder(T)[Rank(T, i) + 1] = i
  BY <1>1, InOrderPlaces
<1>5. /\ InOrder(S) \in Seq(S) /\ Len(InOrder(S)) = n
      /\ \A k \in 1 .. n : InOrder(S)[k] \in S /\ Rank(S, InOrder(S)[k]) = k - 1
  BY InOrderPlaces
<1>6. x \in T /\ \A i \in S : i \in T /\ i \in Nat /\ i <= x
  BY DEF T
<1>7. InOrder(T)[n + 1] = x
  BY <1>3, <1>4, <1>6
<1>8. ASSUME NEW k \in 1 .. n PROVE InOrder(T)[k] = InOrder(S)[k]
  <2> DEFINE i == InOrder(S)[k]
  <2>1. i \in S /\ Rank(S, i) = k - 1
    BY <1>5
  <2>2. Rank(T, i) = k - 1 /\ i \in T
    BY <1>2, <1>6, <2>1
  <2> HIDE DEF i
  <2>3. Rank(T, i) + 1 = k
    BY <1>1, <2>2
  <2>4. InOrder(T)[k] = i
    BY <1>4, <2>2, <2>3
  <2> QED
    BY <2>4 DEF i
<1>9. InOrder(T) = Append(InOrder(S), x)
  <2>1. InOrder(S) \in Seq(T)
    BY <1>5, <1>6, SeqMonotonic
  <2>2. /\ Append(InOrder(S), x) \in Seq(T) /\ Len(Append(InOrder(S), x)) = n + 1
        /\ Append(InOrder(S), x)[n + 1] = x
        /\ \A k \in 1 .. n : Append(InOrder(S), x)[k] = InOrder(S)[k]
    BY <1>5, <1>6, <2>1, AppendProperties
  <2>3. \A k \in 1 .. n + 1 : k \in 1 .. n \/ k = n + 1
    BY <1>1
  <2> QED
    BY <1>4, <1>7, <1>8, <2>2, <2>3, SeqEqual
<1> QED
  BY <1>2, <1>3, <1>9 DEF T
-----------------------------------------------------------------------------
(* The journal grows by a line *)

\* What a line can be.
LEMMA LineFields ==
  \A l \in Line : /\ l.kind \in {"blank", "bad", "foreign", "event"}
                  /\ l.kind = "event" => l.ts \in Nat
BY TimelineAssumption DEF Line

\* The event lines of a journal are a finite set of its lines.
LEMMA EventLinesType ==
  ASSUME NEW in \in Seq(Line)
  PROVE  /\ EventLines(in) \in SUBSET (1 .. Len(in)) /\ EventLines(in) \in SUBSET Nat
         /\ IsFiniteSet(EventLines(in)) /\ Cardinality(EventLines(in)) \in Nat
<1>1. Len(in) \in Nat /\ DOMAIN in = 1 .. Len(in)
  OBVIOUS
<1>2. EventLines(in) \in SUBSET (1 .. Len(in))
  BY <1>1, Zenon DEF EventLines
<1>3. IsFiniteSet(1 .. Len(in))
  BY <1>1, FS_Interval
<1>4. IsFiniteSet(EventLines(in)) /\ Cardinality(EventLines(in)) \in Nat
  BY <1>2, <1>3, FS_Subset, FS_CardinalityType
<1>5. EventLines(in) \in SUBSET Nat
  BY <1>1, <1>2
<1> QED
  BY <1>2, <1>4, <1>5

\* The events and their places.
LEMMA EventsPlaces ==
  ASSUME NEW in \in Seq(Line)
  PROVE  /\ Events(in) \in Seq(Nat) /\ Len(Events(in)) = Cardinality(EventLines(in))
         /\ Len(Events(in)) \in Nat
         /\ \A k \in 1 .. Len(Events(in)) : Events(in)[k] \in EventLines(in)
         /\ \A i : Before(in, i) \in 0 .. Len(Events(in))
<1> DEFINE E == EventLines(in)
<1>1. E \in SUBSET Nat /\ IsFiniteSet(E) /\ Cardinality(E) \in Nat
  BY EventLinesType
<1>2. \A i : Before(in, i) = Rank(E, i)
  BY DEF Before, Rank
<1>3. Events(in) = InOrder(E)
  BY DEF Events
<1> HIDE DEF E
<1>4. /\ InOrder(E) \in Seq(E) /\ Len(InOrder(E)) = Cardinality(E)
      /\ \A k \in 1 .. Cardinality(E) : InOrder(E)[k] \in E
  BY <1>1, InOrderPlaces
<1>5. InOrder(E) \in Seq(Nat)
  BY <1>1, <1>4, SeqMonotonic
<1>6. \A i : Rank(E, i) \in 0 .. Cardinality(E)
  BY <1>1, RankType
<1> QED
  BY <1>1, <1>2, <1>3, <1>4, <1>5, <1>6 DEF E

\* What is known of the lines read does not change, and the new line comes last.
LEMMA JournalGrows ==
  ASSUME NEW in \in Seq(Line), NEW l \in Line
  PROVE  LET in2 == Append(in, l)
             n == Len(in) + 1
         IN  /\ in2 \in Seq(Line) /\ Len(in2) = n /\ in2[n] = l
             /\ \A i \in 1 .. Len(in) : in2[i] = in[i]
             /\ Events(in2) = IF l.kind = "event" THEN Append(Events(in), n) ELSE Events(in)
             /\ \A i \in 1 .. Len(in) : Before(in2, i) = Before(in, i)
             /\ Before(in2, n) = Len(Events(in))
<1> DEFINE in2 == Append(in, l)
           n == Len(in) + 1
           E == EventLines(in)
<1>1. /\ in2 \in Seq(Line) /\ Len(in2) = n /\ in2[n] = l /\ Len(in) \in Nat /\ n \in Nat
      /\ DOMAIN in2 = 1 .. n /\ DOMAIN in = 1 .. Len(in)
      /\ \A i \in 1 .. Len(in) : in2[i] = in[i]
  BY AppendProperties
<1> HIDE DEF in2
<1>2. /\ E \in SUBSET (1 .. Len(in)) /\ E \in SUBSET Nat
      /\ IsFiniteSet(E) /\ Cardinality(E) \in Nat
  BY EventLinesType
<1>3. \A i \in E : i < n
  BY <1>1, <1>2
<1>4. EventLines(in2) = IF l.kind = "event" THEN E \cup {n} ELSE E
  <2>1. \A i : i \in 1 .. n <=> i \in 1 .. Len(in) \/ i = n
    BY <1>1
  <2>2. n \notin 1 .. Len(in)
    BY <1>1
  <2> HIDE DEF n
  <2> QED
    BY <1>1, <2>1, <2>2, Zenon DEF EventLines
<1>5. \A i : Before(in, i) = Rank(E, i) /\ Before(in2, i) = Rank(EventLines(in2), i)
  BY DEF Before, Rank
<1>6. Events(in) = InOrder(E) /\ Events(in2) = InOrder(EventLines(in2))
  BY DEF Events
<1>7. Len(Events(in)) = Cardinality(E)
  BY EventsPlaces
<1>8. \A i \in 1 .. Len(in) : i \in Nat /\ i <= n
  BY <1>1
<1> HIDE DEF E, n
<1>9. CASE l.kind = "event"
  <2>1. /\ InOrder(E \cup {n}) = Append(InOrder(E), n)
        /\ Rank(E \cup {n}, n) = Cardinality(E)
        /\ \A i \in Nat : i <= n => Rank(E \cup {n}, i) = Rank(E, i)
    BY <1>1, <1>2, <1>3, InOrderAdd
  <2>2. EventLines(in2) = E \cup {n}
    BY <1>4, <1>9
  <2> QED
    BY <1>1, <1>5, <1>6, <1>7, <1>8, <1>9, <2>1, <2>2, Zenon DEF in2, n
<1>10. CASE l.kind # "event"
  <2>1. {j \in E : j < n} = E
    BY <1>3, Zenon
  <2>2. Rank(E, n) = Cardinality(E)
    BY <2>1, Zenon DEF Rank
  <2>3. EventLines(in2) = E
    BY <1>4, <1>10
  <2> QED
    BY <1>1, <1>5, <1>6, <1>7, <1>10, <2>2, <2>3, Zenon DEF in2, n
<1> QED
  BY <1>9, <1>10

\* A line stays as safe or unsafe as it was; the new one is judged by the last
\* event before it.
LEMMA UnsafeGrows ==
  ASSUME NEW in \in Seq(Line), NEW l \in Line
  PROVE  LET in2 == Append(in, l)
             e == Len(Events(in))
         IN  /\ \A i \in 1 .. Len(in) : Unsafe(in2, i) <=> Unsafe(in, i)
             /\ Unsafe(in2, Len(in) + 1) <=>
                  \/ l.kind = "bad"
                  \/ l.kind = "event" /\ e > 0 /\ Gap(in[Events(in)[e]].ts, l.ts)
<1> DEFINE in2 == Append(in, l)
           n == Len(in) + 1
           e == Len(Events(in))
<1>1. /\ in2 \in Seq(Line) /\ Len(in2) = n /\ in2[n] = l
      /\ \A i \in 1 .. Len(in) : in2[i] = in[i]
      /\ Events(in2) = IF l.kind = "event" THEN Append(Events(in), n) ELSE Events(in)
      /\ \A i \in 1 .. Len(in) : Before(in2, i) = Before(in, i)
      /\ Before(in2, n) = e
  BY JournalGrows
<1>2. /\ e \in Nat /\ Events(in) \in Seq(Nat)
      /\ \A k \in 1 .. e : Events(in)[k] \in EventLines(in)
      /\ \A i : Before(in, i) \in 0 .. e
  BY EventsPlaces
<1>3. EventLines(in) \in SUBSET (1 .. Len(in)) /\ n \in Nat
  BY EventLinesType
<1>4. \A k \in 1 .. e : Events(in2)[k] = Events(in)[k]
  <2>1. n \in Nat /\ \A k \in 1 .. e : Append(Events(in), n)[k] = Events(in)[k]
    BY <1>2, <1>3, AppendProperties
  <2> QED
    BY <1>1, <2>1
<1>5. \A k \in 1 .. e : in2[Events(in2)[k]] = in[Events(in)[k]]
  BY <1>1, <1>2, <1>3, <1>4
<1> HIDE DEF in2, n, e
<1>6. \A i : Before(in, i) > 0 => Before(in, i) \in 1 .. e
  BY <1>2
<1>7. ASSUME NEW i \in 1 .. Len(in) PROVE Unsafe(in2, i) <=> Unsafe(in, i)
  BY <1>1, <1>5, <1>6, Zenon DEF Unsafe
<1>8. e > 0 => e \in 1 .. e
  BY <1>2
<1>9. Unsafe(in2, n) <=>
         \/ l.kind = "bad"
         \/ l.kind = "event" /\ e > 0 /\ Gap(in[Events(in)[e]].ts, l.ts)
  BY <1>1, <1>5, <1>8, Zenon DEF Unsafe
<1> QED
  BY <1>7, <1>9 DEF in2, n, e
-----------------------------------------------------------------------------
(* Whole chunks *)

\* Multiples of the chunk size.
LEMMA Multiples ==
  ASSUME NEW s \in Nat, NEW a \in Nat, NEW b \in Nat, a <= b
  PROVE  a * s \in Nat /\ a * s <= b * s /\ (a + 1) * s = a * s + s
<1>1. PICK d \in Nat : b = a + d
  <2>1. b - a \in Nat /\ b = a + (b - a)
    OBVIOUS
  <2> QED
    BY <2>1
<1>2. a * s \in Nat /\ d * s \in Nat /\ (a + d) * s = a * s + d * s /\ (a + 1) * s = a * s + s
  OBVIOUS
<1> QED
  BY <1>1, <1>2

\* A number between two consecutive multiples.
LEMMA Quotient ==
  ASSUME NEW s \in Nat \ {0}, NEW q \in Nat, NEW m \in Nat, q * s <= m, m < q * s + s
  PROVE  m \div s = q
<1> DEFINE d == m \div s
           t == m % s
<1>1. d \in Nat /\ t \in Nat /\ t < s /\ m = d * s + t
  OBVIOUS
<1> HIDE DEF d, t
<1>2. CASE d + 1 <= q
  <2>1. (d + 1) * s <= q * s /\ (d + 1) * s = d * s + s /\ d * s \in Nat /\ q * s \in Nat
    BY <1>1, <1>2, Multiples
  <2> QED
    BY <1>1, <2>1
<1>3. CASE q + 1 <= d
  <2>1. (q + 1) * s <= d * s /\ (q + 1) * s = q * s + s /\ d * s \in Nat /\ q * s \in Nat
    BY <1>1, <1>3, Multiples
  <2> QED
    BY <1>1, <2>1
<1> QED
  BY <1>1, <1>2, <1>3 DEF d

\* The invariant holds before the first line.
LEMMA InitIInv == Init => IInv
<1> SUFFICES ASSUME Init PROVE IInv
  OBVIOUS
<1>1. size \in Nat \ {0}
  BY TimelineAssumption DEF Init, EffectiveSize
<1>2. /\ input = <<>> /\ batch = <<>> /\ chunks = <<>>
      /\ <<>> \in Seq(Line) /\ <<>> \in Seq(Nat)
      /\ <<>> \in Seq([events : Seq(Nat), marker : BOOLEAN])
  BY DEF Init
<1>3. rows = 0 /\ prev_ts = 0 /\ gap_in_batch = FALSE /\ pc = "read"
  BY DEF Init
<1>4. TypeOK
  <2>1. /\ input \in Seq(Line) /\ batch \in Seq(Nat)
        /\ chunks \in Seq([events : Seq(Nat), marker : BOOLEAN])
    BY <1>2, Zenon
  <2> QED
    BY <1>1, <1>3, <2>1 DEF TypeOK
<1>5. Len(input) = 0 /\ Len(batch) = 0 /\ Len(chunks) = 0
  BY <1>2
<1>6. Len(Events(input)) = 0
  <2>1. EventLines(input) = {}
    BY <1>2 DEF EventLines
  <2>2. Cardinality(EventLines(input)) = 0
    BY <2>1, FS_EmptySet, Zenon
  <2> QED
    BY <1>4, <2>2, EventsPlaces DEF TypeOK
<1>7. Flushed = 0
  BY <1>1, <1>5 DEF Flushed
<1>8. Sliced /\ Previous /\ Bounded
  BY <1>1, <1>3, <1>5, <1>6, <1>7 DEF Sliced, Previous, Bounded
<1>9. Marked
  <2>1. gap_in_batch # TRUE
    BY <1>3
  <2>2. \A i : i \notin 1 .. 0
    OBVIOUS
  <2> QED
    BY <1>5, <2>1, <2>2, Zenon DEF Marked
<1> QED
  BY <1>3, <1>4, <1>8, <1>9 DEF IInv

\* What a line does to the events and their numbers.
LEMMA ReadFacts ==
  ASSUME IInv, NEW l \in Line, ReadLine(l)
  PROVE  /\ TypeOK /\ Bounded /\ Sliced /\ Previous /\ Marked /\ pc = "read" /\ pc' = "read"
         /\ input' \in Seq(Line) /\ Len(input') = Len(input) + 1
         /\ Len(input) \in Nat /\ Len(chunks) \in Nat /\ Len(batch) \in Nat /\ rows \in Nat
         /\ size \in Nat \ {0} /\ size' = size /\ Flushed \in Nat /\ Flushed = Len(chunks) * size
         /\ Events(input) \in Seq(Nat) /\ Len(Events(input)) = rows
         /\ \A i \in 1 .. rows : Events(input)[i] \in 1 .. Len(input)
         /\ \A i \in 1 .. Len(input) : input'[i] = input[i]
         /\ input'[Len(input) + 1] = l
         /\ \A i \in 1 .. Len(input) :
              (Unsafe(input', i) <=> Unsafe(input, i)) /\ Fills(input', size', i) = Fills(input, size, i)
         /\ Fills(input', size', Len(input) + 1) = Len(chunks) + 1
         /\ Unsafe(input', Len(input) + 1) <=>
              l.kind = "bad" \/ (l.kind = "event" /\ Gap(prev_ts, l.ts))
         /\ l.kind # "event" => Events(input') = Events(input)
         /\ l.kind = "event" => /\ Events(input') = Append(Events(input), Len(input) + 1)
                                /\ Events(input') \in Seq(Nat) /\ Len(Events(input')) = rows + 1
                                /\ Events(input')[rows + 1] = Len(input) + 1
                                /\ \A i \in 1 .. rows : Events(input')[i] = Events(input)[i]
<1>1. pc = "read" /\ pc' = "read" /\ input' = Append(input, l) /\ size' = size
  BY DEF ReadLine
<1>2. TypeOK /\ Bounded /\ Sliced /\ Previous /\ Marked
  BY <1>1 DEF IInv
<1>3. /\ input \in Seq(Line) /\ Len(input) \in Nat /\ Len(chunks) \in Nat /\ Len(batch) \in Nat
      /\ rows \in Nat /\ size \in Nat \ {0} /\ Len(batch) < size
  BY <1>2 DEF TypeOK, Bounded
<1>4. Flushed = Len(chunks) * size /\ Flushed \in Nat
  BY <1>3, Multiples DEF Flushed
<1>5. rows = Len(Events(input)) /\ rows = Flushed + Len(batch)
  BY <1>2 DEF Sliced
<1>6. /\ Events(input) \in Seq(Nat)
      /\ \A i \in 1 .. rows : Events(input)[i] \in 1 .. Len(input)
  BY <1>3, <1>5, EventsPlaces, EventLinesType
<1>7. /\ input' \in Seq(Line) /\ Len(input') = Len(input) + 1 /\ input'[Len(input) + 1] = l
      /\ \A i \in 1 .. Len(input) : input'[i] = input[i]
      /\ Events(input') = IF l.kind = "event" THEN Append(Events(input), Len(input) + 1)
                          ELSE Events(input)
      /\ \A i \in 1 .. Len(input) : Before(input', i) = Before(input, i)
      /\ Before(input', Len(input) + 1) = rows
  BY <1>1, <1>3, <1>5, JournalGrows
<1>8. /\ \A i \in 1 .. Len(input) : Unsafe(input', i) <=> Unsafe(input, i)
      /\ Unsafe(input', Len(input) + 1) <=>
           \/ l.kind = "bad"
           \/ l.kind = "event" /\ rows > 0 /\ Gap(input[Events(input)[rows]].ts, l.ts)
  BY <1>1, <1>3, <1>5, UnsafeGrows
<1>9. Unsafe(input', Len(input) + 1) <=>
        l.kind = "bad" \/ (l.kind = "event" /\ Gap(prev_ts, l.ts))
  <2>1. rows = 0 => ~Gap(prev_ts, l.ts)
    BY <1>2 DEF Previous, Gap
  <2>2. rows > 0 => prev_ts = input[Events(input)[rows]].ts
    BY <1>2 DEF Previous
  <2>3. rows = 0 \/ rows > 0
    BY <1>3
  <2>4. rows = 0 => ~(rows > 0)
    BY <1>3
  <2> QED
    BY <1>8, <2>1, <2>2, <2>3, <2>4, Zenon
<1>10. /\ \A i \in 1 .. Len(input) : Fills(input', size', i) = Fills(input, size, i)
       /\ Fills(input', size', Len(input) + 1) = Len(chunks) + 1
  <2>1. \A i \in 1 .. Len(input) : Fills(input', size', i) = Fills(input, size, i)
    BY <1>1, <1>7 DEF Fills
  <2>2. rows \div size = Len(chunks)
    BY <1>3, <1>4, <1>5, Quotient, SMTT(30)
  <2> QED
    BY <1>1, <1>7, <2>1, <2>2 DEF Fills
<1>11. l.kind = "event" => /\ Events(input') = Append(Events(input), Len(input) + 1)
                           /\ Events(input') \in Seq(Nat) /\ Len(Events(input')) = rows + 1
                           /\ Events(input')[rows + 1] = Len(input) + 1
                           /\ \A i \in 1 .. rows : Events(input')[i] = Events(input)[i]
  <2> DEFINE e == Events(input)
             n == Len(input) + 1
  <2>1. n \in Nat /\ e \in Seq(Nat)
    BY <1>3, <1>6
  <2> HIDE DEF e, n
  <2>2. /\ Append(e, n) \in Seq(Nat) /\ Len(Append(e, n)) = Len(e) + 1
        /\ Append(e, n)[Len(e) + 1] = n /\ \A i \in 1 .. Len(e) : Append(e, n)[i] = e[i]
    BY <2>1, AppendProperties
  <2>3. Len(e) = rows
    BY <1>5 DEF e
  <2>4. l.kind = "event" => Events(input') = Append(e, n)
    BY <1>7 DEF e, n
  <2> QED
    BY <2>2, <2>3, <2>4, Zenon DEF e, n
<1> QED
  BY <1>1, <1>2, <1>3, <1>4, <1>5, <1>6, <1>7, <1>8, <1>9, <1>10, <1>11

\* An event line fills the batch up to a chunk, or does not.
FillsUp(l) ==
  /\ l.kind = "event" /\ Len(batch) + 1 = size
  /\ chunks' = Append(chunks, Chunk(Append(batch, Len(input) + 1), gap_in_batch \/ Gap(prev_ts, l.ts)))
  /\ batch' = <<>> /\ gap_in_batch' = FALSE

Collects(l) ==
  /\ l.kind = "event" /\ Len(batch) + 1 < size
  /\ batch' = Append(batch, Len(input) + 1)
  /\ gap_in_batch' = (gap_in_batch \/ Gap(prev_ts, l.ts)) /\ chunks' = chunks

\* The three things a line can do, and the types it leaves.
LEMMA ReadCases ==
  ASSUME IInv, NEW l \in Line, ReadLine(l)
  PROVE  /\ \/ /\ l.kind # "event" /\ chunks' = chunks /\ batch' = batch /\ rows' = rows
               /\ prev_ts' = prev_ts
               /\ gap_in_batch' = IF l.kind = "bad" THEN TRUE ELSE gap_in_batch
            \/ (FillsUp(l) \/ Collects(l)) /\ rows' = rows + 1 /\ prev_ts' = l.ts
         /\ TypeOK'
<1>0. /\ TypeOK /\ Bounded /\ pc' = "read" /\ size' = size /\ input' \in Seq(Line)
      /\ Len(batch) \in Nat /\ Len(input) \in Nat /\ size \in Nat
  BY ReadFacts
<1>1. CASE SkipLine(l) \/ BadLine(l)
  <2>1. /\ l.kind # "event" /\ chunks' = chunks /\ batch' = batch /\ rows' = rows
        /\ prev_ts' = prev_ts
    BY <1>1 DEF SkipLine, BadLine
  <2>2. gap_in_batch' = IF l.kind = "bad" THEN TRUE ELSE gap_in_batch
    BY <1>1 DEF SkipLine, BadLine
  <2>3. gap_in_batch' \in BOOLEAN
    BY <1>0, <2>2 DEF TypeOK
  <2> QED
    BY <1>0, <2>1, <2>2, <2>3 DEF TypeOK
<1>2. CASE EventLine(l)
  <2> DEFINE more == Append(batch, Len(input) + 1)
             gap == gap_in_batch \/ Gap(prev_ts, l.ts)
  <2>1. l.kind = "event" /\ rows' = rows + 1 /\ prev_ts' = l.ts /\ l.ts \in Nat
    BY <1>2, LineFields DEF EventLine
  <2>2. more \in Seq(Nat) /\ Len(more) = Len(batch) + 1 /\ Len(input) + 1 \in Nat
    BY <1>0, AppendProperties DEF TypeOK
  <2>3. gap \in BOOLEAN
    OBVIOUS
  <2>4. \/ Len(more) >= size /\ chunks' = Append(chunks, Chunk(more, gap)) /\ batch' = <<>>
           /\ gap_in_batch' = FALSE
        \/ ~(Len(more) >= size) /\ batch' = more /\ gap_in_batch' = gap /\ chunks' = chunks
    BY <1>2, Zenon DEF EventLine, BatchFull, Flush
  <2>5. Len(batch) < size
    BY <1>0 DEF Bounded
  <2> HIDE DEF more, gap
  <2>6. CASE Len(more) >= size /\ chunks' = Append(chunks, Chunk(more, gap)) /\ batch' = <<>>
             /\ gap_in_batch' = FALSE
    <3>1. Len(batch) + 1 = size
      BY <1>0, <2>2, <2>5, <2>6
    <3>2. FillsUp(l)
      BY <2>1, <2>6, <3>1, Zenon DEF FillsUp, more, gap
    <3>3. Chunk(more, gap) \in [events : Seq(Nat), marker : BOOLEAN]
      BY <2>2, <2>3, Zenon DEF Chunk
    <3>4. chunks' \in Seq([events : Seq(Nat), marker : BOOLEAN])
      BY <1>0, <2>6, <3>3, AppendProperties DEF TypeOK
    <3>5. <<>> \in Seq(Nat)
      OBVIOUS
    <3>6. batch' \in Seq(Nat) /\ gap_in_batch' \in BOOLEAN
      BY <2>6, <3>5, Zenon
    <3> QED
      BY <1>0, <2>1, <3>2, <3>4, <3>6 DEF TypeOK
  <2>7. CASE ~(Len(more) >= size) /\ batch' = more /\ gap_in_batch' = gap /\ chunks' = chunks
    <3>1. Len(batch) + 1 < size
      BY <1>0, <2>2, <2>7
    <3>2. Collects(l)
      BY <2>1, <2>7, <3>1, Zenon DEF Collects, more, gap
    <3>3. batch' \in Seq(Nat) /\ gap_in_batch' \in BOOLEAN
      BY <2>2, <2>3, <2>7, Zenon
    <3> QED
      BY <1>0, <2>1, <2>7, <3>2, <3>3 DEF TypeOK
  <2> QED
    BY <2>4, <2>6, <2>7
<1> QED
  BY <1>1, <1>2 DEF ReadLine

\* Where the events of whole chunks are.
LEMMA ChunkIndex ==
  ASSUME NEW s \in Nat \ {0}, NEW c \in Nat, NEW k \in 1 .. c, NEW j \in 1 .. s
  PROVE  (k - 1) * s + j \in 1 .. c * s
<1>1. (k - 1) \in Nat /\ k \in Nat /\ k <= c /\ (k - 1) + 1 = k /\ (k - 1) <= k
  OBVIOUS
<1> DEFINE b == k - 1
<1>2. b * s \in Nat /\ (b + 1) * s = b * s + s
  BY <1>1, Multiples
<1>3. k * s <= c * s /\ k * s \in Nat /\ c * s \in Nat
  BY <1>1, Multiples
<1>4. k * s = b * s + s
  BY <1>1, <1>2
<1> HIDE DEF b
<1>5. b * s + j \in 1 .. c * s
  BY <1>2, <1>3, <1>4
<1> QED
  BY <1>5 DEF b

\* A line keeps the events in the chunks and the batch, in order.
LEMMA SlicedStep ==
  ASSUME IInv, NEW l \in Line, ReadLine(l)
  PROVE  Sliced' /\ Previous' /\ Bounded'
<1> DEFINE c == Len(chunks)
           b == Len(batch)
           n == Len(input) + 1
           ev == Events(input)
<1>0. /\ c \in Nat /\ b \in Nat /\ rows \in Nat /\ size \in Nat \ {0} /\ size' = size
      /\ Flushed = c * size /\ Flushed \in Nat /\ n \in Nat
      /\ \A i \in 1 .. rows : ev[i] \in 1 .. Len(input)
      /\ \A i \in 1 .. Len(input) : input'[i] = input[i]
      /\ input'[n] = l
  BY ReadFacts
<1>1. /\ rows = Len(ev) /\ rows = Flushed + b /\ b < size
      /\ \A k \in 1 .. c : /\ Len(chunks[k].events) = size
                           /\ \A j \in 1 .. size : chunks[k].events[j] = ev[(k - 1) * size + j]
      /\ \A j \in 1 .. b : batch[j] = ev[Flushed + j]
  BY ReadFacts DEF Sliced, Bounded
<1>7. rows = Flushed + b /\ b < size
  BY <1>1
<1>8. \A k \in 1 .. c : Len(chunks[k].events) = size
  BY <1>1
<1>9. \A k \in 1 .. c : \A j \in 1 .. size : chunks[k].events[j] = ev[(k - 1) * size + j]
  BY <1>1
<1>2. rows > 0 => prev_ts = input[ev[rows]].ts
  BY ReadFacts DEF Previous
<1>3. \A k \in 1 .. c, j \in 1 .. size : (k - 1) * size + j \in 1 .. rows
  <2>1. \A k \in 1 .. c, j \in 1 .. size : (k - 1) * size + j \in 1 .. Flushed
    BY <1>0, ChunkIndex
  <2>2. \A x \in 1 .. Flushed : x \in 1 .. rows
    BY <1>0, <1>7
  <2> QED
    BY <2>1, <2>2, Zenon
<1>4. Flushed' = Len(chunks') * size
  BY <1>0 DEF Flushed
<1>5. CASE /\ l.kind # "event" /\ chunks' = chunks /\ batch' = batch /\ rows' = rows
           /\ prev_ts' = prev_ts
  <2>1. Events(input') = ev
    BY <1>5, ReadFacts
  <2>2. Flushed' = Flushed
    BY <1>0, <1>4, <1>5
  <2>3. Sliced'
    <3>1. Sliced /\ size' = size
      BY ReadFacts
    <3> QED
      BY <1>5, <2>1, <2>2, <3>1, ZenonT(30) DEF Sliced
  <2>4. Bounded'
    BY <1>0, <1>5, ReadFacts, Zenon DEF Bounded
  <2>5. rows > 0 => rows \in 1 .. rows
    BY <1>0
  <2>6. rows > 0 => input'[ev[rows]] = input[ev[rows]]
    BY <1>0, <2>5
  <2>7. rows = 0 => prev_ts = 0
    BY ReadFacts DEF Previous
  <2>8. Previous'
    BY <1>2, <1>5, <2>1, <2>6, <2>7, Zenon DEF Previous
  <2> QED
    BY <2>3, <2>4, <2>8
<1>6. CASE (FillsUp(l) \/ Collects(l)) /\ rows' = rows + 1 /\ prev_ts' = l.ts
  <2> DEFINE more == Append(batch, n)
  <2>1. /\ l.kind = "event" /\ Len(Events(input')) = rows + 1 /\ Events(input')[rows + 1] = n
        /\ \A i \in 1 .. rows : Events(input')[i] = ev[i]
    <3>1. l.kind = "event"
      BY <1>6 DEF FillsUp, Collects
    <3> QED
      BY <3>1, ReadFacts
  <2> DEFINE ev2 == Events(input')
  <2> HIDE DEF ev, ev2
  <2>2. Previous'
    <3>1. rows' > 0 /\ rows' # 0 /\ rows' = rows + 1
      BY <1>0, <1>6
    <3>2. input'[ev2[rows + 1]] = l
      BY <1>0, <2>1 DEF ev2
    <3> QED
      BY <1>6, <3>1, <3>2, Zenon DEF Previous, ev2
  <2>3. /\ Len(more) = b + 1 /\ more[b + 1] = n /\ \A j \in 1 .. b : more[j] = batch[j]
        /\ more \in Seq(Nat)
    BY <1>0, ReadFacts, AppendProperties DEF TypeOK
  <2>4. \A j \in 1 .. b + 1 : more[j] = ev2[Flushed + j]
    <3>1. \A j \in 1 .. b : Flushed + j \in 1 .. rows
      BY <1>0, <1>7
    <3>2. \A j \in 1 .. b : more[j] = ev2[Flushed + j]
      BY <1>1, <2>1, <2>3, <3>1 DEF ev2
    <3>3. Flushed + (b + 1) = rows + 1
      BY <1>0, <1>7
    <3>4. more[b + 1] = ev2[Flushed + (b + 1)]
      BY <2>1, <2>3, <3>3 DEF ev2
    <3>5. \A j \in 1 .. b + 1 : j \in 1 .. b \/ j = b + 1
      BY <1>0
    <3> QED
      BY <3>2, <3>4, <3>5
  <2>5. \A k \in 1 .. c : \A j \in 1 .. size : chunks[k].events[j] = ev2[(k - 1) * size + j]
    BY <1>3, <1>9, <2>1 DEF ev2
  <2> HIDE DEF more
  <2>6. CASE FillsUp(l)
    <3> DEFINE new == Chunk(more, gap_in_batch \/ Gap(prev_ts, l.ts))
    <3>1. /\ chunks' = Append(chunks, new) /\ batch' = <<>> /\ b + 1 = size
      BY <2>6 DEF FillsUp, more
    <3>2. new.events = more /\ new \in [events : Seq(Nat), marker : BOOLEAN]
      BY <2>3 DEF Chunk
    <3> HIDE DEF new
    <3>3. /\ Len(chunks') = c + 1 /\ chunks'[c + 1] = new
          /\ \A k \in 1 .. c : chunks'[k] = chunks[k]
      BY <3>1, <3>2, ReadFacts, AppendProperties DEF TypeOK
    <3>4. Len(batch') = 0
      BY <3>1
    <3>5. Flushed' = Flushed + size
      BY <1>0, <1>4, <3>3, Multiples
    <3>6. \A k \in 1 .. c + 1 : k \in 1 .. c \/ k = c + 1
      BY <1>0
    <3>7. ASSUME NEW k \in 1 .. c + 1
          PROVE  /\ Len(chunks'[k].events) = size
                 /\ \A j \in 1 .. size : chunks'[k].events[j] = ev2[(k - 1) * size + j]
      <4>1. CASE k \in 1 .. c
        BY <1>8, <2>5, <3>3, <4>1, Zenon
      <4>2. CASE k = c + 1
        <5>1. k - 1 = c /\ (k - 1) * size = Flushed
          BY <1>0, <4>2
        <5>2. chunks'[k].events = more /\ Len(more) = size
          BY <2>3, <3>1, <3>2, <3>3, <4>2
        <5> QED
          BY <2>4, <3>1, <5>1, <5>2, Zenon
      <4> QED
        BY <3>6, <4>1, <4>2
    <3>8. rows' = Len(ev2) /\ rows' = Flushed' + Len(batch')
      BY <1>0, <1>7, <1>6, <2>1, <3>1, <3>4, <3>5 DEF ev2
    <3>9. Sliced'
      <4>1. \A j : j \notin 1 .. 0
        OBVIOUS
      <4>2. \A j \in 1 .. Len(batch') : batch'[j] = ev2[Flushed' + j]
        BY <3>4, <4>1, Zenon
      <4>3. \A k \in 1 .. Len(chunks') :
              /\ Len(chunks'[k].events) = size'
              /\ \A j \in 1 .. size' : chunks'[k].events[j] = ev2[(k - 1) * size' + j]
        BY <1>0, <3>3, <3>7, Zenon
      <4> QED
        BY <3>8, <4>2, <4>3, Zenon DEF Sliced, ev2
    <3>10. Bounded'
      BY <1>0, <3>3, <3>4, <3>7 DEF Bounded
    <3> QED
      BY <2>2, <3>9, <3>10
  <2>7. CASE Collects(l)
    <3>1. batch' = more /\ chunks' = chunks /\ b + 1 < size
      BY <2>7 DEF Collects, more
    <3>2. Flushed' = Flushed
      BY <1>0, <1>4, <3>1
    <3>3. rows' = Len(ev2) /\ rows' = Flushed' + Len(batch')
      <4>1. rows' = rows + 1 /\ Len(ev2) = rows + 1
        BY <1>6, <2>1 DEF ev2
      <4>2. Len(batch') = b + 1
        BY <2>3, <3>1
      <4>3. \A x, y, z \in Nat : x = y + z => x + 1 = y + (z + 1)
        OBVIOUS
      <4>4. rows + 1 = Flushed + (b + 1)
        <5>1. rows \in Nat /\ Flushed \in Nat /\ b \in Nat
          BY <1>0
        <5> QED BY <1>7, <4>3, <5>1, Zenon
      <4> QED
        BY <3>2, <4>1, <4>2, <4>4, Zenon
    <3>4. Sliced'
      <4>1. \A j \in 1 .. Len(batch') : batch'[j] = ev2[Flushed' + j]
        BY <2>3, <2>4, <3>1, <3>2, Zenon
      <4>2. \A k \in 1 .. Len(chunks') :
              /\ Len(chunks'[k].events) = size'
              /\ \A j \in 1 .. size' : chunks'[k].events[j] = ev2[(k - 1) * size' + j]
        BY <1>0, <1>8, <2>5, <3>1, Zenon
      <4> QED
        BY <3>3, <4>1, <4>2, Zenon DEF Sliced, ev2
    <3>5. Bounded'
      BY <1>0, <2>3, <3>1, ReadFacts, Zenon DEF Bounded
    <3> QED
      BY <2>2, <3>4, <3>5
  <2> QED
    BY <1>6, <2>6, <2>7
<1> QED
  BY <1>5, <1>6, ReadCases

\* A line that sets a marker marks the chunk being filled, and no other.
LEMMA MarkedStep ==
  ASSUME IInv, NEW l \in Line, ReadLine(l)
  PROVE  Marked'
<1> DEFINE c == Len(chunks)
           n == Len(input) + 1
           U(i) == Unsafe(input, i)
           F(i) == Fills(input, size, i)
           V(i) == Unsafe(input', i)
           G(i) == Fills(input', size', i)
<1>0. /\ c \in Nat /\ Len(input) \in Nat /\ n \in Nat /\ Len(input') = n /\ Marked
      /\ \A i \in 1 .. Len(input) : (V(i) <=> U(i)) /\ G(i) = F(i)
      /\ G(n) = c + 1
      /\ V(n) <=> l.kind = "bad" \/ (l.kind = "event" /\ Gap(prev_ts, l.ts))
  BY ReadFacts
<1>1. /\ \A i \in 1 .. Len(input) : U(i) => F(i) \in 1 .. c + 1
      /\ \A k \in 1 .. c :
           chunks[k].marker = TRUE <=> \E i \in 1 .. Len(input) : U(i) /\ F(i) = k
      /\ gap_in_batch = TRUE <=> \E i \in 1 .. Len(input) : U(i) /\ F(i) = c + 1
  BY <1>0, Zenon DEF Marked
<1>2. /\ \A i : i \in 1 .. n <=> i \in 1 .. Len(input) \/ i = n
      /\ c + 1 \in 1 .. c + 1 /\ c + 1 \notin 1 .. c
      /\ \A k : k \in 1 .. c + 1 <=> k \in 1 .. c \/ k = c + 1
      /\ \A k \in 1 .. c + 1 : k \in 1 .. (c + 1) + 1 /\ k # (c + 1) + 1
  BY <1>0
<1> HIDE DEF c, n, U, F, V, G
<1>3. \A i \in 1 .. n : V(i) => G(i) \in 1 .. c + 1
  BY <1>0, <1>1, <1>2, Zenon
<1>4. \A k \in 1 .. c : chunks[k].marker = TRUE <=> \E i \in 1 .. n : V(i) /\ G(i) = k
  BY <1>0, <1>1, <1>2, Zenon
<1>5. (\E i \in 1 .. n : V(i) /\ G(i) = c + 1) <=> gap_in_batch = TRUE \/ V(n)
  BY <1>0, <1>1, <1>2, Zenon
<1>6. ~\E i \in 1 .. n : V(i) /\ G(i) = (c + 1) + 1
  BY <1>2, <1>3, Zenon
<1>7. gap_in_batch \in BOOLEAN /\ l.kind \in {"blank", "bad", "foreign", "event"}
  BY ReadFacts, LineFields DEF TypeOK
<1>8. SUFFICES /\ \A i \in 1 .. n : V(i) => G(i) \in 1 .. Len(chunks') + 1
               /\ \A k \in 1 .. Len(chunks') :
                    chunks'[k].marker = TRUE <=> \E i \in 1 .. n : V(i) /\ G(i) = k
               /\ gap_in_batch' = TRUE <=>
                    \E i \in 1 .. n : V(i) /\ G(i) = Len(chunks') + 1
  BY <1>0, Zenon DEF Marked, V, G
<1>9. CASE /\ l.kind # "event" /\ chunks' = chunks
           /\ gap_in_batch' = IF l.kind = "bad" THEN TRUE ELSE gap_in_batch
  <2>1. Len(chunks') = c
    BY <1>9 DEF c
  <2>2. V(n) <=> l.kind = "bad"
    BY <1>0, <1>9
  <2>3. gap_in_batch' = TRUE <=> gap_in_batch = TRUE \/ V(n)
    BY <1>9, <2>2, Zenon
  <2> QED
    BY <1>3, <1>4, <1>5, <1>9, <2>1, <2>3, Zenon
<1>10. CASE FillsUp(l)
  <2> DEFINE new == Chunk(Append(batch, n), gap_in_batch \/ Gap(prev_ts, l.ts))
  <2>1. chunks' = Append(chunks, new) /\ gap_in_batch' = FALSE /\ l.kind = "event"
    BY <1>10 DEF FillsUp, n
  <2>2. V(n) <=> Gap(prev_ts, l.ts)
    BY <1>0, <2>1
  <2>3. new.marker = TRUE <=> gap_in_batch = TRUE \/ V(n)
    <3>1. new.marker = (gap_in_batch \/ Gap(prev_ts, l.ts))
      BY DEF Chunk
    <3> HIDE DEF new
    <3> QED
      BY <1>7, <2>2, <3>1, Zenon
  <2>4. new \in [events : Seq(Nat), marker : BOOLEAN]
    <3>1. Append(batch, n) \in Seq(Nat)
      BY <1>0, ReadFacts, AppendProperties DEF TypeOK
    <3> QED
      BY <3>1, Zenon DEF Chunk
  <2> HIDE DEF new
  <2>5. /\ Len(chunks') = c + 1 /\ chunks'[c + 1] = new
        /\ \A k \in 1 .. c : chunks'[k] = chunks[k]
    BY <2>1, <2>4, ReadFacts, AppendProperties DEF TypeOK, c
  <2>6. gap_in_batch' # TRUE
    BY <2>1
  <2>7. \A i \in 1 .. n : V(i) => G(i) \in 1 .. (c + 1) + 1
    BY <1>2, <1>3, Zenon
  <2>8. \A k \in 1 .. c + 1 :
          chunks'[k].marker = TRUE <=> \E i \in 1 .. n : V(i) /\ G(i) = k
    BY <1>2, <1>4, <1>5, <2>3, <2>5, Zenon
  <2> QED
    BY <1>6, <2>5, <2>6, <2>7, <2>8, Zenon
<1>11. CASE Collects(l)
  <2>1. /\ gap_in_batch' = (gap_in_batch \/ Gap(prev_ts, l.ts)) /\ chunks' = chunks
        /\ l.kind = "event"
    BY <1>11 DEF Collects
  <2>2. V(n) <=> Gap(prev_ts, l.ts)
    BY <1>0, <2>1
  <2>3. gap_in_batch' = TRUE <=> gap_in_batch = TRUE \/ V(n)
    BY <1>7, <2>1, <2>2, Zenon
  <2>4. Len(chunks') = c
    BY <2>1 DEF c
  <2> QED
    BY <1>3, <1>4, <1>5, <2>1, <2>3, <2>4, Zenon
<1> QED
  BY <1>9, <1>10, <1>11, ReadCases
-----------------------------------------------------------------------------
(* The end of the journal *)

\* The slices build_chunked() makes; none of an empty journal.
Slices(in, s) == IF Len(Events(in)) = 0 THEN <<>> ELSE build_chunked(in, s)

\* A sequence that copies e from lo on is a slice of e.
LEMMA SliceIs ==
  ASSUME NEW e \in Seq(Nat), NEW t \in Seq(Nat), NEW lo \in Nat, NEW hi \in Nat,
         lo <= hi, hi <= Len(e), Len(t) = hi - lo,
         \A j \in 1 .. Len(t) : t[j] = e[lo + j]
  PROVE  t = SubSeq(e, lo + 1, hi)
<1> DEFINE u == SubSeq(e, lo + 1, hi)
<1>0. Len(e) \in Nat
  OBVIOUS
<1>1. lo + 1 \in 1 .. Len(e) + 1 /\ hi \in lo .. Len(e)
  BY <1>0
<1>2. u \in Seq(Nat) /\ Len(u) = hi - lo /\ \A j \in 1 .. hi - lo : u[j] = e[lo + j]
  <2>1. \A j \in 1 .. hi - lo : (lo + 1) + j - 1 = lo + j /\ lo + j \in 1 .. Len(e)
    BY <1>0, SMTT(30)
  <2>2. u \in Seq(Nat) /\ Len(u) = hi - lo
    BY <1>0, <1>1, SMTT(30)
  <2>3. \A j \in 1 .. hi - lo : u[j] = e[lo + j]
    <3>1. lo + 1 \in Int /\ hi \in Int /\ hi - (lo + 1) + 1 = hi - lo
      OBVIOUS
    <3>2. \A i \in lo + 1 .. hi : e[i] \in Nat
      BY <1>0
    <3>3. \A j \in 1 .. hi - (lo + 1) + 1 : u[j] = e[(lo + 1) + j - 1]
      BY <3>1, <3>2, SubSeqProperties
    <3> QED
      BY <2>1, <3>1, <3>3
  <2> QED
    BY <2>2, <2>3
<1> HIDE DEF u
<1>3. t = u
  BY <1>2, SeqEqual
<1> QED
  BY <1>3 DEF u

\* The slices of c whole chunks and b events more.
LEMMA SlicesAre ==
  ASSUME NEW in \in Seq(Line), NEW s \in Nat \ {0}, NEW c \in Nat, NEW b \in Nat,
         b < s, Len(Events(in)) = c * s + b
  PROVE  LET m == IF b > 0 THEN c + 1 ELSE c
         IN  /\ Slices(in, s) \in Seq(Seq(Nat)) /\ Len(Slices(in, s)) = m
             /\ \A k \in 1 .. c : Slices(in, s)[k] = SubSeq(Events(in), (k - 1) * s + 1, k * s)
             /\ b > 0 => Slices(in, s)[c + 1] = SubSeq(Events(in), c * s + 1, c * s + b)
<1> DEFINE e == Events(in)
           r == Len(e)
           m == IF b > 0 THEN c + 1 ELSE c
           count == (r + s - 1) \div s
           End(k) == IF k * s < r THEN k * s ELSE r
<1>0. e \in Seq(Nat) /\ r \in Nat /\ m \in Nat /\ c * s \in Nat /\ r = c * s + b
  BY EventsPlaces, Multiples
<1>1. CASE r = 0
  <2>1. c * s = 0 /\ b = 0
    BY <1>0, <1>1
  <2>2. c = 0
    <3>1. CASE c >= 1
      <4>1. 1 * s <= c * s /\ 1 * s = s
        BY <3>1, Multiples
      <4> QED
        BY <2>1, <4>1
    <3> QED
      BY <3>1
  <2>3. Slices(in, s) = <<>>
    BY <1>1 DEF Slices
  <2>4. <<>> \in Seq(Seq(Nat)) /\ Len(<<>>) = 0
    OBVIOUS
  <2>5. Slices(in, s) \in Seq(Seq(Nat)) /\ Len(Slices(in, s)) = 0
    BY <2>3, <2>4, Zenon
  <2> QED
    BY <2>1, <2>2, <2>5
<1>2. CASE r > 0
  <2> DEFINE f == [k \in 1 .. count |-> SubSeq(e, (k - 1) * s + 1, End(k))]
  <2>1. Slices(in, s) = f
    <3>1. e # <<>> /\ r # 0
      BY <1>0, <1>2
    <3> QED
      BY <3>1, Zenon DEF Slices, build_chunked
  <2>2. count = m
    <3>1. (c + 1) * s = c * s + s /\ (c + 1) * s \in Nat
      BY <1>0, Multiples
    <3>2. r + s - 1 \in Nat
      BY <1>0
    <3>3. m * s <= r + s - 1 /\ r + s - 1 < m * s + s
      BY <1>0, <3>1
    <3> HIDE DEF m, r
    <3> QED
      BY <1>0, <3>2, <3>3, Quotient
  <2>3. \A k \in 1 .. c : End(k) = k * s
    <3> SUFFICES ASSUME NEW k \in 1 .. c PROVE End(k) = k * s
      OBVIOUS
    <3>1. k * s <= c * s /\ k * s \in Nat
      BY Multiples
    <3>2. CASE k = c
      BY <1>0, <3>1, <3>2
    <3>3. CASE k + 1 <= c
      <4>1. (k + 1) * s <= c * s /\ (k + 1) * s = k * s + s
        BY <3>3, Multiples
      <4> QED
        BY <1>0, <3>1, <4>1
    <3> QED
      BY <3>2, <3>3
  <2>4. b > 0 => End(c + 1) = c * s + b
    <3>1. (c + 1) * s = c * s + s
      BY Multiples
    <3> QED
      BY <1>0, <3>1
  <2>5. \A k \in 1 .. m : k \in 1 .. c \/ (b > 0 /\ k = c + 1)
    OBVIOUS
  <2> HIDE DEF End, count, m
  <2>6. \A k \in 1 .. c : k \in 1 .. m
    BY DEF m
  <2>7. b > 0 => c + 1 \in 1 .. m /\ (c + 1) - 1 = c
    BY DEF m
  <2>8. \A k \in 1 .. c : f[k] = SubSeq(e, (k - 1) * s + 1, k * s)
    BY <2>2, <2>3, <2>6, Zenon
  <2>9. b > 0 => f[c + 1] = SubSeq(e, c * s + 1, c * s + b)
    BY <2>2, <2>4, <2>7, Zenon
  <2>10. \A k \in 1 .. m : f[k] \in Seq(Nat)
    <3>1. ASSUME NEW x \in Nat, NEW y \in 0 .. r PROVE SubSeq(e, x + 1, y) \in Seq(Nat)
      <4>1. x + 1 \in Int /\ y \in Int /\ \A i \in x + 1 .. y : e[i] \in Nat
        BY <1>0
      <4> QED
        BY <4>1, SubSeqProperties
    <3>2. ASSUME NEW k \in 1 .. c PROVE f[k] \in Seq(Nat)
      <4>1. k - 1 \in Nat /\ k \in Nat /\ k <= c /\ k - 1 <= k
        OBVIOUS
      <4>2. (k - 1) * s \in Nat
        BY <4>1, Multiples
      <4>3. k * s \in Nat /\ k * s <= c * s
        BY <4>1, Multiples
      <4>4. k * s \in 0 .. r
        BY <1>0, <4>3
      <4> QED
        BY <2>8, <3>1, <4>2, <4>4
    <3>3. b > 0 => f[c + 1] \in Seq(Nat)
      <4>1. c * s + b \in 0 .. r
        BY <1>0
      <4> QED
        BY <1>0, <2>9, <3>1, <4>1
    <3> QED
      BY <2>5, <3>2, <3>3, Zenon
  <2>11. f \in Seq(Seq(Nat)) /\ Len(f) = m
    <3>1. f \in [1 .. m -> Seq(Nat)]
      BY <2>2, <2>10
    <3> HIDE DEF f
    <3> QED
      BY <1>0, <3>1, SeqDef
  <2> QED
    BY <2>1, <2>8, <2>9, <2>11, Zenon DEF m
<1>3. r = 0 \/ r > 0
  BY <1>0
<1> QED
  BY <1>1, <1>2, <1>3

\* What the last flush_batch() adds.
LEMMA EndFacts ==
  ASSUME IInv, EndOfJournal
  PROVE  /\ pc = "read" /\ TypeOK /\ Bounded /\ Sliced /\ Marked
         /\ pc' = "done" /\ UNCHANGED <<size, input, prev_ts, rows>> /\ TypeOK'
         /\ Len(batch') = 0
         /\ \/ chunks' = chunks /\ Len(batch) = 0 /\ gap_in_batch = FALSE
            \/ /\ Len(chunks') = Len(chunks) + 1
               /\ chunks'[Len(chunks) + 1].events = batch
               /\ chunks'[Len(chunks) + 1].marker = gap_in_batch
               /\ \A k \in 1 .. Len(chunks) : chunks'[k] = chunks[k]
               /\ Len(batch) > 0 \/ gap_in_batch = TRUE
<1>1. pc = "read" /\ pc' = "done" /\ UNCHANGED <<size, input, prev_ts, rows>>
  BY DEF EndOfJournal
<1>2. TypeOK /\ Bounded /\ Sliced /\ Marked
  BY <1>1 DEF IInv
<1>3. (batch = <<>> <=> Len(batch) = 0) /\ Len(batch) \in Nat
  BY <1>2, EmptySeq DEF TypeOK
<1>4. CASE NothingToFlush /\ UNCHANGED <<batch, gap_in_batch, chunks>>
  <2>1. chunks' = chunks /\ batch' = batch /\ gap_in_batch' = gap_in_batch
    BY <1>4
  <2>2. Len(batch) = 0 /\ gap_in_batch = FALSE
    BY <1>2, <1>3, <1>4 DEF NothingToFlush, TypeOK
  <2>3. TypeOK'
    BY <1>1, <1>2, <2>1 DEF TypeOK
  <2> QED
    BY <1>1, <1>2, <2>1, <2>2, <2>3
<1>5. CASE ~NothingToFlush /\ Flush(batch, gap_in_batch)
  <2> DEFINE new == Chunk(batch, gap_in_batch)
  <2>1. chunks' = Append(chunks, new) /\ batch' = <<>> /\ gap_in_batch' = FALSE
    BY <1>5 DEF Flush
  <2>2. /\ new.events = batch /\ new.marker = gap_in_batch
        /\ new \in [events : Seq(Nat), marker : BOOLEAN]
    BY <1>2, Zenon DEF Chunk, TypeOK
  <2> HIDE DEF new
  <2>3. /\ Len(chunks') = Len(chunks) + 1 /\ chunks'[Len(chunks) + 1] = new
        /\ \A k \in 1 .. Len(chunks) : chunks'[k] = chunks[k]
        /\ chunks' \in Seq([events : Seq(Nat), marker : BOOLEAN])
    BY <1>2, <2>1, <2>2, AppendProperties DEF TypeOK
  <2>4. Len(batch) > 0 \/ gap_in_batch = TRUE
    <3>1. batch # <<>> \/ gap_in_batch = TRUE
      BY <1>2, <1>5, Zenon DEF NothingToFlush, TypeOK
    <3> QED
      BY <1>3, <3>1
  <2>5. Len(batch') = 0 /\ batch' \in Seq(Nat)
    BY <2>1
  <2>6. gap_in_batch' \in BOOLEAN
    BY <2>1
  <2>7. TypeOK'
    BY <1>1, <1>2, <2>3, <2>5, <2>6 DEF TypeOK
  <2>8. chunks'[Len(chunks) + 1].events = batch /\ chunks'[Len(chunks) + 1].marker = gap_in_batch
    BY <2>2, <2>3, Zenon
  <2> QED
    BY <1>1, <1>2, <2>3, <2>4, <2>5, <2>7, <2>8
<1> QED
  BY <1>4, <1>5 DEF EndOfJournal

\* The fields of the documents written.
LEMMA ChunkFields ==
  ASSUME NEW cs \in Seq([events : Seq(Nat), marker : BOOLEAN]), NEW k \in 1 .. Len(cs)
  PROVE  cs[k].events \in Seq(Nat) /\ cs[k].marker \in BOOLEAN
<1>1. cs[k] \in [events : Seq(Nat), marker : BOOLEAN]
  BY ElementOfSeq
<1> QED
  BY <1>1, Zenon

\* The chunks written are the slices of the in-memory export.
LEMMA EndSliced ==
  ASSUME IInv, EndOfJournal
  PROVE  ChunksAreSlices' /\ Bounded'
<1> DEFINE c == Len(chunks)
           b == Len(batch)
           e == Events(input)
           sl == Slices(input, size)
           W == [k \in DOMAIN chunks' |-> chunks'[k].events]
<1>0. /\ TypeOK /\ Bounded /\ Sliced /\ TypeOK' /\ pc' = "done"
      /\ size' = size /\ input' = input /\ rows' = rows /\ Len(batch') = 0
  BY EndFacts
<1>1. /\ c \in Nat /\ b \in Nat /\ size \in Nat \ {0} /\ rows \in Nat /\ b < size
      /\ input \in Seq(Line) /\ batch \in Seq(Nat)
  BY <1>0 DEF TypeOK, Bounded
<1>2. /\ rows = Len(e) /\ rows = c * size + b /\ c * size \in Nat
      /\ e \in Seq(Nat)
  BY <1>0, <1>1, Multiples, EventsPlaces DEF Sliced, Flushed
<1>3. \A k \in 1 .. c : chunks[k].events \in Seq(Nat) /\ Len(chunks[k].events) = size
  BY <1>0, ChunkFields DEF TypeOK, Sliced
<1>4. \A k \in 1 .. c : chunks[k].events = SubSeq(e, (k - 1) * size + 1, k * size)
  <2> SUFFICES ASSUME NEW k \in 1 .. c
               PROVE  chunks[k].events = SubSeq(e, (k - 1) * size + 1, k * size)
    OBVIOUS
  <2> DEFINE lo == (k - 1) * size
             hi == k * size
             t == chunks[k].events
  <2>1. k - 1 \in Nat /\ k \in Nat /\ k <= c /\ k - 1 <= k /\ (k - 1) + 1 = k
    BY <1>1
  <2>2. lo \in Nat /\ ((k - 1) + 1) * size = lo + size
    BY <1>1, <2>1, Multiples
  <2>3. hi \in Nat /\ hi <= c * size
    BY <1>1, <2>1, Multiples
  <2>4. hi = lo + size
    BY <2>1, <2>2
  <2>5. t \in Seq(Nat) /\ Len(t) = size /\ \A j \in 1 .. size : t[j] = e[lo + j]
    BY <1>0, <1>3 DEF Sliced
  <2> HIDE DEF lo, hi, t, e
  <2>6. lo <= hi /\ hi <= Len(e) /\ Len(t) = hi - lo
    BY <1>1, <1>2, <2>2, <2>3, <2>4, <2>5
  <2>7. \A j \in 1 .. Len(t) : t[j] = e[lo + j]
    BY <2>5
  <2>8. t = SubSeq(e, lo + 1, hi)
    BY <1>2, <2>2, <2>3, <2>5, <2>6, <2>7, SliceIs
  <2> QED
    BY <2>8 DEF lo, hi, t
<1>5. batch = SubSeq(e, c * size + 1, c * size + b)
  <2> DEFINE lo == c * size
             hi == c * size + b
  <2>1. \A j \in 1 .. Len(batch) : batch[j] = e[lo + j]
    BY <1>0 DEF Sliced, Flushed
  <2>2. lo \in Nat /\ hi \in Nat /\ lo <= hi /\ hi <= Len(e) /\ Len(batch) = hi - lo
    BY <1>1, <1>2
  <2> HIDE DEF lo, hi, e
  <2>3. batch = SubSeq(e, lo + 1, hi)
    BY <1>1, <1>2, <2>1, <2>2, SliceIs
  <2> QED
    BY <2>3 DEF lo, hi
<1>6. /\ sl \in Seq(Seq(Nat)) /\ Len(sl) = IF b > 0 THEN c + 1 ELSE c
      /\ \A k \in 1 .. c : sl[k] = SubSeq(e, (k - 1) * size + 1, k * size)
      /\ b > 0 => sl[c + 1] = SubSeq(e, c * size + 1, c * size + b)
  <2>1. Len(Events(input)) = c * size + b
    BY <1>2
  <2> HIDE DEF c, b
  <2> QED
    BY <1>1, <2>1, SlicesAre, Zenon
<1>7. \A k \in 1 .. c : sl[k] = chunks[k].events
  BY <1>4, <1>6, Zenon
<1>8. b > 0 => sl[c + 1] = batch
  BY <1>5, <1>6, Zenon
<1> HIDE DEF sl, e
<1>9. DOMAIN chunks' = 1 .. Len(chunks') /\ Len(chunks') \in Nat
  BY <1>0 DEF TypeOK
<1>10. Bounded' /\ (W = sl \/ W = Append(sl, <<>>))
  <2>0. /\ W \in Seq(Seq(Nat)) /\ Len(W) = Len(chunks')
        /\ \A k \in 1 .. Len(chunks') : W[k] = chunks'[k].events
    <3>1. \A k \in 1 .. Len(chunks') : chunks'[k].events \in Seq(Nat)
      BY <1>0, ChunkFields DEF TypeOK
    <3>2. W \in [1 .. Len(chunks') -> Seq(Nat)] /\ \A k \in 1 .. Len(chunks') : W[k] = chunks'[k].events
      BY <1>9, <3>1
    <3> HIDE DEF W
    <3> QED
      BY <1>9, <3>2, SeqDef
  <2> HIDE DEF W
  <2>1. CASE chunks' = chunks /\ b = 0
    <3>1. Len(W) = Len(sl) /\ \A k \in 1 .. Len(W) : W[k] = sl[k]
      BY <1>1, <1>6, <1>7, <2>0, <2>1
    <3>2. W = sl
      BY <1>6, <2>0, <3>1, SeqEqual
    <3>3. Bounded'
      BY <1>0, <1>1, <2>1 DEF Bounded
    <3> QED
      BY <3>2, <3>3
  <2>2. CASE /\ Len(chunks') = c + 1 /\ chunks'[c + 1].events = batch
             /\ \A k \in 1 .. c : chunks'[k] = chunks[k]
    <3>0. \A k \in 1 .. c + 1 : k \in 1 .. c \/ k = c + 1
      BY <1>1
    <3>1. /\ Len(W) = c + 1 /\ \A k \in 1 .. c : W[k] = sl[k]
          /\ W[c + 1] = batch
      <4>1. c + 1 \in 1 .. c + 1 /\ \A k \in 1 .. c : k \in 1 .. c + 1
        BY <1>1
      <4> QED
        BY <1>7, <2>0, <2>2, <4>1, Zenon
    <3>2. ASSUME b > 0 PROVE W = sl
      <4>1. Len(W) = Len(sl) /\ \A k \in 1 .. Len(W) : W[k] = sl[k]
        BY <1>6, <1>8, <3>0, <3>1, <3>2
      <4> QED
        BY <1>6, <2>0, <4>1, SeqEqual
    <3>3. ASSUME b = 0 PROVE W = Append(sl, <<>>)
      <4>1. Len(sl) = c /\ batch = <<>> /\ <<>> \in Seq(Nat)
        BY <1>1, <1>6, <3>3, EmptySeq
      <4> DEFINE u == Append(sl, <<>>)
      <4>2. /\ u \in Seq(Seq(Nat)) /\ Len(u) = c + 1 /\ u[c + 1] = <<>>
            /\ \A k \in 1 .. c : u[k] = sl[k]
        BY <1>6, <4>1, AppendProperties
      <4> HIDE DEF u
      <4>3. Len(W) = Len(u) /\ \A k \in 1 .. Len(W) : W[k] = u[k]
        BY <3>0, <3>1, <4>1, <4>2, Zenon
      <4>4. W = u
        BY <2>0, <4>2, <4>3, SeqEqual
      <4> QED
        BY <4>4 DEF u
    <3>4. Bounded'
      <4>1. Len(batch') < size'
        BY <1>0, <1>1
      <4>2. \A k \in 1 .. c : Len(chunks'[k].events) <= size'
        BY <1>0, <1>1, <1>3, <2>2
      <4>3. Len(chunks'[c + 1].events) <= size'
        BY <1>0, <1>1, <2>2
      <4> QED
        BY <2>2, <3>0, <4>1, <4>2, <4>3, Zenon DEF Bounded
    <3>5. b > 0 \/ b = 0
      BY <1>1
    <3> QED
      BY <3>2, <3>3, <3>4, <3>5
  <2> QED
    BY <2>1, <2>2, EndFacts
<1>11. sl = IF rows' = 0 THEN <<>> ELSE build_chunked(input', size')
  BY <1>0, <1>2, Zenon DEF sl, Slices, e
<1>12. Len(batch') < size' /\ \A k \in DOMAIN chunks' : Len(W[k]) <= size'
  BY <1>9, <1>10 DEF Bounded
<1> HIDE DEF W
<1>13. rows' = Len(Events(input'))
  BY <1>0, <1>2 DEF e
<1> QED
  BY <1>10, <1>11, <1>12, <1>13, Zenon DEF ChunksAreSlices, W

\* The chunks marked are those that were being filled.
LEMMA EndMarked ==
  ASSUME IInv, EndOfJournal
  PROVE  MarkersWhereTheyBelong'
<1> DEFINE c == Len(chunks)
           U(i) == Unsafe(input, i)
           F(i) == Fills(input, size, i)
<1>0. /\ TypeOK /\ Marked /\ TypeOK' /\ size' = size /\ input' = input
      /\ c \in Nat /\ Len(input) \in Nat /\ DOMAIN input = 1 .. Len(input)
      /\ DOMAIN chunks' = 1 .. Len(chunks')
  BY EndFacts DEF TypeOK
<1>1. /\ \A i \in 1 .. Len(input) : U(i) => F(i) \in 1 .. c + 1
      /\ \A k \in 1 .. c :
           chunks[k].marker = TRUE <=> \E i \in 1 .. Len(input) : U(i) /\ F(i) = k
      /\ gap_in_batch = TRUE <=> \E i \in 1 .. Len(input) : U(i) /\ F(i) = c + 1
  BY <1>0, Zenon DEF Marked
<1>2. \A k : k \in 1 .. c + 1 <=> k \in 1 .. c \/ k = c + 1
  BY <1>0
<1> HIDE DEF c, U, F
<1>3. \A k : (k \in 1 .. Len(chunks') /\ chunks'[k].marker = TRUE) <=>
               \E i \in 1 .. Len(input) : U(i) /\ F(i) = k
  <2>1. CASE chunks' = chunks /\ gap_in_batch = FALSE
    <3>1. Len(chunks') = c
      BY <2>1 DEF c
    <3>2. ~\E i \in 1 .. Len(input) : U(i) /\ F(i) = c + 1
      BY <1>1, <2>1, Zenon
    <3> QED
      BY <1>1, <1>2, <2>1, <3>1, <3>2, Zenon
  <2>2. CASE /\ Len(chunks') = c + 1 /\ chunks'[c + 1].marker = gap_in_batch
             /\ \A k \in 1 .. c : chunks'[k] = chunks[k]
    BY <1>1, <1>2, <2>2, Zenon
  <2> QED
    BY <2>1, <2>2, EndFacts DEF c
<1>4. \A k \in 1 .. Len(chunks') : chunks'[k].marker \in BOOLEAN
  BY <1>0, ChunkFields DEF TypeOK
<1>5. {k \in 1 .. Len(chunks') : chunks'[k].marker} =
        {F(i) : i \in {j \in 1 .. Len(input) : U(j)}}
  BY <1>3, <1>4, Zenon
<1> QED
  BY <1>0, <1>5, Zenon DEF MarkersWhereTheyBelong, U, F, Fills

\* The whole invariant.
LEMMA Invariance == Spec => []IInv
<1>1. IInv /\ [Next]_vars => IInv'
  <2> SUFFICES ASSUME IInv, [Next]_vars PROVE IInv'
    OBVIOUS
  <2>1. ASSUME NEW l \in Line, ReadLine(l) PROVE IInv'
    <3>1. pc' = "read" /\ TypeOK'
      BY <2>1, ReadFacts, ReadCases
    <3>2. Bounded' /\ Sliced' /\ Previous' /\ Marked'
      BY <2>1, SlicedStep, MarkedStep
    <3> QED
      BY <3>1, <3>2 DEF IInv
  <2>2. CASE EndOfJournal
    <3>1. pc' = "done" /\ TypeOK'
      BY <2>2, EndFacts
    <3> QED
      BY <2>2, <3>1, EndSliced, EndMarked DEF IInv
  <2>3. CASE UNCHANGED vars
    <3>1. /\ size' = size /\ input' = input /\ batch' = batch /\ gap_in_batch' = gap_in_batch
          /\ prev_ts' = prev_ts /\ chunks' = chunks /\ rows' = rows /\ pc' = pc
      BY <2>3 DEF vars
    <3>2. (TypeOK => TypeOK') /\ (Bounded => Bounded')
      BY <3>1 DEF TypeOK, Bounded
    <3>3. (Sliced => Sliced') /\ (Previous => Previous')
      BY <3>1, Zenon DEF Sliced, Previous, Flushed
    <3>4. Marked => Marked'
      BY <3>1, Zenon DEF Marked
    <3>5. ChunksAreSlices => ChunksAreSlices'
      BY <3>1, Zenon DEF ChunksAreSlices
    <3>6. MarkersWhereTheyBelong => MarkersWhereTheyBelong'
      BY <3>1, Zenon DEF MarkersWhereTheyBelong
    <3> QED
      BY <3>1, <3>2, <3>3, <3>4, <3>5, <3>6 DEF IInv
  <2> QED
    BY <2>1, <2>2, <2>3 DEF Next, Done
<1> QED
  BY InitIInv, <1>1, PTL DEF Spec
-----------------------------------------------------------------------------
(* Theorems *)

\* Whatever the journal and the chunk size, stream_timeline_chunked() writes
\* the slices that build_chunked() makes and never holds a whole chunk between
\* two lines.
THEOREM TimelineChunksAreSlices == Spec => []ChunksAreSlices
<1>1. IInv => ChunksAreSlices
  <2> SUFFICES ASSUME IInv, pc # "done" PROVE ChunksAreSlices
    BY DEF IInv
  <2>1. /\ Len(batch) < size /\ DOMAIN chunks = 1 .. Len(chunks)
        /\ \A k \in 1 .. Len(chunks) : Len(chunks[k].events) <= size
    BY DEF IInv, TypeOK, Bounded
  <2> QED
    BY <2>1 DEF ChunksAreSlices
<1> QED
  BY Invariance, <1>1, PTL

\* Each unparseable line and each jump in time marks the chunk that was being
\* filled, and no other chunk is marked.
THEOREM TimelineMarkersWhereTheyBelong == Spec => []MarkersWhereTheyBelong
<1>1. IInv => MarkersWhereTheyBelong
  BY DEF IInv, MarkersWhereTheyBelong
<1> QED
  BY Invariance, <1>1, PTL

\* The streamed export is marked when replay_from_journal() is, and two windows
\* of replay_from_journal_windowed() that meet share the events among them.
THEOREM TimelineWindowsPartition == Spec => []WindowsPartition
<1>1. IInv => WindowsPartition
  <2> SUFFICES ASSUME IInv, pc = "done", NEW m \in Cuts
               PROVE  LET whole == replay_from_journal(input)
                          left  == replay_from_journal_windowed(input, <<0, m>>)
                          right == replay_from_journal_windowed(input, <<m + 1, 0>>)
                          Lines(d) == {d.events[k] : k \in DOMAIN d.events}
                      IN  /\ Len(left.events) + Len(right.events) = Len(whole.events)
                          /\ Lines(left) \cup Lines(right) = Lines(whole)
                          /\ left.marker = whole.marker /\ right.marker = whole.marker
                          /\ whole.marker = (\E k \in DOMAIN chunks : chunks[k].marker)
    BY DEF WindowsPartition
  <2> DEFINE In(w) == {i \in EventLines(input) : Contains(w, input[i].ts \div NsPerUs)}
             bad == \E i \in DOMAIN input : Unsafe(input, i)
             E == EventLines(input)
             L == In(<<0, m>>)
             R == In(<<m + 1, 0>>)
             Lines(d) == {d.events[k] : k \in DOMAIN d.events}
  <2>0. input \in Seq(Line) /\ DOMAIN input = 1 .. Len(input) /\ MarkersWhereTheyBelong
    BY DEF IInv, TypeOK
  <2>1. E \in SUBSET Nat /\ IsFiniteSet(E)
    BY <2>0, EventLinesType
  <2>2. L \cup R = E /\ L \cap R = {}
    <3>1. ASSUME NEW i \in E
          PROVE  Contains(<<0, m>>, input[i].ts \div NsPerUs)
                   <=> ~Contains(<<m + 1, 0>>, input[i].ts \div NsPerUs)
      <4>1. input[i].ts \in Nat
        BY <2>0, LineFields DEF EventLines
      <4>2. input[i].ts \div NsPerUs \in Nat
        BY <4>1, TimelineAssumption
      <4>3. m \in Nat \ {0}
        BY TimelineAssumption
      <4> QED
        BY <4>2, <4>3 DEF Contains
    <3> QED
      BY <3>1, Zenon
  <2>3. L \in SUBSET E /\ R \in SUBSET E
    OBVIOUS
  <2>4. /\ replay_from_journal(input) = Chunk(InOrder(E), bad)
        /\ replay_from_journal_windowed(input, <<0, m>>) = Chunk(InOrder(L), bad)
        /\ replay_from_journal_windowed(input, <<m + 1, 0>>) = Chunk(InOrder(R), bad)
    BY Zenon DEF replay_from_journal, replay_from_journal_windowed, Events
  <2>5. bad = (\E k \in DOMAIN chunks : chunks[k].marker)
    BY <2>0, Zenon DEF MarkersWhereTheyBelong
  <2> HIDE DEF In, bad, E, L, R
  <2>6. IsFiniteSet(L) /\ IsFiniteSet(R) /\ L \in SUBSET Nat /\ R \in SUBSET Nat
    BY <2>1, <2>3, FS_Subset
  <2>7. Cardinality(E) = Cardinality(L) + Cardinality(R)
    <3>1. Cardinality(L \cup R) = Cardinality(L) + Cardinality(R) - Cardinality(L \cap R)
      BY <2>6, FS_Union
    <3>2. Cardinality(L) \in Nat /\ Cardinality(R) \in Nat /\ Cardinality({}) = 0
      BY <2>6, FS_CardinalityType, FS_EmptySet
    <3>3. Cardinality(E) = Cardinality(L) + Cardinality(R) - Cardinality({})
      BY <2>2, <3>1, Zenon
    <3> QED
      BY <3>2, <3>3
  <2>8. ASSUME NEW S \in SUBSET Nat, IsFiniteSet(S)
        PROVE  /\ Len(InOrder(S)) = Cardinality(S)
               /\ {InOrder(S)[k] : k \in DOMAIN InOrder(S)} = S
    <3>1. /\ Len(InOrder(S)) = Cardinality(S) /\ DOMAIN InOrder(S) = 1 .. Cardinality(S)
          /\ \A i \in S : Rank(S, i) + 1 \in 1 .. Cardinality(S) /\ InOrder(S)[Rank(S, i) + 1] = i
          /\ \A k \in 1 .. Cardinality(S) : InOrder(S)[k] \in S
      BY <2>8, InOrderPlaces
    <3> QED
      BY <3>1, Zenon
  <2>9. ASSUME NEW x
        PROVE  /\ Chunk(x, bad).events = x /\ Chunk(x, bad).marker = bad
               /\ Lines(Chunk(x, bad)) = {x[k] : k \in DOMAIN x}
    BY DEF Chunk
  <2>10. Len(InOrder(L)) + Len(InOrder(R)) = Len(InOrder(E))
    BY <2>1, <2>6, <2>7, <2>8
  <2>11. Lines(Chunk(InOrder(L), bad)) \cup Lines(Chunk(InOrder(R), bad))
           = Lines(Chunk(InOrder(E), bad))
    <3>0. ASSUME NEW S \in SUBSET Nat, IsFiniteSet(S) PROVE Lines(Chunk(InOrder(S), bad)) = S
      <4>1. {InOrder(S)[k] : k \in DOMAIN InOrder(S)} = S
        BY <2>8, <3>0
      <4>2. Lines(Chunk(InOrder(S), bad)) = {InOrder(S)[k] : k \in DOMAIN InOrder(S)}
        BY <2>9
      <4> HIDE DEF Lines
      <4> QED
        BY <4>1, <4>2, Zenon
    <3>1. /\ Lines(Chunk(InOrder(L), bad)) = L
          /\ Lines(Chunk(InOrder(R), bad)) = R
          /\ Lines(Chunk(InOrder(E), bad)) = E
      <4> HIDE DEF Lines
      <4> QED
        BY <2>1, <2>6, <3>0
    <3> HIDE DEF Lines
    <3> QED
      BY <2>2, <3>1, Zenon
  <2>12. /\ Chunk(InOrder(L), bad).events = InOrder(L) /\ Chunk(InOrder(R), bad).events = InOrder(R)
         /\ Chunk(InOrder(E), bad).events = InOrder(E)
         /\ Chunk(InOrder(L), bad).marker = bad /\ Chunk(InOrder(R), bad).marker = bad
         /\ Chunk(InOrder(E), bad).marker = bad
    BY <2>9
  <2>13. /\ Len(Chunk(InOrder(L), bad).events) + Len(Chunk(InOrder(R), bad).events)
              = Len(Chunk(InOrder(E), bad).events)
         /\ Chunk(InOrder(L), bad).marker = Chunk(InOrder(E), bad).marker
         /\ Chunk(InOrder(R), bad).marker = Chunk(InOrder(E), bad).marker
         /\ Chunk(InOrder(E), bad).marker = (\E k \in DOMAIN chunks : chunks[k].marker)
    BY <2>5, <2>10, <2>12, Zenon
  <2> QED
    BY <2>4, <2>11, <2>13, Zenon
<1> QED
  BY Invariance, <1>1, PTL
=============================================================================
