------------------------------- MODULE Timeline -------------------------------
(***************************************************************************)
(* The journal-to-timeline exporter (src/viz/chrome_trace.cpp): the        *)
(* streaming export stream_timeline_chunked(), a state machine that reads  *)
(* the journal line by line, and the in-memory exports it must agree with  *)
(* (replay_from_journal, its windowed form, and build_chunked) as          *)
(* operators on the whole journal.                                         *)
(*                                                                         *)
(* A line is blank, does not parse ("bad"), parses to something that is    *)
(* not an event row ("foreign"), or is an event with a timestamp.  Each    *)
(* event becomes one trace event, here the number of its line.             *)
(***************************************************************************)
EXTENDS Naturals, Sequences, FiniteSets

CONSTANTS Times,         \* timestamps (ns)
          GapNs,         \* the 100 ms after which a pause is a gap
          NsPerUs,       \* 1000: windows are in microseconds
          ChunkSizes,    \* values of the parameter chunk_size
          DefaultChunk,  \* the size used for chunk_size = 0
          Cuts,          \* the microseconds at which windows are cut
          MaxLines       \* bound on the length of the journal

ASSUME TimelineAssumption ==
  /\ Times \subseteq Nat /\ ChunkSizes \subseteq Nat
  /\ Cuts \subseteq Nat \ {0}
  /\ GapNs \in Nat /\ NsPerUs \in Nat \ {0}
  /\ DefaultChunk \in Nat \ {0} /\ MaxLines \in Nat

Line == [kind : {"blank", "bad", "foreign"}] \cup [kind : {"event"}, ts : Times]

VARIABLES
  size,          \* chunk_size after the default is applied
  input,         \* the lines read so far
  batch,         \* batch: events not yet written
  gap_in_batch,
  prev_ts,       \* prev_ts_ns
  chunks,        \* the documents written to `out'
  rows,          \* rows_parsed
  pc

vars == <<size, input, batch, gap_in_batch, prev_ts, chunks, rows, pc>>

EffectiveSize(chunk_size) == IF chunk_size = 0 THEN DefaultChunk ELSE chunk_size

Init ==
  /\ \E chunk_size \in ChunkSizes : size = EffectiveSize(chunk_size)
  /\ input = <<>> /\ batch = <<>> /\ gap_in_batch = FALSE /\ prev_ts = 0
  /\ chunks = <<>> /\ rows = 0 /\ pc = "read"
-----------------------------------------------------------------------------
\* A forward jump; a previous timestamp of 0 counts as "no previous event".
Gap(prev, ts) == prev > 0 /\ ts > prev + GapNs

\* The document for a batch.
Chunk(events, marker) == [events |-> events, marker |-> marker]

\* Blank lines and rows that are no events leave no trace.
SkipLine(l) ==
  /\ l.kind \in {"blank", "foreign"}
  /\ UNCHANGED <<batch, gap_in_batch, prev_ts, chunks, rows>>

BadLine(l) ==
  /\ l.kind = "bad"
  /\ gap_in_batch' = TRUE
  /\ UNCHANGED <<batch, prev_ts, chunks, rows>>

\* Mutant of BatchFull: one event too many is collected.
BatchOverfull(b) == Len(b) > size

BatchFull(b) == Len(b) >= size

\* Mutant of Flush: the marker of one chunk is repeated in the next ones.
FlushKeepsGap(events, gap) ==
  /\ chunks' = Append(chunks, Chunk(events, gap))
  /\ batch' = <<>> /\ gap_in_batch' = gap

\* flush_batch() when there is something to write.
Flush(events, gap) ==
  /\ chunks' = Append(chunks, Chunk(events, gap))
  /\ batch' = <<>> /\ gap_in_batch' = FALSE

EventLine(l) ==
  /\ l.kind = "event"
  /\ LET more == Append(batch, Len(input) + 1)
         gap  == gap_in_batch \/ Gap(prev_ts, l.ts)
     IN  \/ /\ BatchFull(more)
            /\ Flush(more, gap)
         \/ /\ ~BatchFull(more)
            /\ batch' = more /\ gap_in_batch' = gap
            /\ UNCHANGED chunks
  /\ prev_ts' = l.ts
  /\ rows' = rows + 1

ReadLine(l) ==
  /\ pc = "read" /\ Len(input) < MaxLines
  /\ input' = Append(input, l)
  /\ SkipLine(l) \/ BadLine(l) \/ EventLine(l)
  /\ UNCHANGED <<size, pc>>

\* The early return of flush_batch().
NothingToFlush == batch = <<>> /\ ~gap_in_batch

\* getline() fails: the last flush_batch().
EndOfJournal ==
  /\ pc = "read"
  /\ \/ NothingToFlush /\ UNCHANGED <<batch, gap_in_batch, chunks>>
     \/ ~NothingToFlush /\ Flush(batch, gap_in_batch)
  /\ pc' = "done"
  /\ UNCHANGED <<size, input, prev_ts, rows>>

Done == pc = "done" /\ UNCHANGED vars

Next == (\E l \in Line : ReadLine(l)) \/ EndOfJournal \/ Done

Spec == Init /\ [][Next]_vars
-----------------------------------------------------------------------------
(* The in-memory exports.                                                  *)

EventLines(in) == {i \in DOMAIN in : in[i].kind = "event"}

\* How many events precede line i.
Before(in, i) == Cardinality({j \in EventLines(in) : j < i})

\* Lines are exported in the order of the journal.
InOrder(lines) ==
  [k \in 1 .. Cardinality(lines) |->
     CHOOSE i \in lines : Cardinality({j \in lines : j < i}) = k - 1]

\* The events of the journal.
Events(in) == InOrder(EventLines(in))

\* Does line i set gap_detected?
Unsafe(in, i) ==
  \/ in[i].kind = "bad"
  \/ /\ in[i].kind = "event"
     /\ Before(in, i) > 0
     /\ Gap(in[Events(in)[Before(in, i)]].ts, in[i].ts)

\* replay_from_journal(): all events, and the marker at the end.
replay_from_journal(in) ==
  Chunk(Events(in), \E i \in DOMAIN in : Unsafe(in, i))

\* Mutant of Contains: the end of the window is excluded.
ContainsOpenEnd(w, us) == us >= w[1] /\ (w[2] > 0 => us < w[2])

\* TimeWindow::contains(); an end of 0 means unbounded.
Contains(w, us) == us >= w[1] /\ (w[2] > 0 => us <= w[2])

\* replay_from_journal_windowed(): the gap test sees every event, the export
\* only those in the window.
replay_from_journal_windowed(in, w) ==
  Chunk(InOrder({i \in EventLines(in) : Contains(w, in[i].ts \div NsPerUs)}),
        \E i \in DOMAIN in : Unsafe(in, i))

\* build_chunked(): slices of n events; one empty chunk when there is none.
build_chunked(in, n) ==
  LET all    == Events(in)
      count  == (Len(all) + n - 1) \div n
      End(k) == IF k * n < Len(all) THEN k * n ELSE Len(all)
  IN  IF all = <<>> THEN <<<<>>>>
      ELSE [k \in 1 .. count |-> SubSeq(all, (k - 1) * n + 1, End(k))]
-----------------------------------------------------------------------------
(* Properties                                                              *)

\* Streaming neither loses, repeats nor reorders an event at a chunk boundary:
\* its chunks are the slices that build_chunked() makes of the same journal
\* (up to a last chunk that holds nothing but a marker), and it counts as many
\* rows as the in-memory replay exports.  On the way it "holds at most
\* chunk_size events at a time": fewer whenever the next line is read.
ChunksAreSlices ==
  LET written == [k \in DOMAIN chunks |-> chunks[k].events]
      slices  == IF rows = 0 THEN <<>> ELSE build_chunked(input, size)
  IN  /\ Len(batch) < size
      /\ \A k \in DOMAIN chunks : Len(written[k]) <= size
      /\ pc = "done" =>
            /\ rows = Len(Events(input))
            /\ written = slices \/ written = Append(slices, <<>>)

\* "Lost/gapped streams render as explicit unsafe markers": each unparseable
\* line and each jump in time marks the chunk that was being filled when it was
\* read, that chunk is written, and no other chunk is marked.
MarkersWhereTheyBelong ==
  LET Filling(i) == Before(input, i) \div size + 1
      marked     == {Filling(i) : i \in {j \in DOMAIN input : Unsafe(input, j)}}
  IN  pc = "done" => {k \in DOMAIN chunks : chunks[k].marker} = marked

\* The streamed timeline is unsafe exactly when the in-memory one is, and
\* cutting a timeline in two windows at a microsecond m > 0 shows every event
\* in exactly one of them, with the marker in both.
WindowsPartition ==
  pc = "done" =>
    \A m \in Cuts :
      LET whole == replay_from_journal(input)
          left  == replay_from_journal_windowed(input, <<0, m>>)
          right == replay_from_journal_windowed(input, <<m + 1, 0>>)
          Lines(d) == {d.events[k] : k \in DOMAIN d.events}
      IN  /\ Len(left.events) + Len(right.events) = Len(whole.events)
          /\ Lines(left) \cup Lines(right) = Lines(whole)
          /\ left.marker = whole.marker /\ right.marker = whole.marker
          /\ whole.marker = (\E k \in DOMAIN chunks : chunks[k].marker)
=============================================================================
