------------------------------- MODULE Ranges -------------------------------
(***************************************************************************)
(* Time ranges: how Query (mgr.go) counts the chunks of a query, how       *)
(* nextChunkRange (stream.go) cuts generation-0 chunks, and how splitChunk *)
(* (mgr.go) and split (chunk.go) cut a chunk that hit the result limit.    *)
(*                                                                         *)
(* Times and durations are whole milliseconds, which Query enforces with   *)
(* hasSubMillisecond; a query is a record with the QuerySpec fields the    *)
(* arithmetic reads.  A range includes start and excludes end.             *)
(***************************************************************************)
EXTENDS Integers, Sequences

\* The fields of a QuerySpec, and the ranges Query accepts.
QuerySpec ==
    [start : Nat, end : Nat, chunk : Int, splitUntil : Int,
     priority : Int, preview : BOOLEAN]

ValidQuery == {q \in QuerySpec : q.start < q.end}

\* Number of child chunks a chunk is cut into when it is long enough.
splitBits == 4

Earlier(a, b) == IF a < b THEN a ELSE b
Later(a, b)   == IF a < b THEN b ELSE a

\* time.Time.Truncate and its rounded-up counterpart.
Truncate(t, d) == t - (t % d)
RoundUp(t, d)  == Truncate(t + d - 1, d)

Duration(r) == r.end - r.start

\* The Chunk and SplitUntil a query runs with, after Query applied defaults.
ChunkSize(q) ==
    IF q.chunk <= 0 \/ q.chunk > Duration(q) THEN Duration(q) ELSE q.chunk

SplitUntil(q) == IF q.splitUntil <= 0 THEN ChunkSize(q) ELSE q.splitUntil

\* Faulty variant of NumRoots: forgets that aligned chunks may straddle both
\* ends of the query.
NumRootsUnaligned(q) == (Duration(q) + ChunkSize(q) - 1) \div ChunkSize(q)

\* n0, the number of generation-0 chunks.
NumRoots(q) ==
    IF ChunkSize(q) = Duration(q)
    THEN 1
    ELSE (RoundUp(q.end, ChunkSize(q)) - Truncate(q.start, ChunkSize(q)))
             \div ChunkSize(q)

\* Faulty variants of NextChunkRange: the start is not clipped, and the end
\* is not aligned.
NextChunkRangeUnclipped(q, i) ==
    LET e == Truncate(q.start + (1 + i) * ChunkSize(q), ChunkSize(q))
    IN  [start |-> e - ChunkSize(q), end |-> Earlier(e, q.end)]

NextChunkRangeUnaligned(q, i) ==
    LET e == q.start + (1 + i) * ChunkSize(q)
    IN  [start |-> e - ChunkSize(q), end |-> Earlier(e, q.end)]

\* The range of generation-0 chunk number i, counted from 0: its end is
\* aligned to a multiple of the chunk size, both ends clipped to the query.
NextChunkRange(q, i) ==
    LET d == ChunkSize(q)
        e == Truncate(q.start + (1 + i) * d, d)
    IN  IF NumRoots(q) = 1 /\ d = Duration(q)
        THEN [start |-> q.start, end |-> q.end]
        ELSE [start |-> Later(e - d, q.start), end |-> Earlier(e, q.end)]

\* Faulty variant of Frac: rounds the quarter down.
FracRoundedDown(r, until) ==
    IF Duration(r) < splitBits * until THEN until
                                       ELSE Duration(r) \div splitBits

\* The length of the sub-chunks of a range: a quarter rounded up to a whole
\* millisecond, but never below SplitUntil.
Frac(r, until) ==
    IF Duration(r) < splitBits * until
    THEN until
    ELSE (Duration(r) + splitBits - 1) \div splitBits

\* Faulty variant of SubRange: takes the end of a range to be inclusive.
SubRangeInclusive(r, t, frac) ==
    [start |-> t, end |-> Earlier(t + frac + 1, r.end)]

\* The sub-chunk that starts at t, and all sub-chunks of a range in order.
SubRange(r, t, frac) == [start |-> t, end |-> Earlier(t + frac, r.end)]

NumSubRanges(r, frac) == (Duration(r) + frac - 1) \div frac

SplitRange(r, until) ==
    LET frac == Frac(r, until)
    IN  [k \in 1 .. NumSubRanges(r, frac) |->
            SubRange(r, r.start + (k - 1) * frac, frac)]

\* Faulty variant of Splittable: splits a range as short as SplitUntil.
SplittableAtLimit(q, r) == ~q.preview /\ Duration(r) >= SplitUntil(q)

\* poller.splittable, for a range that came back with the maximum number of
\* results: previews are never split, nor ranges as short as SplitUntil.
Splittable(q, r) == ~q.preview /\ Duration(r) > SplitUntil(q)
=============================================================================
