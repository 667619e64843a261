----------------------------- MODULE MCChunkPlan -----------------------------
(***************************************************************************)
(* All queries over a few milliseconds, aligned to their chunk size or not.*)
(***************************************************************************)
EXTENDS ChunkPlan

QueriesUpTo(n) ==
    {query \in [start : 0 .. n, end : 0 .. n, chunk : 0 .. n,
                splitUntil : 0 .. n, priority : {0}, preview : {FALSE}] :
        query.start < query.end}

\* Queries of at most 8 milliseconds, whatever their alignment.
ShortQueries == QueriesUpTo(8)

\* Long enough that a quarter of a chunk is not a whole millisecond.
LongQueries ==
    {[start |-> 3, end |-> 3 + n, chunk |-> 0, splitUntil |-> u,
      priority |-> 0, preview |-> FALSE] : n \in 1 .. 11, u \in 1 .. 3}

ShortAndLong == ShortQueries \cup LongQueries
=============================================================================
