--------------------------- MODULE MCQueryManager ---------------------------
(***************************************************************************)
(* Small instances of QueryManager for TLC.                                *)
(***************************************************************************)
EXTENDS ContractRefinement, QueryInvariant, TLC

QueryOver(start, end, chunkSize, until, prio) ==
    [start |-> start, end |-> end, chunk |-> chunkSize, splitUntil |-> until,
     priority |-> prio, preview |-> FALSE]

\* One query in two chunks, the first one shorter: [1,2) and [2,4).
TwoChunks == [s \in {"s"} |-> QueryOver(1, 4, 2, 0, 0)]

\* One query of one chunk that splits in two: [0,2) into [0,1) and [1,2).
Splitting == [s \in {"s"} |-> QueryOver(0, 2, 0, 1, 0)]

\* One query of two chunks, [0,2) and [2,3), the first of which splits.
SplittingOfTwo == [s \in {"s"} |-> QueryOver(0, 3, 2, 1, 0)]

\* Two queries of one chunk, s more urgent than t.
TwoQueries ==
    ("s" :> QueryOver(0, 1, 0, 0, 0)) @@ ("t" :> QueryOver(0, 1, 0, 0, 1))

\* One query of one chunk.
OneChunk == [s \in {"s"} |-> QueryOver(0, 1, 0, 0, 0)]

Tries(n) == [w \in Worker |-> n]
Once  == Tries(1)
Twice == Tries(2)
PollOnce == [Twice EXCEPT !["poller"] = 1]

\* A bound: one chunk at most has been restarted, or is between two tries of
\* the same call.
FewRepeats ==
    LET repeats(c) == chunk[c].restart + chunk[c].tmp
    IN  \A c \in Chunk :
            /\ repeats(c) <= 1
            /\ \A d \in Chunk \ {c} : repeats(c) = 0 \/ repeats(d) = 0
=============================================================================
