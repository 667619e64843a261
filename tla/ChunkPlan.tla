------------------------------ MODULE ChunkPlan ------------------------------
(***************************************************************************)
(* How one query's time range is cut: generation-0 chunks are made one     *)
(* after the other (getReadyChunk, mgr.go), and any chunk that comes back  *)
(* with the maximum number of results may be split (splitChunk, mgr.go).   *)
(* The chunks that are not split are the ranges the program gets results   *)
(* for.                                                                    *)
(***************************************************************************)
EXTENDS Ranges, FiniteSets

CONSTANT Queries   \* the queries to plan for

ASSUME QueriesAssumption == Queries \subseteq ValidQuery

VARIABLES
    q,      \* the query
    next,   \* stream.next
    leaves  \* the ranges of the chunks made and not split

vars == <<q, next, leaves>>

Init ==
    /\ q \in Queries
    /\ next = 0
    /\ leaves = {}

MakeRoot ==
    /\ next < NumRoots(q)
    /\ leaves' = leaves \cup {NextChunkRange(q, next)}
    /\ next' = next + 1
    /\ UNCHANGED q

SplitsInto(r) ==
    LET rs == SplitRange(r, SplitUntil(q)) IN {rs[k] : k \in DOMAIN rs}

SplitLeaf(r) ==
    /\ Splittable(q, r)
    /\ leaves' = (leaves \ {r}) \cup SplitsInto(r)
    /\ UNCHANGED <<q, next>>

Finished == next = NumRoots(q) /\ \A r \in leaves : ~Splittable(q, r)

Next ==
    \/ MakeRoot
    \/ \E r \in leaves : SplitLeaf(r)
    \/ Finished /\ UNCHANGED vars

\* The worst case: every range that can be split is split in the end.
Spec == Init /\ [][Next]_vars /\ WF_vars(Next)

TimesOf(r) == r.start .. r.end - 1

\* No range is empty, none reaches outside the query, and no two overlap, so
\* no result is delivered twice.
LeavesDisjoint ==
    /\ \A r \in leaves :
          r.start < r.end /\ q.start <= r.start /\ r.end <= q.end
    /\ \A r, u \in leaves :
          r # u => r.end <= u.start \/ u.end <= r.start

\* The count n0 that Query computes, and that decides when the stream reaches
\* EOF, is exactly the number of generation-0 chunks the range takes: once
\* they are made, the ranges cover the query, and not before.
CoversAfterLastRoot ==
    UNION {TimesOf(r) : r \in leaves} = TimesOf(q) <=> next = NumRoots(q)

\* All chunks but the first and the last start and end on a multiple of the
\* chunk size (stream.go:109-121).
RootsAligned ==
    \A i \in 0 .. NumRoots(q) - 1 :
        LET r == NextChunkRange(q, i)
        IN  /\ r.start = q.start \/ r.start % ChunkSize(q) = 0
            /\ r.end = q.end \/ r.end % ChunkSize(q) = 0

\* A split makes progress and never makes more than splitBits chunks
\* (mgr.go:484-489), whatever the rounding to whole milliseconds does.
SplitsIntoFew ==
    \A r \in leaves :
        Splittable(q, r) =>
            Len(SplitRange(r, SplitUntil(q))) \in 2 .. splitBits

\* "The splitting process continues until [...]" and so it ends
\* (incite.go:177-182).
SplittingEnds == <>Finished
=============================================================================
