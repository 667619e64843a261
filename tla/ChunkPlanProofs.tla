--------------------------- MODULE ChunkPlanProofs ---------------------------
(***************************************************************************)
(* Theorems about ChunkPlan: however the query is cut and split, its       *)
(* chunks never overlap, and together they cover the query.                *)
(***************************************************************************)
EXTENDS ChunkPlan, RangesProofs

\* Two ranges are the same or have no time in common.
Apart(r, u) == r = u \/ r.end <= u.start \/ u.end <= r.start

InQuery(r) == r \in TimeRange /\ q.start <= r.start /\ r.end <= q.end

\* The chunks made so far lie before the next generation-0 chunk.
BeforeNextRoot ==
    next < NumRoots(q) =>
        \A r \in leaves : r.end <= NextChunkRange(q, next).start

\* LeavesDisjoint made inductive.
PlanInv ==
    /\ q \in ValidQuery
    /\ next \in 0 .. NumRoots(q)
    /\ \A r \in leaves : InQuery(r)
    /\ \A r, u \in leaves : Apart(r, u)
    /\ BeforeNextRoot

LEMMA InitPlan == Init => PlanInv
  <1> SUFFICES ASSUME Init PROVE PlanInv
    OBVIOUS
  <1>1. q \in ValidQuery
    BY QueriesAssumption DEF Init
  <1>2. NumRoots(q) \in Nat
    BY <1>1, RootsPartition
  <1>3. QED
    BY <1>1, <1>2 DEF Init, PlanInv, BeforeNextRoot

LEMMA MakeRootPlan ==
    ASSUME PlanInv, MakeRoot
    PROVE  PlanInv'
  <1> DEFINE n == NumRoots(q)
             root == NextChunkRange(q, next)
             after == NextChunkRange(q, next + 1)
  <1>1. /\ leaves' = leaves \cup {root} /\ next' = next + 1 /\ q' = q
        /\ next < n
    BY DEF MakeRoot
  <1>2. q \in ValidQuery /\ n \in Nat /\ next \in 0 .. n - 1
    BY <1>1, RootsPartition DEF PlanInv
  <1>3. /\ root \in TimeRange /\ q.start <= root.start /\ root.end <= q.end
        /\ next < n - 1 => root.end = after.start
    BY <1>2, RootsPartition
  <1>4. \A r \in leaves : r.end <= root.start /\ InQuery(r)
    BY <1>1 DEF PlanInv, BeforeNextRoot
  <1>5. n' = n /\ NextChunkRange(q, next)' = after
    BY <1>1
  <1> HIDE DEF root, after
  <1>6. \A r \in leaves' : InQuery(r)'
    BY <1>1, <1>3, <1>4 DEF InQuery
  <1>7. \A r, u \in leaves' : Apart(r, u)
    BY <1>1, <1>4 DEF PlanInv, Apart
  <1>8. BeforeNextRoot'
    <2>1. ASSUME next + 1 < n, NEW r \in leaves'
          PROVE  r.end <= after.start
      <3>1. root.end = after.start
        BY <1>2, <1>3, <2>1
      <3>2. CASE r = root
        BY <1>3, <3>1, <3>2 DEF TimeRange
      <3>3. CASE r \in leaves
        BY <1>3, <1>4, <3>1, <3>3 DEF TimeRange, InQuery
      <3>4. QED
        BY <1>1, <2>1, <3>2, <3>3
    <2>2. QED
      BY <1>1, <1>5, <2>1 DEF BeforeNextRoot
  <1>9. QED
    BY <1>1, <1>2, <1>6, <1>7, <1>8 DEF PlanInv

\* The sub-chunks of a chunk lie inside it, do not overlap, and cover it.
LEMMA SplitsInside ==
    ASSUME PlanInv, NEW r \in leaves, Splittable(q, r)
    PROVE  /\ \A u \in SplitsInto(r) : /\ u \in TimeRange
                                       /\ r.start <= u.start /\ u.end <= r.end
           /\ \A u, v \in SplitsInto(r) : Apart(u, v)
           /\ \A t \in TimesOf(r) : \E u \in SplitsInto(r) : t \in TimesOf(u)
  <1> DEFINE until == SplitUntil(q)
             rs == SplitRange(r, until)
  <1>1. /\ until \in Nat \ {0} /\ until < Duration(r)
        /\ r.start \in Nat /\ r.end \in Nat
    BY QueryDurations DEF PlanInv, InQuery, TimeRange, Splittable
  <1>2. SplitsInto(r) = {rs[k] : k \in DOMAIN rs}
    BY DEF SplitsInto
  <1> HIDE DEF until
  <1>3. PICK n \in 2 .. splitBits :
            /\ DOMAIN rs = 1 .. n
            /\ rs[1].start = r.start /\ rs[n].end = r.end
            /\ \A k \in 1 .. n :
                  /\ rs[k] \in TimeRange
                  /\ r.start <= rs[k].start /\ rs[k].end <= r.end
                  /\ k < n => rs[k].end = rs[k + 1].start
    BY <1>1, SplitPartition
  <1> HIDE DEF rs
  <1>4. n \in 2 .. 4
    BY DEF splitBits
  <1>5. ASSUME NEW j \in 1 .. n, NEW k \in 1 .. n, j < k
        PROVE  rs[j].end <= rs[k].start
    <2>1. /\ \A i \in 1 .. n : /\ rs[i].start \in Nat /\ rs[i].end \in Nat
                               /\ rs[i].start < rs[i].end
          /\ \A i \in 1 .. n - 1 : rs[i].end = rs[i + 1].start
      BY <1>3, <1>4 DEF TimeRange
    <2>2. CASE k = j + 1
      BY <1>4, <1>5, <2>1, <2>2
    <2>3. CASE k = j + 2
      <3>1. rs[j].end = rs[j + 1].start /\ rs[j + 1].end = rs[k].start
        BY <1>4, <2>1, <2>3
      <3>2. QED
        BY <1>4, <2>1, <2>3, <3>1
    <2>4. CASE k = j + 3
      <3>1. /\ rs[j].end = rs[j + 1].start /\ rs[j + 1].end = rs[j + 2].start
            /\ rs[j + 2].end = rs[k].start
        BY <1>4, <2>1, <2>4
      <3>2. QED
        BY <1>4, <2>1, <2>4, <3>1
    <2>5. QED
      BY <1>4, <1>5, <2>2, <2>3, <2>4
  <1>6. ASSUME NEW j \in 1 .. n, NEW k \in 1 .. n
        PROVE  Apart(rs[j], rs[k])
    <2>1. j = k \/ j < k \/ k < j
      BY <1>4
    <2>2. QED
      BY <1>5, <2>1 DEF Apart
  <1>7. ASSUME NEW t \in TimesOf(r)
        PROVE  \E k \in 1 .. n : t \in TimesOf(rs[k])
    <2>1. t \in Int /\ r.start <= t /\ t < r.end
      BY <1>1, <1>7 DEF TimesOf
    <2>2. \A i \in 1 .. n : rs[i].start \in Nat /\ rs[i].end \in Nat
      BY <1>3, <1>4 DEF TimeRange
    <2>3. \E k \in 1 .. n : rs[k].start <= t /\ t < rs[k].end
      <3>1. CASE n = 2
        BY <1>3, <2>1, <2>2, <3>1
      <3>2. CASE n = 3
        BY <1>3, <2>1, <2>2, <3>2
      <3>3. CASE n = 4
        BY <1>3, <2>1, <2>2, <3>3
      <3>4. QED
        BY <1>4, <3>1, <3>2, <3>3
    <2>4. QED
      BY <2>1, <2>2, <2>3 DEF TimesOf
  <1>8. QED
    BY <1>2, <1>3, <1>6, <1>7

LEMMA SplitLeafPlan ==
    ASSUME PlanInv, NEW r \in leaves, SplitLeaf(r)
    PROVE  PlanInv'
  <1> DEFINE us == SplitsInto(r)
  <1>1. /\ leaves' = (leaves \ {r}) \cup us /\ UNCHANGED <<q, next>>
        /\ Splittable(q, r)
    BY DEF SplitLeaf
  <1>2. /\ \A u \in us : /\ u \in TimeRange
                         /\ r.start <= u.start /\ u.end <= r.end
        /\ \A u, v \in us : Apart(u, v)
    BY <1>1, SplitsInside
  <1> HIDE DEF us
  <1>3. /\ \A u \in leaves : InQuery(u)
        /\ \A u, v \in leaves : Apart(u, v)
        /\ q.start \in Nat /\ q.end \in Nat
    BY QueryDurations DEF PlanInv
  <1>4. \A u \in leaves' : InQuery(u)'
    BY <1>1, <1>2, <1>3 DEF InQuery, TimeRange
  <1>5. ASSUME NEW u \in us, NEW v \in leaves \ {r}
        PROVE  Apart(u, v) /\ Apart(v, u)
    BY <1>2, <1>3 DEF Apart, InQuery, TimeRange
  <1>6. \A u, v \in leaves' : Apart(u, v)
    BY <1>1, <1>2, <1>3, <1>5
  <1>7. BeforeNextRoot'
    <2>1. ASSUME next < NumRoots(q), NEW u \in leaves'
          PROVE  u.end <= NextChunkRange(q, next).start
      <3> DEFINE b == NextChunkRange(q, next)
      <3>1. \A v \in leaves : v.end <= b.start
        BY <2>1 DEF PlanInv, BeforeNextRoot
      <3>2. b.start \in Nat
        <4>1. next \in 0 .. NumRoots(q) - 1
          BY <2>1, RootsPartition DEF PlanInv
        <4>2. QED
          BY <4>1, RootsPartition DEF PlanInv, TimeRange
      <3> HIDE DEF b
      <3>3. u.end <= b.start
        BY <1>1, <1>2, <1>3, <3>1, <3>2 DEF TimeRange, InQuery
      <3>4. QED
        BY <3>3 DEF b
    <2>2. QED
      BY <1>1, <2>1 DEF BeforeNextRoot
  <1>8. QED
    BY <1>1, <1>4, <1>6, <1>7 DEF PlanInv

LEMMA PlanInvariant == Spec => []PlanInv
  <1>1. PlanInv /\ [Next]_vars => PlanInv'
    <2> SUFFICES ASSUME PlanInv, [Next]_vars PROVE PlanInv'
      OBVIOUS
    <2>1. CASE UNCHANGED vars
      BY <2>1 DEF vars, PlanInv, InQuery, BeforeNextRoot
    <2>2. QED
      BY <2>1, MakeRootPlan, SplitLeafPlan DEF Next
  <1>2. QED
    BY <1>1, InitPlan, PTL DEF Spec

\* Whatever the query, its chunk size and SplitUntil, and however many chunks
\* are split: no chunk is empty or reaches outside the query, and no two
\* chunks overlap, so no result is delivered twice.
THEOREM PlanDisjoint == Spec => []LeavesDisjoint
  <1>1. PlanInv => LeavesDisjoint
    BY DEF PlanInv, InQuery, Apart, TimeRange, LeavesDisjoint
  <1>2. QED
    BY <1>1, PlanInvariant, PTL

(* Coverage. *)

\* The time up to which generation-0 chunks were made.
MadeUpTo ==
    IF next = NumRoots(q) THEN q.end ELSE NextChunkRange(q, next).start

\* The ranges cover the query up to there, and no more.
CoverInv ==
    \A t \in Int : (\E r \in leaves : t \in TimesOf(r))
                      <=> q.start <= t /\ t < MadeUpTo

LEMMA InitCover == PlanInv /\ Init => CoverInv
  <1> SUFFICES ASSUME PlanInv, Init PROVE CoverInv
    OBVIOUS
  <1>1. next = 0 /\ leaves = {} /\ q \in ValidQuery /\ NumRoots(q) \in Nat \ {0}
    BY RootsPartition DEF Init, PlanInv
  <1>2. NextChunkRange(q, 0).start = q.start /\ q.start \in Nat
    BY <1>1, RootsPartition, QueryDurations
  <1>3. MadeUpTo = q.start
    BY <1>1, <1>2 DEF MadeUpTo
  <1>4. QED
    BY <1>1, <1>2, <1>3 DEF CoverInv

LEMMA MakeRootCover ==
    ASSUME PlanInv, CoverInv, MakeRoot
    PROVE  CoverInv'
  <1> DEFINE n == NumRoots(q)
             root == NextChunkRange(q, next)
             after == NextChunkRange(q, next + 1)
  <1>1. /\ leaves' = leaves \cup {root} /\ next' = next + 1 /\ q' = q
        /\ next < n
    BY DEF MakeRoot
  <1>2. q \in ValidQuery /\ n \in Nat /\ next \in 0 .. n - 1
    BY <1>1, RootsPartition DEF PlanInv
  <1>3. /\ root \in TimeRange /\ q.start <= root.start
        /\ next = n - 1 => root.end = q.end
        /\ next < n - 1 => root.end = after.start
    BY <1>2, RootsPartition
  <1>4. q.start \in Nat /\ root.start \in Nat /\ root.end \in Nat
        /\ root.start < root.end
    BY <1>2, <1>3, QueryDurations DEF TimeRange
  <1>5. MadeUpTo = root.start
    BY <1>2 DEF MadeUpTo
  <1>6. MadeUpTo' = root.end
    <2>1. MadeUpTo' = IF next + 1 = n THEN q.end ELSE after.start
      BY <1>1 DEF MadeUpTo
    <2> HIDE DEF root, after, n
    <2>2. QED
      BY <1>2, <1>3, <2>1
  <1> HIDE DEF root
  <1>7. ASSUME NEW t \in Int
        PROVE  (\E r \in leaves' : t \in TimesOf(r))
                   <=> q.start <= t /\ t < root.end
    <2>1. t \in TimesOf(root) <=> root.start <= t /\ t < root.end
      BY <1>4 DEF TimesOf
    <2>2. (\E r \in leaves : t \in TimesOf(r))
              <=> q.start <= t /\ t < root.start
      BY <1>5 DEF CoverInv
    <2>3. QED
      BY <1>1, <1>3, <1>4, <2>1, <2>2
  <1>8. QED
    BY <1>1, <1>6, <1>7 DEF CoverInv, TimesOf

LEMMA SplitLeafCover ==
    ASSUME PlanInv, CoverInv, NEW r \in leaves, SplitLeaf(r)
    PROVE  CoverInv'
  <1> DEFINE us == SplitsInto(r)
  <1>1. /\ leaves' = (leaves \ {r}) \cup us /\ UNCHANGED <<q, next>>
        /\ Splittable(q, r)
    BY DEF SplitLeaf
  <1>2. /\ \A u \in us : /\ u \in TimeRange
                         /\ r.start <= u.start /\ u.end <= r.end
        /\ \A t \in TimesOf(r) : \E u \in us : t \in TimesOf(u)
    BY <1>1, SplitsInside
  <1> HIDE DEF us
  <1>3. r.start \in Nat /\ r.end \in Nat
    BY DEF PlanInv, InQuery, TimeRange
  <1>4. \A u \in us : TimesOf(u) \subseteq TimesOf(r)
    BY <1>2, <1>3 DEF TimesOf, TimeRange
  <1>5. ASSUME NEW t \in Int
        PROVE  (\E u \in leaves' : t \in TimesOf(u))
                   <=> (\E u \in leaves : t \in TimesOf(u))
    BY <1>1, <1>2, <1>4
  <1>6. MadeUpTo' = MadeUpTo
    BY <1>1 DEF MadeUpTo
  <1>7. QED
    BY <1>1, <1>5, <1>6 DEF CoverInv, TimesOf

\* Whatever the query: its chunks cover it exactly when n0 generation-0
\* chunks were made, so a stream that counts n0 chunks, plus the ones that
\* splits add, reaches EOF with all of the query delivered.
THEOREM PlanCovers == Spec => []CoversAfterLastRoot
  <1>1. PlanInv /\ CoverInv => CoversAfterLastRoot
    <2> SUFFICES ASSUME PlanInv, CoverInv PROVE CoversAfterLastRoot
      OBVIOUS
    <2> DEFINE covered == UNION {TimesOf(r) : r \in leaves}
    <2>1. q \in ValidQuery /\ q.start \in Nat /\ q.end \in Nat /\ q.start < q.end
          /\ next \in 0 .. NumRoots(q) /\ NumRoots(q) \in Nat
      BY QueryDurations, RootsPartition DEF PlanInv
    <2>2. \A t \in covered : t \in Int
      BY DEF PlanInv, InQuery, TimeRange, TimesOf
    <2>3. \A t \in Int : t \in covered <=> q.start <= t /\ t < MadeUpTo
      BY DEF CoverInv
    <2> HIDE DEF covered
    <2>4. CASE next = NumRoots(q)
      <3>1. MadeUpTo = q.end
        BY <2>4 DEF MadeUpTo
      <3>2. \A t \in Int : t \in TimesOf(q) <=> q.start <= t /\ t < q.end
        BY <2>1 DEF TimesOf
      <3>3. \A t \in TimesOf(q) : t \in Int
        BY <2>1 DEF TimesOf
      <3>4. covered = TimesOf(q)
        BY <2>2, <2>3, <3>1, <3>2, <3>3
      <3>5. QED
        BY <2>4, <3>4 DEF CoversAfterLastRoot, covered
    <2>5. CASE next # NumRoots(q)
      <3>1. next \in 0 .. NumRoots(q) - 1
        BY <2>1, <2>5
      <3>2. MadeUpTo \in Nat /\ MadeUpTo < q.end
        BY <2>1, <2>5, <3>1, RootsPartition DEF MadeUpTo, TimeRange
      <3>3. q.end - 1 \in TimesOf(q) /\ q.end - 1 \in Int
        BY <2>1 DEF TimesOf
      <3>4. q.end - 1 \notin covered
        BY <2>1, <2>3, <3>2, <3>3
      <3>5. covered # TimesOf(q)
        BY <3>3, <3>4
      <3>6. QED
        BY <2>5, <3>5 DEF CoversAfterLastRoot, covered
    <2>6. QED
      BY <2>4, <2>5
  <1>2. PlanInv /\ CoverInv /\ [Next]_vars => CoverInv'
    <2> SUFFICES ASSUME PlanInv, CoverInv, [Next]_vars PROVE CoverInv'
      OBVIOUS
    <2>1. CASE UNCHANGED vars
      BY <2>1 DEF vars, CoverInv, MadeUpTo, TimesOf
    <2>2. QED
      BY <2>1, MakeRootCover, SplitLeafCover DEF Next
  <1>3. QED
    BY <1>1, <1>2, InitPlan, InitCover, PlanInvariant, PTL DEF Spec


(* Alignment, and the number of sub-chunks. *)

\* Whatever the query, its chunk size and its position: generation-0 chunks
\* start and end on multiples of the chunk size, except where the query
\* starts and ends (stream.go:109-121).
THEOREM PlanAligned == Spec => []RootsAligned
  <1>1. PlanInv => RootsAligned
    <2> SUFFICES ASSUME PlanInv, NEW i \in 0 .. NumRoots(q) - 1
                 PROVE  LET r == NextChunkRange(q, i)
                        IN  /\ r.start = q.start \/ r.start % ChunkSize(q) = 0
                            /\ r.end = q.end \/ r.end % ChunkSize(q) = 0
      BY DEF RootsAligned
    <2> DEFINE d == ChunkSize(q)
               n == NumRoots(q)
               r == NextChunkRange(q, i)
    <2>1. /\ q \in ValidQuery /\ q.start \in Nat /\ q.end \in Nat
          /\ d \in Nat \ {0} /\ n \in Nat
      BY QueryDurations, RootsPartition DEF PlanInv
    <2>2. CASE d = Duration(q)
      <3>1. n = 1 /\ i = 0
        BY <2>1, <2>2 DEF NumRoots
      <3>2. QED
        BY <2>1, <3>1, RootsPartition
    <2>3. CASE d # Duration(q)
      <3>1. PICK a \in Nat :
               /\ \E x \in Int : a = x * d
               /\ \A k \in Nat : NextChunkRange(q, k) =
                     [start |-> Later(a + (k * d), q.start),
                      end |-> Earlier(a + ((k + 1) * d), q.end)]
        BY <2>1, <2>3, ManyRoots
      <3>2. i \in Nat /\ i + 1 \in Nat
        BY <2>1
      <3>3. r = [start |-> Later(a + (i * d), q.start),
                 end |-> Earlier(a + ((i + 1) * d), q.end)]
        BY <3>1, <3>2
      <3> HIDE DEF d, r
      <3>4. a % d = 0
        <4>1. PICK x \in Int : a = x * d
          BY <3>1
        <4>2. ((x * d) + 0) % d = 0 /\ x * d = (x * d) + 0
          BY <2>1, <4>1, RemainderUnique
        <4>3. QED
          BY <4>1, <4>2
      <3>5. (a + (i * d)) % d = 0 /\ (a + ((i + 1) * d)) % d = 0
        <4>1. \A k \in Nat : (a + (k * d)) % d = a % d
          BY <2>1, ModPlusMultiple, Zenon
        <4>2. QED
          BY <3>2, <3>4, <4>1, Zenon
      <3>6. /\ r.start = q.start \/ r.start % d = 0
            /\ r.end = q.end \/ r.end % d = 0
        BY <3>3, <3>5 DEF Later, Earlier
      <3>7. QED
        BY <3>6 DEF d, r
    <2>4. QED
      BY <2>2, <2>3
  <1>2. QED
    BY <1>1, PlanInvariant, PTL

\* Whatever the query and SplitUntil, a chunk that may be split is cut into
\* two sub-chunks at least, so splitting makes progress, and into splitBits
\* at the most, whatever the rounding to whole milliseconds does.
THEOREM PlanSplitsIntoFew == Spec => []SplitsIntoFew
  <1>1. PlanInv => SplitsIntoFew
    <2> SUFFICES ASSUME PlanInv, NEW r \in leaves, Splittable(q, r)
                 PROVE  Len(SplitRange(r, SplitUntil(q))) \in 2 .. splitBits
      BY DEF SplitsIntoFew
    <2> DEFINE until == SplitUntil(q)
               f == Frac(r, until)
               n == NumSubRanges(r, f)
    <2>1. /\ until \in Nat \ {0} /\ until < Duration(r)
          /\ r.start \in Nat /\ r.end \in Nat
      BY QueryDurations DEF PlanInv, InQuery, TimeRange, Splittable
    <2>2. SplitRange(r, until)
             = [k \in 1 .. n |-> SubRange(r, r.start + (k - 1) * f, f)]
      BY DEF SplitRange
    <2> HIDE DEF until
    <2>3. f \in Nat \ {0} /\ f < Duration(r) /\ Duration(r) <= splitBits * f
      BY <2>1, FracBounds
    <2> HIDE DEF f
    <2>4. n \in 2 .. splitBits
      BY <2>1, <2>3, NumSubRangesBounds
    <2> HIDE DEF n
    <2>5. n \in Nat
      BY <2>4 DEF splitBits
    <2>6. Len(SplitRange(r, until)) = n
      BY <2>2, <2>5
    <2>7. QED
      BY <2>4, <2>6 DEF until
  <1>2. QED
    BY <1>1, PlanInvariant, PTL
=============================================================================
