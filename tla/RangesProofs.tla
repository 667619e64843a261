---------------------------- MODULE RangesProofs ----------------------------
(***************************************************************************)
(* What the range arithmetic returns, for ranges of any length: the        *)
(* generation-0 chunks of a query are non-empty ranges inside it, and      *)
(* the sub-chunks of a chunk are non-empty, adjacent ranges that cover it. *)
(* And what all the proofs need to know of numbers: division, induction.   *)
(***************************************************************************)
EXTENDS Ranges, WellFoundedInduction, TLAPS

\* The ranges that are not empty.
TimeRange == {r \in [start : Nat, end : Nat] : r.start < r.end}

\* Division with remainder.
LEMMA DivMod ==
    ASSUME NEW a \in Int, NEW d \in Nat \ {0}
    PROVE  /\ a \div d \in Int /\ a % d \in 0 .. d - 1
           /\ a = d * (a \div d) + (a % d)
  BY Z3

\* Multiplication by a natural number is monotonic.
LEMMA TimesMonotonic ==
    ASSUME NEW a \in Int, NEW b \in Int, NEW d \in Nat, a <= b
    PROVE  a * d <= b * d
  BY Z3

\* A set of natural numbers has a least element.
LEMMA LeastNumber ==
    ASSUME NEW T, T \subseteq Nat, T # {}
    PROVE  \E x \in T : \A y \in T : x <= y
  <1> DEFINE R == {p \in Nat \X Nat : p[1] < p[2]}
  <1>1. IsWellFoundedOn(R, Nat)
    BY NatLessThanWellFounded DEF OpToRel
  <1>2. \A x, y \in Nat : <<y, x>> \notin R => x <= y
    OBVIOUS
  <1> HIDE DEF R
  <1>3. \E x \in T : \A y \in T : <<y, x>> \notin R
    BY <1>1, WFMin
  <1>4. QED
    BY <1>2, <1>3

\* Induction, for what holds of the numbers in a set T.
LEMMA Induction ==
    ASSUME NEW T, 0 \in T, \A n \in Nat : n \in T => n + 1 \in T
    PROVE  Nat \subseteq T
  <1> SUFFICES ASSUME Nat \ T # {} PROVE FALSE
    OBVIOUS
  <1>1. PICK x \in Nat \ T : \A y \in Nat \ T : x <= y
    BY LeastNumber
  <1>2. x # 0 /\ x - 1 \in Nat
    BY <1>1
  <1>3. x - 1 \in T
    BY <1>1, <1>2
  <1>4. QED
    BY <1>1, <1>2, <1>3

\* The same, for the numbers up to n.
LEMMA BoundedInduction ==
    ASSUME NEW n \in Nat, NEW T, 0 \in T, \A k \in 1 .. n : k - 1 \in T => k \in T
    PROVE  0 .. n \subseteq T
  <1> DEFINE U == {k \in Nat : k <= n => k \in T}
  <1>1. 0 \in U
    OBVIOUS
  <1>2. ASSUME NEW k \in Nat, k \in U PROVE k + 1 \in U
    <2>1. k + 1 <= n => k + 1 \in 1 .. n /\ (k + 1) - 1 = k /\ k \in T
      BY <1>2
    <2>2. QED
      BY <2>1
  <1>3. Nat \subseteq U
    <2> HIDE DEF U
    <2>1. QED
      BY <1>1, <1>2, Induction
  <1>4. QED
    BY <1>3

\* f starts from base and goes on by step, up to n.
Recurs(f, T, base, step, n) ==
    /\ f \in [0 .. n -> T] /\ f[0] = base
    /\ \A k \in 1 .. n : f[k] = step[k][f[k - 1]]

\* What is defined by recursion exists.
LEMMA Recursion ==
    ASSUME NEW T, NEW base \in T, NEW step \in [Nat -> [T -> T]], NEW n \in Nat
    PROVE  \E f : Recurs(f, T, base, step, n)
  <1> USE DEF Recurs
  <1> DEFINE Good(m, f) == Recurs(f, T, base, step, m)
             G == {m \in Nat : \E f : Good(m, f)}
  <1>1. 0 \in G
    <2>1. Good(0, [k \in 0 .. 0 |-> base])
      OBVIOUS
    <2>2. QED
      BY <2>1
  <1>2. ASSUME NEW m \in Nat, m \in G PROVE m + 1 \in G
    <2>1. PICK f : Good(m, f)
      BY <1>2
    <2> DEFINE x == step[m + 1][f[m]]
               g == [k \in 0 .. m + 1 |-> IF k = m + 1 THEN x ELSE f[k]]
    <2>2. x \in T
      BY <2>1
    <2>3. /\ g \in [0 .. m + 1 -> T] /\ g[m + 1] = x
          /\ \A k \in 0 .. m : g[k] = f[k]
      BY <2>1, <2>2
    <2> HIDE DEF g
    <2>4. \A k \in 1 .. m + 1 : k - 1 \in 0 .. m /\ (k \in 1 .. m \/ k = m + 1)
      OBVIOUS
    <2>5. \A k \in 1 .. m + 1 : g[k] = step[k][g[k - 1]]
      <3> TAKE k \in 1 .. m + 1
      <3>1. g[k - 1] = f[k - 1]
        BY <2>3, <2>4
      <3>2. CASE k = m + 1
        BY <2>3, <3>1, <3>2
      <3>3. CASE k \in 1 .. m
        <4>1. f[k] = step[k][f[k - 1]] /\ k \in 0 .. m
          BY <2>1, <3>3
        <4>2. QED
          BY <2>3, <3>1, <4>1
      <3>4. QED
        BY <2>4, <3>2, <3>3
    <2>6. Good(m + 1, g)
      BY <2>1, <2>3, <2>5
    <2>7. QED
      BY <2>6
  <1>3. n \in G
    <2> HIDE DEF G
    <2>1. QED
      BY <1>1, <1>2, Induction
  <1>4. QED
    BY <1>3

\* Quotient and remainder are unique.
LEMMA RemainderUnique ==
    ASSUME NEW d \in Nat \ {0}, NEW k \in Int, NEW r \in 0 .. d - 1
    PROVE  ((k * d) + r) % d = r
  <1> DEFINE a == (k * d) + r
             m == a \div d
             u == a % d
  <1>1. k * d \in Int /\ a \in Int
    BY Z3
  <1>2. m \in Int /\ u \in 0 .. d - 1 /\ a = d * m + u
    BY <1>1, DivMod
  <1>3. m = k
    <2>1. m * d = d * m /\ m * d \in Int /\ (m + 1) * d = (m * d) + d
          /\ (k + 1) * d = (k * d) + d
      BY <1>2, Z3
    <2>2. CASE m < k
      <3>1. (m + 1) * d <= k * d
        BY <1>2, <2>2, TimesMonotonic
      <3> HIDE DEF m, u
      <3>2. QED
        BY <1>1, <1>2, <2>1, <3>1
    <2>3. CASE k < m
      <3>1. (k + 1) * d <= m * d
        BY <1>2, <2>3, TimesMonotonic
      <3> HIDE DEF m, u
      <3>2. QED
        BY <1>1, <1>2, <2>1, <3>1
    <2>4. QED
      BY <1>2, <2>2, <2>3
  <1> HIDE DEF m, u
  <1>4. QED
    BY <1>1, <1>2, <1>3 DEF u

LEMMA ModPlusMultiple ==
    ASSUME NEW a \in Nat, NEW d \in Nat \ {0}, NEW k \in Nat
    PROVE  (a + (k * d)) % d = a % d
  <1> DEFINE m == a \div d
             u == a % d
  <1>1. m \in Int /\ u \in 0 .. d - 1 /\ a = (d * m) + u
    BY DivMod
  <1> HIDE DEF m, u
  <1>2. a + (k * d) = ((m + k) * d) + u
    BY <1>1, Z3
  <1>3. (((m + k) * d) + u) % d = u
    BY <1>1, RemainderUnique
  <1>4. QED
    BY <1>2, <1>3 DEF u

(* Division into multiples. *)

LEMMA QuotientOfMultiple ==
    ASSUME NEW d \in Nat \ {0}, NEW k \in Int
    PROVE  (k * d) \div d = k
  <1> DEFINE m == (k * d) \div d
  <1>1. (k * d) + 0 = k * d /\ k * d \in Int
    BY Z3
  <1>2. (k * d) % d = 0
    BY <1>1, RemainderUnique
  <1>3. m \in Int /\ k * d = (d * m) + 0
    BY <1>1, <1>2, DivMod
  <1> HIDE DEF m
  <1>4. (d * m) + 0 = m * d /\ m * d \in Int
    BY <1>3, Z3
  <1>5. (m + 1) * d = (m * d) + d /\ (k + 1) * d = (k * d) + d
    BY <1>3, Z3
  <1>6. CASE m < k
    <2>1. (m + 1) * d <= k * d
      BY <1>3, <1>6, TimesMonotonic
    <2>2. QED
      BY <2>1, <1>1, <1>3, <1>4, <1>5
  <1>7. CASE k < m
    <2>1. (k + 1) * d <= m * d
      BY <1>3, <1>7, TimesMonotonic
    <2>2. QED
      BY <2>1, <1>1, <1>3, <1>4, <1>5
  <1>8. QED
    BY <1>3, <1>6, <1>7 DEF m

\* Truncate and RoundUp return the nearest multiples below and above.
LEMMA TruncateBounds ==
    ASSUME NEW t \in Nat, NEW d \in Nat \ {0}
    PROVE  /\ Truncate(t, d) \in Nat
           /\ Truncate(t, d) <= t /\ t < Truncate(t, d) + d
           /\ \E x \in Int : Truncate(t, d) = x * d
  <1>1. t \div d \in Int /\ t % d \in 0 .. d - 1
        /\ t = (d * (t \div d)) + (t % d)
    BY DivMod
  <1>2. d * (t \div d) = (t \div d) * d /\ (t \div d) * d \in Int
    BY <1>1, Z3
  <1>3. Truncate(t, d) = (t \div d) * d
    BY <1>1, <1>2 DEF Truncate
  <1>4. Truncate(t, d) <= t /\ t < Truncate(t, d) + d
    BY <1>1, <1>2, <1>3
  <1>5. -1 < t \div d
    <2>1. SUFFICES ASSUME t \div d <= -1 PROVE FALSE
      BY <1>1
    <2>2. (t \div d) * d <= (-1) * d
      BY <1>1, <2>1, TimesMonotonic
    <2>3. (-1) * d = -d
      BY Z3
    <2>4. QED
      BY <1>2, <1>3, <1>4, <2>2, <2>3
  <1>6. 0 * d <= (t \div d) * d /\ 0 * d = 0
    BY <1>1, <1>5, TimesMonotonic, Z3
  <1>7. \E x \in Int : Truncate(t, d) = x * d
    BY <1>1, <1>3
  <1>8. (t \div d) * d \in Nat
    BY <1>2, <1>6
  <1>9. QED
    BY <1>3, <1>4, <1>7, <1>8

LEMMA RoundUpBounds ==
    ASSUME NEW t \in Nat, NEW d \in Nat \ {0}
    PROVE  /\ RoundUp(t, d) \in Nat
           /\ t <= RoundUp(t, d) /\ RoundUp(t, d) < t + d
           /\ \E x \in Int : RoundUp(t, d) = x * d
  <1> DEFINE u == t + d - 1
  <1>1. u \in Nat /\ u = t + d - 1
    OBVIOUS
  <1>2. RoundUp(t, d) = Truncate(u, d)
    BY DEF RoundUp
  <1> HIDE DEF u
  <1>3. /\ Truncate(u, d) \in Nat
        /\ Truncate(u, d) <= u /\ u < Truncate(u, d) + d
        /\ \E x \in Int : Truncate(u, d) = x * d
    BY <1>1, TruncateBounds
  <1>4. t <= Truncate(u, d) /\ Truncate(u, d) < t + d
    BY <1>1, <1>3
  <1>5. QED
    BY <1>2, <1>3, <1>4

(* The generation-0 chunks of a query. *)

LEMMA QueryDurations ==
    ASSUME NEW q \in ValidQuery
    PROVE  /\ q.start \in Nat /\ q.end \in Nat /\ q.start < q.end
           /\ Duration(q) = q.end - q.start /\ Duration(q) \in Nat \ {0}
           /\ ChunkSize(q) \in 1 .. Duration(q)
           /\ SplitUntil(q) \in Nat \ {0}
  <1>1. /\ q.start \in Nat /\ q.end \in Nat /\ q.start < q.end
        /\ q.chunk \in Int /\ q.splitUntil \in Int
    BY DEF ValidQuery, QuerySpec
  <1>2. Duration(q) = q.end - q.start /\ Duration(q) \in Nat \ {0}
    BY <1>1 DEF Duration
  <1>3. ChunkSize(q) \in 1 .. Duration(q)
    BY <1>1, <1>2 DEF ChunkSize
  <1>4. SplitUntil(q) \in Nat \ {0}
    BY <1>1, <1>2, <1>3 DEF SplitUntil
  <1>5. QED
    BY <1>1, <1>2, <1>3, <1>4

\* When a query takes several chunks, chunk i lies between the multiples
\* number i and i + 1 of the chunk size, counted from the last one that is
\* not after the start of the query.
LEMMA ManyRoots ==
    ASSUME NEW q \in ValidQuery, ChunkSize(q) # Duration(q)
    PROVE  \E a \in Nat :
              LET d == ChunkSize(q)
                  n == NumRoots(q)
              IN  /\ n \in Nat \ {0} /\ \E x \in Int : a = x * d
                  /\ a <= q.start /\ q.start < a + d
                  /\ a + ((n - 1) * d) < q.end /\ q.end <= a + (n * d)
                  /\ \A i \in Nat : NextChunkRange(q, i) =
                        [start |-> Later(a + (i * d), q.start),
                         end |-> Earlier(a + ((i + 1) * d), q.end)]
  <1> DEFINE d == ChunkSize(q)
             n == NumRoots(q)
             a == Truncate(q.start, d)
             b == RoundUp(q.end, d)
  <1>1. /\ q.start \in Nat /\ q.end \in Nat /\ q.start < q.end
        /\ d \in Nat \ {0}
    BY QueryDurations
  <1>2. d # Duration(q)
    OBVIOUS
  <1>3. n = (b - a) \div d
    BY <1>2 DEF NumRoots
  <1>4. \A i \in Nat : NextChunkRange(q, i) =
          LET e == Truncate(q.start + ((1 + i) * d), d)
          IN  [start |-> Later(e - d, q.start), end |-> Earlier(e, q.end)]
    BY <1>2 DEF NextChunkRange
  <1>5. a = q.start - (q.start % d)
    BY DEF Truncate
  <1> HIDE DEF d, n
  <1>6. /\ a \in Nat /\ a <= q.start /\ q.start < a + d
        /\ \E x \in Int : a = x * d
    BY <1>1, TruncateBounds
  <1>7. /\ b \in Nat /\ q.end <= b /\ b < q.end + d
        /\ \E y \in Int : b = y * d
    BY <1>1, RoundUpBounds
  <1> HIDE DEF a, b
  <1>8. n \in Nat \ {0} /\ b = a + (n * d) /\ (n - 1) * d = (n * d) - d
    <2>1. PICK x \in Int, y \in Int : a = x * d /\ b = y * d
      BY <1>6, <1>7
    <2>2. b - a = (y - x) * d
      BY <1>1, <2>1, Z3
    <2>3. n = y - x
      BY <1>1, <1>3, <2>2, QuotientOfMultiple
    <2>4. (n - 1) * d = (n * d) - d /\ n * d \in Int
      BY <1>1, <2>3, Z3
    <2>5. CASE n <= 0
      <3>1. n * d <= 0 * d /\ 0 * d = 0
        BY <1>1, <2>3, <2>5, TimesMonotonic, Z3
      <3>2. QED
        BY <1>1, <1>6, <1>7, <2>2, <2>3, <2>4, <3>1
    <2>6. CASE n > 0
      BY <1>6, <1>7, <2>2, <2>3, <2>4, <2>6
    <2>7. QED
      BY <2>3, <2>5, <2>6
  <1>9. a + ((n - 1) * d) < q.end /\ q.end <= a + (n * d)
    <2>1. n * d \in Int
      BY <1>1, <1>8, Z3
    <2>2. QED
      BY <1>1, <1>6, <1>7, <1>8, <2>1
  <1>10. ASSUME NEW i \in Nat
         PROVE  NextChunkRange(q, i) =
                  [start |-> Later(a + (i * d), q.start),
                   end |-> Earlier(a + ((i + 1) * d), q.end)]
    <2> DEFINE k == 1 + i
               t == q.start + (k * d)
               e == Truncate(t, d)
    <2>1. NextChunkRange(q, i) =
            [start |-> Later(e - d, q.start), end |-> Earlier(e, q.end)]
      BY <1>4
    <2>2. k \in Nat /\ k = i + 1
      OBVIOUS
    <2> HIDE DEF k
    <2>3. t % d = q.start % d
      BY <1>1, <2>2, ModPlusMultiple
    <2>4. t = q.start + (k * d)
      OBVIOUS
    <2> HIDE DEF t
    <2>5. e = t - (t % d)
      BY DEF Truncate
    <2> HIDE DEF e
    <2>6. k * d \in Int /\ i * d = (k * d) - d /\ q.start % d \in Int
      BY <1>1, <2>2, DivMod, Z3
    <2> DEFINE kd == k * d
               u  == q.start % d
               id == i * d
    <2>7. /\ kd \in Int /\ u \in Int /\ id = kd - d /\ a = q.start - u
          /\ t = q.start + kd /\ e = t - u
      BY <1>5, <2>3, <2>4, <2>5, <2>6
    <2> HIDE DEF kd, u, id
    <2>8. e = a + kd /\ e - d = a + id
      BY <1>1, <1>6, <2>7
    <2>9. QED
      BY <2>1, <2>2, <2>8 DEF kd, id
  <1>11. QED
    BY <1>6, <1>8, <1>9, <1>10 DEF d, n

\* The generation-0 chunks that getReadyChunk makes, NumRoots of them, are
\* non-empty ranges that follow each other from the start of the query to
\* its end, for every query that Query accepts: nothing is left out, nothing
\* is queried twice, and the count that decides about EOF is right.
THEOREM RootsPartition ==
    ASSUME NEW q \in ValidQuery
    PROVE  /\ NumRoots(q) \in Nat \ {0}
           /\ \A i \in 0 .. NumRoots(q) - 1 :
                LET r == NextChunkRange(q, i)
                IN  /\ r \in TimeRange /\ q.start <= r.start /\ r.end <= q.end
                    /\ i = 0 => r.start = q.start
                    /\ i = NumRoots(q) - 1 => r.end = q.end
                    /\ i < NumRoots(q) - 1 =>
                           r.end = NextChunkRange(q, i + 1).start
  <1>1. /\ q.start \in Nat /\ q.end \in Nat /\ q.start < q.end
        /\ ChunkSize(q) \in Nat \ {0}
    BY QueryDurations
  <1>2. CASE ChunkSize(q) = Duration(q)
    <2>1. NumRoots(q) = 1
      BY <1>2 DEF NumRoots
    <2>2. NextChunkRange(q, 0) = [start |-> q.start, end |-> q.end]
      BY <1>2, <2>1 DEF NextChunkRange
    <2>3. QED
      BY <1>1, <2>1, <2>2 DEF TimeRange
  <1>3. CASE ChunkSize(q) # Duration(q)
    <2> DEFINE d == ChunkSize(q)
               n == NumRoots(q)
    <2>1. PICK a \in Nat :
              /\ n \in Nat \ {0}
              /\ a <= q.start /\ q.start < a + d
              /\ a + ((n - 1) * d) < q.end /\ q.end <= a + (n * d)
              /\ \A i \in Nat : NextChunkRange(q, i) =
                    [start |-> Later(a + (i * d), q.start),
                     end |-> Earlier(a + ((i + 1) * d), q.end)]
      BY <1>3, ManyRoots
    <2>d. d \in Nat \ {0} /\ n \in Nat \ {0}
      BY <1>1, <2>1
    <2> HIDE DEF n, d
    <2>2. ASSUME NEW i \in 0 .. n - 1
          PROVE  LET r == NextChunkRange(q, i)
                 IN  /\ r \in TimeRange /\ q.start <= r.start
                     /\ r.end <= q.end
                     /\ i = 0 => r.start = q.start
                     /\ i = n - 1 => r.end = q.end
                     /\ i < n - 1 => r.end = NextChunkRange(q, i + 1).start
      <3> DEFINE x == i * d
                 y == (i + 1) * d
                 l == (n - 1) * d
                 z == n * d
      <3>1. /\ i \in Nat /\ i + 1 \in Nat
            /\ NextChunkRange(q, i) = [start |-> Later(a + x, q.start),
                                       end |-> Earlier(a + y, q.end)]
            /\ NextChunkRange(q, i + 1).start = Later(a + y, q.start)
        BY <2>1
      <3>2. x \in Nat /\ y = x + d /\ y \in Nat /\ l \in Int /\ z \in Int
        <4>1. x \in Int /\ y = x + d /\ l \in Int /\ z \in Int
          BY <2>d, Z3
        <4>2. 0 * d <= x /\ 0 * d = 0
          BY <2>d, TimesMonotonic, Z3
        <4> HIDE DEF x, y, l, z
        <4>3. QED
          BY <2>d, <4>1, <4>2
      <3>3. x <= l
        BY <2>d, TimesMonotonic
      <3>4. i < n - 1 => y <= l
        BY <2>d, TimesMonotonic
      <3>5. (i = n - 1 => y = z) /\ (i = 0 => x = 0)
        BY <2>d, Z3
      <3>6. /\ a <= q.start /\ q.start < a + d
            /\ a + l < q.end /\ q.end <= a + z
        BY <2>1
      <3> HIDE DEF x, y, l, z
      <3>7. QED
        BY <1>1, <2>d, <3>1, <3>2, <3>3, <3>4, <3>5, <3>6
           DEF TimeRange, Later, Earlier
    <2>3. QED
      BY <2>1, <2>2 DEF n
  <1>4. QED
    BY <1>2, <1>3

\* Generation-0 chunks that do not follow each other directly are disjoint too.
LEMMA RootsOrdered ==
    ASSUME NEW q \in ValidQuery,
           NEW i \in 0 .. NumRoots(q) - 1, NEW j \in 0 .. NumRoots(q) - 1, i < j
    PROVE  NextChunkRange(q, i).end <= NextChunkRange(q, j).start
  <1> DEFINE d == ChunkSize(q)
             n == NumRoots(q)
  <1>1. q.start \in Nat /\ q.end \in Nat /\ d \in Nat \ {0}
    BY QueryDurations
  <1>2. CASE d = Duration(q)
    BY <1>2 DEF NumRoots
  <1>3. CASE d # Duration(q)
    <2>1. PICK a \in Nat :
              /\ n \in Nat \ {0}
              /\ \A k \in Nat : NextChunkRange(q, k) =
                    [start |-> Later(a + (k * d), q.start),
                     end |-> Earlier(a + ((k + 1) * d), q.end)]
      BY <1>3, ManyRoots
    <2> HIDE DEF n, d
    <2> DEFINE x == (i + 1) * d
               y == j * d
    <2>2. i \in Nat /\ j \in Nat /\ i + 1 <= j
      BY <2>1 DEF n
    <2>3. x <= y
      BY <1>1, <2>2, TimesMonotonic
    <2>4. x \in Int /\ y \in Int
      BY <1>1, <2>2, Z3
    <2>5. /\ NextChunkRange(q, i).end = Earlier(a + x, q.end)
          /\ NextChunkRange(q, j).start = Later(a + y, q.start)
      BY <2>1, <2>2
    <2> HIDE DEF x, y
    <2>6. QED
      BY <1>1, <2>3, <2>4, <2>5 DEF Earlier, Later
  <1>4. QED
    BY <1>2, <1>3

(* The sub-chunks of a chunk. *)

\* frac is shorter than the chunk, but no shorter than a quarter of it.
LEMMA FracBounds ==
    ASSUME NEW r, r.start \in Nat, r.end \in Nat,
           NEW until \in Nat \ {0}, until < Duration(r)
    PROVE  /\ Frac(r, until) \in Nat \ {0}
           /\ Frac(r, until) < Duration(r)
           /\ Duration(r) <= splitBits * Frac(r, until)
  <1>1. Duration(r) \in Int
    BY DEF Duration
  <1>2. CASE Duration(r) < splitBits * until
    BY <1>1, <1>2 DEF Frac, splitBits
  <1>3. CASE ~(Duration(r) < splitBits * until)
    <2>1. Frac(r, until) = (Duration(r) + 3) \div 4
      BY <1>1, <1>3 DEF Frac, splitBits
    <2>2. 4 <= Duration(r)
      BY <1>1, <1>3 DEF splitBits
    <2>3. QED
      BY <1>1, <2>1, <2>2, Z3 DEF splitBits
  <1>4. QED
    BY <1>2, <1>3

\* Between two and splitBits sub-ranges of frac milliseconds cover a range.
LEMMA NumSubRangesBounds ==
    ASSUME NEW r, r.start \in Nat, r.end \in Nat, NEW frac \in Nat \ {0},
           frac < Duration(r), Duration(r) <= splitBits * frac
    PROVE  LET n == NumSubRanges(r, frac)
           IN  /\ n \in 2 .. splitBits
               /\ (n - 1) * frac < Duration(r) /\ Duration(r) <= n * frac
  <1> DEFINE D == Duration(r)
             a == D + frac - 1
             n == NumSubRanges(r, frac)
             u == a % frac
             x == n * frac
             y == (n - 1) * frac
  <1>1. D \in Int /\ frac < D /\ D <= 4 * frac
    BY DEF Duration, splitBits
  <1> HIDE DEF D
  <1>2. a \in Int /\ a = D + frac - 1
    BY <1>1
  <1>3. n = a \div frac
    BY DEF NumSubRanges, D
  <1> HIDE DEF a, n
  <1>4. n \in Int /\ u \in 0 .. frac - 1 /\ a = (frac * n) + u
    BY <1>2, <1>3, DivMod
  <1> HIDE DEF u
  <1>5. frac * n = x /\ x \in Int /\ y = x - frac
    BY <1>4, Z3
  <1> HIDE DEF x, y
  <1>6. y < D /\ D <= x
    BY <1>1, <1>2, <1>4, <1>5
  <1>7. CASE n <= 1
    <2>1. x <= 1 * frac
      BY <1>4, <1>7, TimesMonotonic DEF x
    <2>2. QED
      BY <1>1, <1>5, <1>6, <2>1
  <1>8. CASE 5 <= n
    <2>1. 4 * frac <= y
      BY <1>4, <1>8, TimesMonotonic DEF y
    <2>2. QED
      BY <1>1, <1>5, <1>6, <2>1
  <1>9. QED
    BY <1>4, <1>6, <1>7, <1>8 DEF D, n, x, y, splitBits

\* splitChunk cuts a chunk that is longer than SplitUntil into at least two
\* and at most splitBits non-empty, shorter ranges that follow each other
\* from its start to its end: a split neither loses nor repeats results, and
\* cannot go on for ever.
THEOREM SplitPartition ==
    ASSUME NEW r, r.start \in Nat, r.end \in Nat,
           NEW until \in Nat \ {0}, until < Duration(r)
    PROVE  LET rs == SplitRange(r, until)
           IN  \E n \in 2 .. splitBits :
                 /\ DOMAIN rs = 1 .. n
                 /\ rs[1].start = r.start /\ rs[n].end = r.end
                 /\ \A k \in 1 .. n :
                       /\ rs[k] \in TimeRange
                       /\ r.start <= rs[k].start /\ rs[k].end <= r.end
                       /\ Duration(rs[k]) < Duration(r)
                       /\ k < n => rs[k].end = rs[k + 1].start
  <1> DEFINE rs == SplitRange(r, until)
             f  == Frac(r, until)
             n  == NumSubRanges(r, f)
  <1>1. f \in Nat \ {0} /\ f < Duration(r) /\ Duration(r) <= splitBits * f
    BY FracBounds
  <1>2. rs = [k \in 1 .. n |-> SubRange(r, r.start + (k - 1) * f, f)]
    BY DEF SplitRange
  <1> HIDE DEF rs, f
  <1>3. n \in 2 .. splitBits /\ (n - 1) * f < Duration(r)
        /\ Duration(r) <= n * f
    BY <1>1, NumSubRangesBounds
  <1> HIDE DEF n
  <1>4. Duration(r) = r.end - r.start
    BY DEF Duration
  <1>5. n \in Nat /\ 2 <= n
    BY <1>3 DEF splitBits
  <1>6. ASSUME NEW k \in 1 .. n
        PROVE  /\ rs[k] \in TimeRange
               /\ r.start <= rs[k].start /\ rs[k].end <= r.end
               /\ Duration(rs[k]) < Duration(r)
               /\ k < n => rs[k].end = rs[k + 1].start
               /\ k = 1 => rs[k].start = r.start
               /\ k = n => rs[k].end = r.end
    <2> DEFINE x == (k - 1) * f
               y == k * f
               l == (n - 1) * f
               z == n * f
    <2>1. x \in Int /\ y = x + f /\ l \in Int /\ z \in Int
          /\ (k = n => y = z) /\ (k = 1 => x = 0) /\ 0 * f = 0
      BY <1>1, <1>5, Z3
    <2>2. 0 * f <= x /\ x <= l /\ (k < n => y <= l)
      BY <1>1, <1>5, TimesMonotonic
    <2>3. l < Duration(r) /\ Duration(r) <= z
      BY <1>3
    <2>4. rs[k] = [start |-> r.start + x, end |-> Earlier(r.start + x + f, r.end)]
      BY <1>2 DEF SubRange
    <2>5. k < n => rs[k + 1].start = r.start + y
      <3>1. k < n => k + 1 \in 1 .. n /\ (k + 1) - 1 = k
        BY <1>5
      <3>2. QED
        BY <1>2, <3>1 DEF SubRange
    <2> HIDE DEF x, y, l, z
    <2>6. QED
      BY <1>1, <1>4, <2>1, <2>2, <2>3, <2>4, <2>5
         DEF TimeRange, Earlier, Duration
  <1>7. DOMAIN rs = 1 .. n
    BY <1>2
  <1>8. rs[1].start = r.start /\ rs[n].end = r.end
    BY <1>5, <1>6
  <1>9. QED
    BY <1>3, <1>6, <1>7, <1>8 DEF rs
=============================================================================
