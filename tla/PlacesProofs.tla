---------------------------- MODULE PlacesProofs ----------------------------
(***************************************************************************)
(* Theorems about the chunks of QueryManager and the queues between its    *)
(* goroutines: a chunk is in one place at a time, the counters of mgr.go   *)
(* count exactly, no send blocks, and no running query is forgotten.       *)
(***************************************************************************)
EXTENDS QueryInvariant, QueryManagerProofs, FiniteSetTheorems

(* Sequences without repetitions, and the sets of their elements. *)

LEMMA InAppend ==
    ASSUME NEW S, NEW q \in Seq(S), NEW x \in S, NEW c
    PROVE  InSeq(c, Append(q, x)) <=> InSeq(c, q) \/ c = x
  <1> DEFINE r == Append(q, x)
  <1>1. /\ DOMAIN q = 1 .. Len(q) /\ Len(q) \in Nat
        /\ DOMAIN r = 1 .. Len(q) + 1 /\ r[Len(q) + 1] = x
        /\ \A i \in DOMAIN q : r[i] = q[i]
    OBVIOUS
  <1> HIDE DEF r
  <1>2. \A i \in DOMAIN r : i \in DOMAIN q \/ i = Len(q) + 1
    BY <1>1
  <1>3. \A i \in DOMAIN q : i \in DOMAIN r
    BY <1>1
  <1>4. Len(q) + 1 \in DOMAIN r
    BY <1>1
  <1>5. QED
    BY <1>1, <1>2, <1>3, <1>4 DEF InSeq, r

LEMMA InTail ==
    ASSUME NEW S, NEW q \in Seq(S), q # <<>>, NEW c
    PROVE  /\ InSeq(Head(q), q)
           /\ InSeq(c, q) <=> InSeq(c, Tail(q)) \/ c = Head(q)
           /\ NoRepeat(q) => ~InSeq(Head(q), Tail(q))
  <1> DEFINE r == Tail(q)
  <1>1. /\ DOMAIN q = 1 .. Len(q) /\ Len(q) \in Nat \ {0}
        /\ DOMAIN r = 1 .. Len(q) - 1 /\ Head(q) = q[1]
        /\ \A i \in DOMAIN r : r[i] = q[i + 1]
    OBVIOUS
  <1> HIDE DEF r
  <1>2. 1 \in DOMAIN q /\ \A i \in DOMAIN r : i + 1 \in DOMAIN q /\ i + 1 # 1
    BY <1>1
  <1>3. \A i \in DOMAIN q : i = 1 \/ (i - 1 \in DOMAIN r /\ (i - 1) + 1 = i)
    BY <1>1
  <1>4. InSeq(c, q) => InSeq(c, r) \/ c = Head(q)
    BY <1>1, <1>3 DEF InSeq
  <1>5. InSeq(c, r) \/ c = Head(q) => InSeq(c, q)
    BY <1>1, <1>2 DEF InSeq
  <1>6. NoRepeat(q) => ~InSeq(Head(q), r)
    BY <1>1, <1>2 DEF InSeq, NoRepeat
  <1>7. QED
    BY <1>1, <1>2, <1>4, <1>5, <1>6 DEF InSeq, r

LEMMA NoRepeatTail ==
    ASSUME NEW S, NEW q \in Seq(S), q # <<>>, NoRepeat(q)
    PROVE  NoRepeat(Tail(q))
  BY DEF NoRepeat

LEMMA NoRepeatAppend ==
    ASSUME NEW S, NEW q \in Seq(S), NoRepeat(q), NEW x \in S, ~InSeq(x, q)
    PROVE  NoRepeat(Append(q, x))
  BY DEF NoRepeat, InSeq

LEMMA InConcat ==
    ASSUME NEW S, NEW q \in Seq(S), NEW r \in Seq(S), NEW c
    PROVE  InSeq(c, q \o r) <=> InSeq(c, q) \/ InSeq(c, r)
  <1> DEFINE u == q \o r
             n == Len(q)
  <1>1. /\ DOMAIN q = 1 .. n /\ n \in Nat
        /\ DOMAIN r = 1 .. Len(r) /\ Len(r) \in Nat
        /\ DOMAIN u = 1 .. n + Len(r)
        /\ \A i \in DOMAIN q : u[i] = q[i]
        /\ \A i \in DOMAIN r : u[n + i] = r[i]
    OBVIOUS
  <1> HIDE DEF u, n
  <1>2. \A i \in DOMAIN q : i \in DOMAIN u
    BY <1>1
  <1>3. \A i \in DOMAIN r : n + i \in DOMAIN u
    BY <1>1
  <1>4. \A i \in DOMAIN u :
            i \in DOMAIN q \/ (i - n \in DOMAIN r /\ n + (i - n) = i)
    BY <1>1
  <1>5. QED
    BY <1>1, <1>2, <1>3, <1>4 DEF InSeq, u

LEMMA NoRepeatConcat ==
    ASSUME NEW S, NEW q \in Seq(S), NEW r \in Seq(S),
           NoRepeat(q), NoRepeat(r), \A c : ~(InSeq(c, q) /\ InSeq(c, r))
    PROVE  NoRepeat(q \o r)
  <1> DEFINE u == q \o r
             n == Len(q)
  <1>1. /\ n \in Nat /\ DOMAIN q = 1 .. n /\ DOMAIN u = 1 .. n + Len(r)
        /\ Len(r) \in Nat /\ DOMAIN r = 1 .. Len(r)
        /\ \A i \in 1 .. n : u[i] = q[i]
        /\ \A i \in n + 1 .. n + Len(r) : u[i] = r[i - n]
    OBVIOUS
  <1> HIDE DEF n, u
  <1>2. \A i \in DOMAIN u : \/ i \in DOMAIN q /\ u[i] = q[i]
                            \/ /\ i \notin DOMAIN q /\ i - n \in DOMAIN r
                               /\ u[i] = r[i - n]
    BY <1>1
  <1>3. \A i, j \in DOMAIN u : i - n = j - n => i = j
    BY <1>1
  <1>4. \A i, j \in DOMAIN u : u[i] = u[j] => i = j
    BY <1>2, <1>3 DEF NoRepeat, InSeq
  <1>5. QED
    BY <1>4 DEF NoRepeat, u

\* The elements of a queue, and the positions of those that are in T.
Elements(S, q) == {c \in S : InSeq(c, q)}

PositionsOf(q, T) == {i \in DOMAIN q : q[i] \in T}

\* As many milliseconds as a range is long.
LEMMA MillisCount ==
    ASSUME NEW a \in Int, NEW b \in Int, a <= b
    PROVE  IsFiniteSet(a .. b - 1) /\ Cardinality(a .. b - 1) = b - a
  <1> DEFINE e == b - 1
  <1>1. e \in Int /\ (a > e => b - a = 0) /\ e - a + 1 = b - a
    OBVIOUS
  <1> HIDE DEF e
  <1>2. /\ IsFiniteSet(a .. e)
        /\ Cardinality(a .. e) = IF a > e THEN 0 ELSE e - a + 1
    BY <1>1, FS_Interval, Zenon
  <1>3. IsFiniteSet(a .. e) /\ Cardinality(a .. e) = b - a
    BY <1>1, <1>2, Zenon
  <1>4. QED
    BY <1>3, Zenon DEF e

LEMMA FinitePositions ==
    ASSUME NEW S, NEW q \in Seq(S), NEW T
    PROVE  /\ IsFiniteSet(PositionsOf(q, T))
           /\ Cardinality(PositionsOf(q, S)) = Len(q)
  <1>1. DOMAIN q = 1 .. Len(q) /\ Len(q) \in Nat
    OBVIOUS
  <1>2. IsFiniteSet(1 .. Len(q)) /\ Cardinality(1 .. Len(q)) = Len(q)
    BY <1>1, FS_Interval
  <1>3. PositionsOf(q, T) \in SUBSET (1 .. Len(q))
    BY <1>1 DEF PositionsOf
  <1>4. PositionsOf(q, S) = 1 .. Len(q)
    BY DEF PositionsOf
  <1>5. QED
    BY <1>2, <1>3, <1>4, FS_Subset

\* The elements of T in a queue are as many as their positions.
CountedOnce(S, q, T) ==
    /\ IsFiniteSet(Elements(S, q) \cap T)
    /\ Cardinality(Elements(S, q) \cap T) = Cardinality(PositionsOf(q, T))

LEMMA CountPositions ==
    ASSUME NEW S, NEW q \in Seq(S), NoRepeat(q), NEW T
    PROVE  CountedOnce(S, q, T)
  <1> DEFINE P == PositionsOf(q, T)
             E == Elements(S, q) \cap T
             f == [i \in P |-> q[i]]
  <1>1. f \in [P -> E]
    BY DEF InSeq, PositionsOf, Elements
  <1>2. \A i, j \in P : f[i] = f[j] => i = j
    BY DEF NoRepeat, PositionsOf
  <1>3. \A c \in E : \E i \in P : f[i] = c
    BY DEF InSeq, PositionsOf, Elements
  <1>4. f \in Bijection(P, E)
    BY <1>1, <1>2, <1>3, Zenon
       DEF Bijection, Injection, IsInjective, Surjection
  <1>5. ExistsBijection(P, E)
    BY <1>4 DEF ExistsBijection
  <1>6. QED
    BY <1>5, FinitePositions, FS_Bijection DEF CountedOnce

\* A queue without repetitions is as long as the set of its elements.
LEMMA CountElements ==
    ASSUME NEW S, NEW q \in Seq(S), NoRepeat(q)
    PROVE  /\ IsFiniteSet(Elements(S, q))
           /\ Cardinality(Elements(S, q)) = Len(q)
  <1>1. Elements(S, q) \cap S = Elements(S, q)
    BY DEF Elements
  <1>2. CountedOnce(S, q, S)
    BY CountPositions
  <1>3. QED
    BY <1>1, <1>2, FinitePositions DEF CountedOnce

(* How a step moves a chunk between the queues. *)

LEMMA QueuesType ==
    ASSUME IndTypeOK, NEW p \in Place
    PROVE  Queues[p] \in Seq(Chunk)
  BY DEF IndTypeOK, TypeOK, Queues, Place, Worker

\* Held, said of places.
LEMMA HeldAt ==
    ASSUME NEW c
    PROVE  /\ Held(c) <=> \E p \in Place : At(c, p)
           /\ Held(c)' <=> \E p \in Place : At(c, p)'
  BY DEF Held, At, Place, Queues, Worker

\* Chunk x goes from p to r, and no other chunk moves; "away" is no place.
Goes(x, p, r) ==
    /\ x \in Chunk
    /\ \A u \in Place : At(x, u) <=> u = p
    /\ \A u \in Place : At(x, u)' <=> u = r
    /\ \A c \in Chunk \ {x}, u \in Place : At(c, u)' <=> At(c, u)

\* The queues when the head of p is taken out, and appended to r.
TakesFrom(p, r) ==
    /\ Queues[p] # <<>>
    /\ p # r => Queues'[p] = Tail(Queues[p])
    /\ \A u \in Place \ {p, r} : Queues'[u] = Queues[u]

Moves(p, r) ==
    /\ TakesFrom(p, r)
    /\ LET rest == IF p = r THEN Tail(Queues[r]) ELSE Queues[r]
       IN  Queues'[r] = Append(rest, Head(Queues[p]))

LEMMA HeadAt ==
    ASSUME IndTypeOK, OneSpot, NEW p \in Place, Queues[p] # <<>>
    PROVE  LET x == Head(Queues[p]) q == Tail(Queues[p])
           IN  /\ x \in Chunk /\ q \in Seq(Chunk)
               /\ \A u \in Place : At(x, u) <=> u = p
               /\ NoRepeat(q) /\ ~InSeq(x, q)
               /\ \A c \in Chunk \ {x} : InSeq(c, q) <=> At(c, p)
  <1> DEFINE x == Head(Queues[p])
             q == Tail(Queues[p])
  <1>1. /\ Queues[p] \in Seq(Chunk) /\ NoRepeat(Queues[p])
    BY QueuesType DEF OneSpot
  <1>2. x \in Chunk /\ q \in Seq(Chunk)
    BY <1>1, HeadTail
  <1>3. At(x, p) /\ ~InSeq(x, q) /\ NoRepeat(q)
    BY <1>1, InTail, NoRepeatTail DEF At
  <1>4. \A c \in Chunk \ {x} : InSeq(c, q) <=> At(c, p)
    BY <1>1, InTail DEF At
  <1>5. \A u \in Place : At(x, u) <=> u = p
    BY <1>2, <1>3 DEF OneSpot
  <1>6. QED
    BY <1>2, <1>3, <1>4, <1>5

LEMMA MoveGoes ==
    ASSUME IndTypeOK, OneSpot, NEW p \in Place, NEW r \in Place, Moves(p, r),
           NEW x, x = Head(Queues[p])
    PROVE  Goes(x, p, r) /\ OneSpot'
  <1> DEFINE q == Tail(Queues[p])
             rest == IF p = r THEN q ELSE Queues[r]
  <1>1. Queues[p] # <<>> /\ Queues'[r] = Append(rest, x)
    BY DEF Moves, TakesFrom
  <1>2. /\ x \in Chunk /\ q \in Seq(Chunk)
        /\ \A u \in Place : At(x, u) <=> u = p
        /\ NoRepeat(q) /\ ~InSeq(x, q)
        /\ \A c \in Chunk \ {x} : InSeq(c, q) <=> At(c, p)
    BY <1>1, HeadAt
  <1>3. /\ rest \in Seq(Chunk) /\ NoRepeat(rest) /\ ~InSeq(x, rest)
        /\ \A c \in Chunk \ {x} : InSeq(c, rest) <=> At(c, r)
    BY <1>2, QueuesType DEF OneSpot, At
  <1> HIDE DEF q, rest
  <1>4. /\ NoRepeat(Queues'[r])
        /\ \A c \in Chunk : InSeq(c, Queues'[r]) <=> c = x \/ At(c, r)
    BY <1>1, <1>2, <1>3, InAppend, NoRepeatAppend
  <1>5. \A u \in Place \ {r} :
            /\ NoRepeat(Queues'[u])
            /\ \A c \in Chunk : InSeq(c, Queues'[u]) <=> At(c, u) /\ c # x
    <2> TAKE u \in Place \ {r}
    <2>1. CASE u = p
      <3>1. Queues'[u] = q
        BY <2>1 DEF Moves, TakesFrom, q
      <3>2. QED
        BY <1>2, <2>1, <3>1
    <2>2. CASE u # p
      <3>1. Queues'[u] = Queues[u]
        BY <2>2 DEF Moves, TakesFrom
      <3>2. QED
        BY <1>2, <2>2, <3>1 DEF OneSpot, At
    <2>3. QED
      BY <2>1, <2>2
  <1>6. \A c \in Chunk, u \in Place : At(c, u)' <=> IF c = x THEN u = r ELSE At(c, u)
    BY <1>2, <1>4, <1>5 DEF At
  <1>7. Goes(x, p, r)
    <2>1. \A u \in Place : At(x, u)' <=> u = r
      BY <1>2, <1>6
    <2>2. \A c \in Chunk \ {x}, u \in Place : At(c, u)' <=> At(c, u)
      BY <1>6
    <2>3. QED
      BY <1>2, <2>1, <2>2 DEF Goes
  <1>8. OneSpot'
    <2>1. \A u \in Place : NoRepeat(Queues[u])'
      BY <1>4, <1>5
    <2>2. \A u, v \in Place : \A c \in Chunk : At(c, u)' /\ At(c, v)' => u = v
      BY <1>6 DEF OneSpot
    <2>3. QED
      BY <2>1, <2>2 DEF OneSpot
  <1>9. QED
    BY <1>7, <1>8

\* The loop receives a chunk and lets go of it.
LEMMA DropGoes ==
    ASSUME IndTypeOK, OneSpot, NEW p \in Place, TakesFrom(p, "away"),
           NEW x, x = Head(Queues[p])
    PROVE  Goes(x, p, "away") /\ OneSpot'
  <1> DEFINE q == Tail(Queues[p])
  <1>1. Queues[p] # <<>> /\ "away" \notin Place
    BY DEF TakesFrom, Place
  <1>2. /\ x \in Chunk /\ q \in Seq(Chunk)
        /\ \A u \in Place : At(x, u) <=> u = p
        /\ NoRepeat(q) /\ ~InSeq(x, q)
        /\ \A c \in Chunk \ {x} : InSeq(c, q) <=> At(c, p)
    BY <1>1, HeadAt
  <1>3. \A u \in Place :
            /\ NoRepeat(Queues'[u])
            /\ \A c \in Chunk : InSeq(c, Queues'[u]) <=> At(c, u) /\ c # x
    <2> TAKE u \in Place
    <2>1. CASE u = p
      <3>1. Queues'[u] = q
        BY <1>1, <2>1 DEF TakesFrom, q
      <3>2. QED
        BY <1>2, <2>1, <3>1
    <2>2. CASE u # p
      <3>1. Queues'[u] = Queues[u]
        BY <1>1, <2>2 DEF TakesFrom
      <3>2. QED
        BY <1>2, <2>2, <3>1 DEF OneSpot, At
    <2>3. QED
      BY <2>1, <2>2
  <1> HIDE DEF q
  <1>4. \A c \in Chunk, u \in Place : At(c, u)' <=> At(c, u) /\ c # x
    BY <1>3 DEF At
  <1>5. Goes(x, p, "away")
    BY <1>1, <1>2, <1>4 DEF Goes
  <1>6. OneSpot'
    <2>1. \A u \in Place : NoRepeat(Queues[u])'
      BY <1>3
    <2>2. \A u, v \in Place : \A c \in Chunk : At(c, u)' /\ At(c, v)' => u = v
      BY <1>4 DEF OneSpot
    <2>3. QED
      BY <2>1, <2>2 DEF OneSpot
  <1>7. QED
    BY <1>5, <1>6

\* Chunk x is taken out of the update channel, and the chunks of a sequence
\* that nobody holds go to the ready ring.
Replaces(x, kids) ==
    /\ x \in Chunk
    /\ \A u \in Place : At(x, u) <=> u = "update"
    /\ \A u \in Place : ~At(x, u)'
    /\ \A c \in Chunk \ {x}, u \in Place :
          At(c, u)' <=> At(c, u) \/ (u = "ready" /\ InSeq(c, kids))

LEMMA SplitGoes ==
    ASSUME IndTypeOK, OneSpot,
           NEW q \in Seq(Chunk), NoRepeat(q),
           \A c \in Chunk : InSeq(c, q) => ~Held(c),
           TakesFrom("update", "ready"),
           Queues'["ready"] = Queues["ready"] \o q,
           NEW x, x = Head(Queues["update"])
    PROVE  Replaces(x, q) /\ OneSpot'
  <1> DEFINE rest == Tail(Queues["update"])
  <1>1. /\ Queues["ready"] \in Seq(Chunk) /\ NoRepeat(Queues["ready"])
        /\ "ready" \in Place /\ "update" \in Place
    BY QueuesType DEF OneSpot, Place
  <1>2. /\ x \in Chunk
        /\ \A u \in Place : At(x, u) <=> u = "update"
        /\ NoRepeat(rest) /\ ~InSeq(x, rest)
        /\ \A c \in Chunk \ {x} : InSeq(c, rest) <=> At(c, "update")
    BY <1>1, HeadAt DEF TakesFrom
  <1>3. \A c \in Chunk : InSeq(c, q) => c # x /\ \A u \in Place : ~At(c, u)
    BY <1>1, <1>2, HeldAt
  <1>4. \A c : ~(InSeq(c, Queues["ready"]) /\ InSeq(c, q))
    <2>1. \A c : InSeq(c, q) => c \in Chunk
      BY DEF InSeq
    <2>2. QED
      BY <1>1, <1>3, <2>1 DEF At
  <1>5. NoRepeat(Queues'["ready"])
    BY <1>1, <1>4, NoRepeatConcat
  <1>6. \A c : InSeq(c, Queues'["ready"])
                  <=> InSeq(c, Queues["ready"]) \/ InSeq(c, q)
    BY <1>1, InConcat
  <1>7. /\ Queues'["update"] = rest
        /\ \A u \in Place \ {"update", "ready"} : Queues'[u] = Queues[u]
    BY DEF TakesFrom
  <1> HIDE DEF rest
  <1>8. \A u \in Place : NoRepeat(Queues'[u])
    BY <1>2, <1>5, <1>7 DEF OneSpot
  <1>9. ASSUME NEW c \in Chunk, NEW u \in Place
        PROVE  At(c, u)' <=>
                   (At(c, u) /\ c # x) \/ (u = "ready" /\ InSeq(c, q))
    <2>1. CASE u = "ready"
      BY <1>2, <1>6, <2>1 DEF At
    <2>2. CASE u = "update"
      BY <1>2, <1>7, <2>2 DEF At
    <2>3. CASE u # "ready" /\ u # "update"
      BY <1>2, <1>7, <2>3 DEF At
    <2>4. QED
      BY <2>1, <2>2, <2>3
  <1>10. Replaces(x, q)
    BY <1>2, <1>3, <1>9 DEF Replaces
  <1>11. \A u, v \in Place : \A c \in Chunk : At(c, u)' /\ At(c, v)' => u = v
    BY <1>3, <1>9 DEF OneSpot
  <1>12. OneSpot'
    BY <1>8, <1>11 DEF OneSpot
  <1>13. QED
    BY <1>10, <1>12

LEMMA CreateGoes ==
    ASSUME IndTypeOK, OneSpot, NEW r \in Place, NEW x \in Chunk, ~Held(x),
           Queues'[r] = Append(Queues[r], x),
           \A u \in Place \ {r} : Queues'[u] = Queues[u]
    PROVE  Goes(x, "away", r) /\ OneSpot'
  <1>1. Queues[r] \in Seq(Chunk) /\ NoRepeat(Queues[r])
    BY QueuesType DEF OneSpot
  <1>2. \A u \in Place : ~At(x, u)
    BY HeldAt
  <1>3. NoRepeat(Queues'[r])
    BY <1>1, <1>2, NoRepeatAppend DEF At
  <1>4. \A c : InSeq(c, Queues'[r]) <=> InSeq(c, Queues[r]) \/ c = x
    BY <1>1, InAppend
  <1>5. \A c \in Chunk, u \in Place : At(c, u)' <=> At(c, u) \/ (u = r /\ c = x)
    BY <1>4 DEF At
  <1>6. "away" \notin Place
    BY DEF Place
  <1>7. Goes(x, "away", r)
    BY <1>2, <1>5, <1>6 DEF Goes
  <1>8. \A u \in Place : NoRepeat(Queues[u])'
    BY <1>3 DEF OneSpot
  <1>9. \A u, v \in Place : \A c \in Chunk : At(c, u)' /\ At(c, v)' => u = v
    BY <1>2, <1>5 DEF OneSpot
  <1>10. QED
    BY <1>7, <1>8, <1>9 DEF OneSpot

(* The chunks in each count. *)

LEMMA ChunksOfFinite ==
    ASSUME NEW s \in Stream
    PROVE  IsFiniteSet(ChunksOf(s))
  <1> DEFINE T == Query[s].start .. Query[s].end
             R == {[stream |-> s, start |-> a, end |-> b] : a, b \in T}
             f == [p \in T \X T |-> [stream |-> s, start |-> p[1], end |-> p[2]]]
  <1>1. Query[s].start \in Int /\ Query[s].end \in Int
    BY StreamQuery, QueryDurations
  <1>2. IsFiniteSet(T)
    BY <1>1, FS_Interval
  <1> HIDE DEF T
  <1>3. IsFiniteSet(T \X T)
    BY <1>2, FS_Product
  <1>4. f \in Surjection(T \X T, R)
    <2>1. f \in [T \X T -> R]
      OBVIOUS
    <2>2. ASSUME NEW a \in T, NEW b \in T
          PROVE  \E p \in T \X T : f[p] = [stream |-> s, start |-> a, end |-> b]
      <3>1. <<a, b>> \in T \X T /\ f[<<a, b>>] = [stream |-> s, start |-> a, end |-> b]
        OBVIOUS
      <3>2. QED
        BY <3>1
    <2>3. ASSUME NEW c \in R
          PROVE  \E p \in T \X T : f[p] = c
      <3>1. PICK a \in T, b \in T : c = [stream |-> s, start |-> a, end |-> b]
        OBVIOUS
      <3>2. QED
        BY <2>2, <3>1
    <2> HIDE DEF f, R
    <2>4. QED
      BY <2>1, <2>3 DEF Surjection
  <1>5. IsFiniteSet(R)
    BY <1>3, <1>4, FS_Surjection
  <1>6. ChunksOf(s) \in SUBSET R
    BY DEF ChunksOf, T
  <1>7. QED
    BY <1>5, <1>6, FS_Subset

LEMMA ChunkFinite == IsFiniteSet(Chunk)
  <1> DEFINE F == {ChunksOf(s) : s \in Stream}
             f == [s \in Stream |-> ChunksOf(s)]
  <1>1. f \in Surjection(Stream, F)
    BY DEF Surjection
  <1>2. IsFiniteSet(F)
    BY <1>1, StreamAssumption, FS_Surjection
  <1>3. \A C \in F : IsFiniteSet(C)
    BY ChunksOfFinite
  <1> HIDE DEF F
  <1>4. IsFiniteSet(UNION F)
    BY <1>2, <1>3, FS_UNION
  <1>5. QED
    BY <1>4 DEF Chunk, F

\* Chunk x goes from p to r, and no other chunk moves or changes.
StepOf(x, p, r) ==
    /\ Goes(x, p, r)
    /\ \A c \in Chunk \ {x} : chunk'[c] = chunk[c] /\ remote'[c] = remote[c]

\* The count that a chunk in place p is in.
Kind(p, state) ==
    CASE p \in {"start", "starter"} -> "starting"
      [] p \in {"poll", "poller"}   -> "polling"
      [] p \in {"stop", "stopper"}  -> "stopping"
      [] p = "update" /\ state \in {"starting", "started"}  -> "starting"
      [] p = "update" /\ state \in {"polling", "complete"}  -> "polling"
      [] p = "update" /\ state = "stopping"                 -> "stopping"
      [] OTHER -> "none"

\* How a count changes when one chunk goes from kind k to kind l.
Delta(k, l, kind) ==
    (IF l = kind THEN 1 ELSE 0) - (IF k = kind THEN 1 ELSE 0)

LEMMA OneMore ==
    ASSUME NEW A, NEW B, NEW x, IsFiniteSet(A), A \ {x} = B \ {x}
    PROVE  /\ IsFiniteSet(B) /\ Cardinality(A) \in Nat /\ Cardinality(B) \in Nat
           /\ Cardinality(B) = Cardinality(A)
                  + (IF x \in B THEN 1 ELSE 0) - (IF x \in A THEN 1 ELSE 0)
  <1> DEFINE C == A \ {x}
  <1>1. /\ IsFiniteSet(C) /\ Cardinality(A) \in Nat
        /\ Cardinality(C) = IF x \in A THEN Cardinality(A) - 1 ELSE Cardinality(A)
    BY FS_RemoveElement, FS_CardinalityType
  <1>2. B = IF x \in B THEN C \cup {x} ELSE C
    OBVIOUS
  <1>3. x \notin C
    OBVIOUS
  <1> HIDE DEF C
  <1>4. /\ IsFiniteSet(C \cup {x}) /\ Cardinality(C) \in Nat
        /\ Cardinality(C \cup {x}) = Cardinality(C) + 1
    BY <1>1, <1>3, FS_AddElement, FS_CardinalityType
  <1>5. CASE x \in B
    <2>1. B = C \cup {x}
      BY <1>2, <1>5
    <2>2. IsFiniteSet(B) /\ Cardinality(B) = Cardinality(C) + 1
      BY <1>4, <2>1
    <2>3. QED
      BY <1>1, <1>4, <1>5, <2>2
  <1>6. CASE x \notin B
    BY <1>1, <1>2, <1>4, <1>6
  <1>7. QED
    BY <1>5, <1>6

\* "away" stands for a chunk that is not in a queue.
Whereabouts == Place \cup {"away"}

LEMMA KindOf ==
    ASSUME NEW x, NEW p \in Whereabouts, NEW r \in Whereabouts, StepOf(x, p, r)
    PROVE  LET k == Kind(p, chunk[x].state)
               l == Kind(r, chunk'[x].state)
           IN  /\ x \in Starting  <=> k = "starting"
               /\ x \in Polling   <=> k = "polling"
               /\ x \in Stopping  <=> k = "stopping"
               /\ x \in Starting' <=> l = "starting"
               /\ x \in Polling'  <=> l = "polling"
               /\ x \in Stopping' <=> l = "stopping"
               /\ Starting' \ {x} = Starting \ {x}
               /\ Polling' \ {x} = Polling \ {x}
               /\ Stopping' \ {x} = Stopping \ {x}
  <1>1. /\ x \in Chunk
        /\ \A u \in Place : At(x, u) <=> u = p
        /\ \A u \in Place : At(x, u)' <=> u = r
        /\ \A c \in Chunk \ {x}, u \in Place : At(c, u)' <=> At(c, u)
        /\ \A c \in Chunk \ {x} : chunk'[c] = chunk[c]
    BY DEF StepOf, Goes
  <1>2. /\ x \in Starting  <=> Kind(p, chunk[x].state) = "starting"
        /\ x \in Polling   <=> Kind(p, chunk[x].state) = "polling"
        /\ x \in Stopping  <=> Kind(p, chunk[x].state) = "stopping"
    BY <1>1 DEF Starting, Polling, Stopping, CountedAs, Kind, Place, Whereabouts
  <1>3. /\ x \in Starting'  <=> Kind(r, chunk'[x].state) = "starting"
        /\ x \in Polling'   <=> Kind(r, chunk'[x].state) = "polling"
        /\ x \in Stopping'  <=> Kind(r, chunk'[x].state) = "stopping"
    BY <1>1 DEF Starting, Polling, Stopping, CountedAs, Kind, Place, Whereabouts
  <1>4. /\ Starting' \ {x} = Starting \ {x}
        /\ Polling' \ {x} = Polling \ {x}
        /\ Stopping' \ {x} = Stopping \ {x}
    BY <1>1 DEF Starting, Polling, Stopping, CountedAs, Place
  <1>5. QED
    BY <1>2, <1>3, <1>4

\* The counters follow a chunk that goes from kind k to kind l.
NumStep(k, l) ==
    /\ num.starting' = num.starting + Delta(k, l, "starting")
    /\ num.polling' = num.polling + Delta(k, l, "polling")
    /\ num.stopping' = num.stopping + Delta(k, l, "stopping")

CountsMatch ==
    /\ num.starting = Cardinality(Starting)
    /\ num.polling = Cardinality(Polling)
    /\ num.stopping = Cardinality(Stopping)

LEMMA KindsFinite ==
    /\ IsFiniteSet(Starting) /\ IsFiniteSet(Polling) /\ IsFiniteSet(Stopping)
  <1>1. /\ Starting \in SUBSET Chunk /\ Polling \in SUBSET Chunk
        /\ Stopping \in SUBSET Chunk
    BY DEF Starting, Polling, Stopping
  <1>2. QED
    BY <1>1, ChunkFinite, FS_Subset

LEMMA CountStep ==
    ASSUME CountsMatch,
           NEW x, NEW p \in Whereabouts, NEW r \in Whereabouts, StepOf(x, p, r),
           NumStep(Kind(p, chunk[x].state), Kind(r, chunk'[x].state))
    PROVE  CountsMatch'
  <1> DEFINE k == Kind(p, chunk[x].state)
             l == Kind(r, chunk'[x].state)
  <1>1. /\ x \in Starting  <=> k = "starting"
        /\ x \in Polling   <=> k = "polling"
        /\ x \in Stopping  <=> k = "stopping"
        /\ x \in Starting' <=> l = "starting"
        /\ x \in Polling'  <=> l = "polling"
        /\ x \in Stopping' <=> l = "stopping"
        /\ Starting' \ {x} = Starting \ {x}
        /\ Polling' \ {x} = Polling \ {x}
        /\ Stopping' \ {x} = Stopping \ {x}
    BY KindOf
  <1>2. NumStep(k, l)
    OBVIOUS
  <1> HIDE DEF k, l
  <1>3. Cardinality(Starting') = Cardinality(Starting) + Delta(k, l, "starting")
    BY <1>1, KindsFinite, OneMore DEF Delta
  <1>4. Cardinality(Polling') = Cardinality(Polling) + Delta(k, l, "polling")
    BY <1>1, KindsFinite, OneMore DEF Delta
  <1>5. Cardinality(Stopping') = Cardinality(Stopping) + Delta(k, l, "stopping")
    BY <1>1, KindsFinite, OneMore DEF Delta
  <1>6. QED
    BY <1>2, <1>3, <1>4, <1>5 DEF CountsMatch, NumStep

\* What a step that moves one chunk has to show to keep PlacesOK.
LEMMA PlacesStep ==
    ASSUME PlacesOK, IndTypeOK', OneSpot', ClosedFirst', NoInternalError',
           NEW x, NEW p \in Whereabouts, NEW r \in Whereabouts, StepOf(x, p, r),
           closing => closing',
           r \in Place => Fits(x, r)',
           r = "away" => closing' \/ remote'[x] # "running",
           NumStep(Kind(p, chunk[x].state), Kind(r, chunk'[x].state)),
           loop' \in {"drainStop", "stopped"}
               => num'.starting = 0 /\ num'.polling = 0
    PROVE  PlacesOK'
  <1>1. CountsMatch
    BY DEF PlacesOK, CountsExact, CountsMatch
  <1>2. CountsMatch'
    BY <1>1, CountStep
  <1>3. /\ x \in Chunk
        /\ \A u \in Place : At(x, u)' <=> u = r
        /\ \A c \in Chunk \ {x}, u \in Place : At(c, u)' <=> At(c, u)
        /\ \A c \in Chunk \ {x} : chunk'[c] = chunk[c] /\ remote'[c] = remote[c]
    BY DEF StepOf, Goes
  <1>4. ChunksFit'
    <2>1. ASSUME NEW u \in Place, NEW c \in Chunk, At(c, u)'
          PROVE  Fits(c, u)'
      <3>1. CASE c = x
        BY <1>3, <2>1, <3>1
      <3>2. CASE c # x
        <4>1. Fits(c, u)
          BY <1>3, <2>1, <3>2 DEF PlacesOK, ChunksFit
        <4>2. chunk'[c] = chunk[c] /\ remote'[c] = remote[c]
          BY <1>3, <3>2
        <4>3. QED
          BY <4>1, <4>2 DEF Fits, Place
      <3>3. QED
        BY <3>1, <3>2
    <2>2. QED
      BY <2>1 DEF ChunksFit
  <1>5. NoOrphanWhileOpen'
    <2>1. ASSUME ~closing', NEW c \in Chunk, remote'[c] = "running"
          PROVE  Held(c)'
      <3>1. CASE c = x
        <4>1. r \in Place
          BY <2>1, <3>1 DEF Whereabouts
        <4>2. QED
          BY <1>3, <3>1, <4>1, HeldAt
      <3>2. CASE c # x
        <4>1. Held(c)
          BY <1>3, <2>1, <3>2 DEF PlacesOK, NoOrphanWhileOpen
        <4>2. QED
          BY <1>3, <3>2, <4>1, HeldAt
      <3>3. QED
        BY <3>1, <3>2
    <2>2. QED
      BY <2>1 DEF NoOrphanWhileOpen
  <1>6. CountsExact'
    BY <1>2 DEF CountsExact, CountsMatch
  <1>7. QED
    BY <1>4, <1>5, <1>6 DEF PlacesOK

(* The workers. *)

\* The channel a worker receives from, as a place.
Channel(w) ==
    CASE w = "starter" -> "start"
      [] w = "poller"  -> "poll"
      [] w = "stopper" -> "stop"

LEMMA WorkerPlaces ==
    ASSUME NEW w \in Worker
    PROVE  /\ w \in Place /\ Channel(w) \in Place /\ w # Channel(w)
           /\ Queues[w] = ring[w] /\ Queues[Channel(w)] = in[w]
           /\ "update" \in Place /\ "ready" \in Place
           /\ "update" \notin {w, Channel(w)}
  BY DEF Worker, Place, Channel, Queues

OthersSame(x) ==
    \A c \in Chunk \ {x} : chunk'[c] = chunk[c] /\ remote'[c] = remote[c]

LEMMA PushBackMoves ==
    ASSUME IndTypeOK, NEW w \in Worker, ring[w] # <<>>, PushBack(w),
           UNCHANGED <<ready, in>>
    PROVE  Moves(w, w) /\ Head(Queues[w]) = Current(w)
  <1>1. ring \in [Worker -> Seq(Chunk)]
    BY DEF IndTypeOK, TypeOK
  <1>2. /\ ring'[w] = Append(Tail(ring[w]), Head(ring[w]))
        /\ \A v \in Worker \ {w} : ring'[v] = ring[v]
        /\ UNCHANGED <<ready, in, update>>
    BY <1>1 DEF PushBack
  <1>3. \A u \in Place \ {w} : Queues'[u] = Queues[u]
    BY <1>2 DEF Queues, Place, Worker
  <1>4. Queues'[w] = ring'[w] /\ Queues[w] = ring[w]
    BY DEF Queues, Worker
  <1>5. QED
    BY <1>2, <1>3, <1>4 DEF Moves, TakesFrom, Current

\* w.out <- c, in the loop and in the worker's shutdown.
LEMMA SendOutMoves ==
    ASSUME IndTypeOK, NEW w \in Worker, ring[w] # <<>>, SendOut(w),
           UNCHANGED <<ready, in>>
    PROVE  Moves(w, "update") /\ Head(Queues[w]) = Current(w)
  <1>1. ring \in [Worker -> Seq(Chunk)]
    BY DEF IndTypeOK, TypeOK
  <1>2. /\ ring'[w] = Tail(ring[w]) /\ update' = Append(update, Head(ring[w]))
        /\ \A v \in Worker \ {w} : ring'[v] = ring[v]
        /\ UNCHANGED <<ready, in>>
    BY <1>1 DEF SendOut, Current
  <1>3. \A u \in Place \ {w, "update"} : Queues'[u] = Queues[u]
    BY <1>2 DEF Queues, Place, Worker
  <1>4. /\ Queues'[w] = ring'[w] /\ Queues[w] = ring[w] /\ w # "update"
        /\ Queues'["update"] = update' /\ Queues["update"] = update
    BY DEF Queues, Worker
  <1>5. QED
    BY <1>2, <1>3, <1>4 DEF Moves, TakesFrom, Current

\* A worker puts its current chunk x back into the ring, or hands it back.
LEMMA WorkerStepOf ==
    ASSUME IndTypeOK, OneSpot, NEW w \in Worker, ring[w] # <<>>,
           UNCHANGED <<ready, in>>, NEW x, x = Current(w), OthersSame(x)
    PROVE  /\ PushBack(w) => StepOf(x, w, w) /\ OneSpot'
           /\ SendOut(w) => StepOf(x, w, "update") /\ OneSpot'
           /\ x \in Chunk /\ At(x, w)
  <1>1. /\ w \in Place /\ "update" \in Place /\ Queues[w] = ring[w]
    BY WorkerPlaces
  <1>2. x \in Chunk /\ At(x, w)
    BY <1>1, HeadAt DEF Current
  <1>3. ASSUME PushBack(w)
        PROVE  StepOf(x, w, w) /\ OneSpot'
    BY <1>1, <1>3, PushBackMoves, MoveGoes DEF StepOf, OthersSame
  <1>4. ASSUME SendOut(w)
        PROVE  StepOf(x, w, "update") /\ OneSpot'
    BY <1>1, <1>4, SendOutMoves, MoveGoes DEF StepOf, OthersSame
  <1>5. QED
    BY <1>2, <1>3, <1>4

LEMMA SameNum ==
    ASSUME num \in NumType, NEW k, UNCHANGED num
    PROVE  NumStep(k, k)
  BY DEF NumStep, Delta, NumType

\* What a worker's step has to show.
LEMMA WorkerKeepsPlaces ==
    ASSUME PlacesOK, IndTypeOK', ClosedFirst', NEW w \in Worker, ring[w] # <<>>,
           UNCHANGED <<loop, num, closing, ready, in>>,
           \A s \in Stream : stream'[s].err = stream[s].err,
           NEW x, x = Current(w), OthersSame(x),
           \/ PushBack(w) /\ Fits(x, w)'
           \/ /\ SendOut(w) /\ Fits(x, "update")'
              /\ Kind("update", chunk'[x].state) = Kind(w, chunk[x].state)
    PROVE  PlacesOK'
  <1>1. IndTypeOK /\ OneSpot /\ num \in NumType
    BY DEF PlacesOK, IndTypeOK, TypeOK, NumType
  <1>2. NoInternalError'
    BY DEF PlacesOK, NoInternalError
  <1>3. loop' \in {"drainStop", "stopped"} => num'.starting = 0 /\ num'.polling = 0
    BY DEF PlacesOK, CountsExact
  <1>4. /\ w \in Whereabouts /\ "update" \in Whereabouts
        /\ w \in Place /\ "away" \notin Place /\ "update" # "away"
    BY WorkerPlaces DEF Whereabouts, Place
  <1>5. CASE PushBack(w) /\ Fits(x, w)'
    <2>1. StepOf(x, w, w) /\ OneSpot'
      BY <1>1, <1>5, WorkerStepOf
    <2>2. Kind(w, chunk[x].state) = Kind(w, chunk'[x].state)
      BY DEF Kind, Worker
    <2>3. NumStep(Kind(w, chunk[x].state), Kind(w, chunk'[x].state))
      BY <1>1, <2>2, SameNum
    <2>4. QED
      BY <1>2, <1>3, <1>4, <1>5, <2>1, <2>3, PlacesStep
  <1>6. CASE /\ SendOut(w) /\ Fits(x, "update")'
             /\ Kind("update", chunk'[x].state) = Kind(w, chunk[x].state)
    <2>1. StepOf(x, w, "update") /\ OneSpot'
      BY <1>1, <1>6, WorkerStepOf
    <2>2. NumStep(Kind(w, chunk[x].state), Kind("update", chunk'[x].state))
      BY <1>1, <1>6, SameNum
    <2>3. QED
      BY <1>2, <1>3, <1>4, <1>6, <2>1, <2>2, PlacesStep
  <1>7. QED
    BY <1>5, <1>6

LEMMA AnsweredFacts ==
    ASSUME PlacesOK, NEW w \in Worker, Answered(w)
    PROVE  /\ ring[w] # <<>> /\ ClosedFirst'
           /\ UNCHANGED <<loop, num, closing, ready, in>>
  <1>1. /\ pc[w] = "call" /\ pc' = [pc EXCEPT ![w] = "pop"]
        /\ UNCHANGED <<loop, num, closing, ready, in>>
    BY DEF Answered, mgrVars, userVars
  <1>2. ring[w] # <<>>
    BY <1>1 DEF PlacesOK, IndTypeOK, WorkersHaveChunk
  <1>3. ClosedFirst'
    BY <1>1 DEF PlacesOK, ClosedFirst, IndTypeOK, TypeOK
  <1>4. QED
    BY <1>1, <1>2, <1>3

\* The current chunk of a worker fits its ring, and its fields can be set.
LEMMA CurrentFits ==
    ASSUME PlacesOK, NEW w \in Worker, ring[w] # <<>>, NEW x, x = Current(w)
    PROVE  /\ x \in Chunk /\ Fits(x, w)
           /\ chunk \in [Chunk -> ChunkFields]
           /\ remote \in [Chunk -> {"none", "running", "ended"}]
  <1>1. w \in Place /\ Queues[w] = ring[w]
    BY WorkerPlaces
  <1>2. x \in Chunk /\ At(x, w)
    BY <1>1, HeadAt DEF Current, PlacesOK
  <1>3. QED
    BY <1>1, <1>2 DEF PlacesOK, ChunksFit, IndTypeOK, TypeOK

\* Another try leaves a chunk as it was, but for its error.
LEMMA RetryFields ==
    ASSUME chunk \in [Chunk -> ChunkFields], NEW w \in Worker, NEW e,
           NEW x \in Chunk, x = Current(w), Retry(w, e)
    PROVE  /\ chunk'[x].state = chunk[x].state /\ chunk'[x].err = e
           /\ \A c \in Chunk \ {x} : chunk'[c] = chunk[c]
           /\ PushBack(w) \/ SendOut(w)
  <1>1. chunk' = [chunk EXCEPT ![x].tmp = @ + 1, ![x].err = e]
    BY DEF Retry
  <1>2. chunk[x] \in ChunkFields
    OBVIOUS
  <1>3. chunk'[x] = [chunk[x] EXCEPT !.tmp = @ + 1, !.err = e]
    BY <1>1
  <1>4. chunk'[x].state = chunk[x].state /\ chunk'[x].err = e
    BY <1>2, <1>3 DEF ChunkFields
  <1>5. \A c \in Chunk \ {x} : chunk'[c] = chunk[c]
    BY <1>1
  <1>6. QED
    BY <1>4, <1>5 DEF Retry

LEMMA StarterAnswerPlaces ==
    ASSUME PlacesOK, IndTypeOK', StarterAnswer
    PROVE  PlacesOK'
  <1> DEFINE w == "starter"
  <1>1. w \in Worker /\ Answered(w)
    BY DEF StarterAnswer, StarterRetry, StarterLimited, StarterFails,
           StarterStarts, Worker
  <1>2. PICK x : x = Current(w)
    OBVIOUS
  <1>3. /\ ring[w] # <<>> /\ ClosedFirst'
        /\ UNCHANGED <<loop, num, closing, ready, in>>
    BY <1>1, AnsweredFacts
  <1>4. /\ x \in Chunk /\ Fits(x, w)
        /\ chunk \in [Chunk -> ChunkFields]
        /\ remote \in [Chunk -> {"none", "running", "ended"}]
    BY <1>1, <1>2, <1>3, CurrentFits
  <1>5. UNCHANGED stream
    BY DEF StarterAnswer, StarterRetry, StarterLimited, StarterFails,
           StarterStarts
  <1>6. /\ OthersSame(x)
        /\ \/ PushBack(w) /\ Fits(x, w)'
           \/ /\ SendOut(w) /\ Fits(x, "update")'
              /\ Kind("update", chunk'[x].state) = Kind(w, chunk[x].state)
    <2>1. chunk[x].state = "starting" /\ remote[x] # "running"
      BY <1>4 DEF Fits
    <2>2. CASE StarterRetry
      <3>1. Retry(w, "StartQueryError") /\ UNCHANGED remote
        BY <2>2 DEF StarterRetry
      <3>2. /\ chunk'[x].state = "starting" /\ chunk'[x].err = "StartQueryError"
            /\ \A c \in Chunk \ {x} : chunk'[c] = chunk[c]
            /\ PushBack(w) \/ SendOut(w)
        BY <1>1, <1>2, <1>4, <2>1, <3>1, RetryFields
      <3>3. QED
        BY <2>1, <3>1, <3>2 DEF OthersSame, Fits, Kind, StartingErr
    <2>3. CASE StarterLimited \/ StarterFails
      <3>1. /\ SendOut(w) /\ UNCHANGED remote
            /\ \E e \in StartingErr : chunk' = [chunk EXCEPT ![x].err = e]
        BY <1>2, <2>3 DEF StarterLimited, StarterFails, StartingErr
      <3>2. QED
        BY <1>4, <2>1, <3>1 DEF OthersSame, Fits, Kind, ChunkFields
    <2>4. CASE StarterStarts
      <3>1. /\ SendOut(w) /\ remote' = [remote EXCEPT ![x] = "running"]
            /\ chunk' = [chunk EXCEPT ![x].state = "started", ![x].err = "nil"]
        BY <1>2, <2>4 DEF StarterStarts
      <3>2. QED
        BY <1>4, <2>1, <3>1 DEF OthersSame, Fits, Kind, ChunkFields
    <2>5. QED
      BY <2>2, <2>3, <2>4 DEF StarterAnswer
  <1>7. QED
    BY <1>1, <1>2, <1>3, <1>5, <1>6, WorkerKeepsPlaces

LEMMA PollerAnswerPlaces ==
    ASSUME PlacesOK, IndTypeOK', PollerAnswer
    PROVE  PlacesOK'
  <1> DEFINE w == "poller"
  <1>1. w \in Worker /\ Answered(w)
    BY DEF PollerAnswer, PollerRetry, PollerInconclusive, PollerUnexpected,
           PollerMaxed, PollerCompletes, PollerRestarts, PollerTerminal, Worker
  <1>2. PICK x : x = Current(w)
    OBVIOUS
  <1>3. /\ ring[w] # <<>> /\ ClosedFirst'
        /\ UNCHANGED <<loop, num, closing, ready, in>>
    BY <1>1, AnsweredFacts
  <1>4. /\ x \in Chunk /\ Fits(x, w)
        /\ chunk \in [Chunk -> ChunkFields]
        /\ remote \in [Chunk -> {"none", "running", "ended"}]
    BY <1>1, <1>2, <1>3, CurrentFits
  <1>5. \A s \in Stream : stream'[s].err = stream[s].err
    <2>1. CASE PollerCompletes
      <3>1. stream' = [stream EXCEPT ![x.stream].blocks = Append(@, x)]
        BY <1>2, <2>1 DEF PollerCompletes
      <3>2. stream \in [Stream -> StreamFields]
        BY DEF PlacesOK, IndTypeOK, TypeOK
      <3>3. QED
        BY <3>1, <3>2 DEF StreamFields
    <2>2. CASE ~PollerCompletes
      BY <2>2 DEF PollerAnswer, PollerRetry, PollerInconclusive,
           PollerUnexpected, PollerMaxed, PollerRestarts, PollerTerminal
    <2>3. QED
      BY <2>1, <2>2
  <1>6. /\ OthersSame(x)
        /\ \/ PushBack(w) /\ Fits(x, w)'
           \/ /\ SendOut(w) /\ Fits(x, "update")'
              /\ Kind("update", chunk'[x].state) = Kind(w, chunk[x].state)
    <2>1. chunk[x].state = "polling"
      BY <1>4 DEF Fits
    <2>2. CASE PollerRetry
      <3>1. Retry(w, "UnexpectedQueryError") /\ UNCHANGED remote
        BY <2>2 DEF PollerRetry
      <3>2. /\ chunk'[x].state = "polling"
            /\ chunk'[x].err = "UnexpectedQueryError"
            /\ \A c \in Chunk \ {x} : chunk'[c] = chunk[c]
            /\ PushBack(w) \/ SendOut(w)
        BY <1>1, <1>2, <1>4, <2>1, <3>1, RetryFields
      <3>3. QED
        BY <2>1, <3>1, <3>2 DEF OthersSame, Fits, Kind, PollingErr, EndedErr
    <2>3. CASE PollerInconclusive
      <3>1. /\ PushBack(w) /\ UNCHANGED remote
            /\ chunk' = [chunk EXCEPT ![x].err = "nil"]
        BY <1>2, <2>3 DEF PollerInconclusive
      <3>2. QED
        BY <1>4, <2>1, <3>1 DEF OthersSame, Fits, ChunkFields
    <2>4. ASSUME NEW ended \in BOOLEAN, PollerUnexpected(ended)
          PROVE  /\ OthersSame(x) /\ SendOut(w) /\ Fits(x, "update")'
                 /\ Kind("update", chunk'[x].state) = Kind(w, chunk[x].state)
      <3>1. /\ SendOut(w)
            /\ remote' \in {remote, [remote EXCEPT ![x] = "ended"]}
            /\ chunk' = [chunk EXCEPT ![x].err = "UnexpectedQueryError"]
        BY <1>2, <2>4 DEF PollerUnexpected
      <3>2. QED
        BY <1>4, <2>1, <3>1
           DEF OthersSame, Fits, Kind, ChunkFields, PollingErr, EndedErr
    <2>5. CASE PollerMaxed \/ PollerRestarts \/ PollerTerminal
      <3>1. /\ SendOut(w) /\ remote' = [remote EXCEPT ![x] = "ended"]
            /\ \E e \in EndedErr :
                  \/ chunk' = [chunk EXCEPT ![x].err = e]
                  \/ chunk' = [chunk EXCEPT ![x].restart = @ + 1, ![x].err = e]
        BY <1>2, <2>5
           DEF PollerMaxed, PollerRestarts, PollerTerminal, EndedErr
      <3>2. /\ chunk'[x].state = "polling" /\ chunk'[x].err \in EndedErr
            /\ \A c \in Chunk \ {x} : chunk'[c] = chunk[c]
        <4>1. chunk[x] \in ChunkFields
          BY <1>4
        <4>2. PICK e \in EndedErr :
                  \/ chunk'[x] = [chunk[x] EXCEPT !.err = e]
                  \/ chunk'[x] = [chunk[x] EXCEPT !.restart = @ + 1, !.err = e]
          BY <1>4, <3>1
        <4>3. chunk'[x].state = "polling" /\ chunk'[x].err \in EndedErr
          BY <2>1, <4>1, <4>2 DEF ChunkFields
        <4>4. \A c \in Chunk \ {x} : chunk'[c] = chunk[c]
          BY <1>4, <3>1
        <4>5. QED
          BY <4>3, <4>4
      <3>3. QED
        BY <1>4, <2>1, <3>1, <3>2 DEF OthersSame, Fits, Kind, PollingErr, EndedErr
    <2>6. CASE PollerCompletes
      <3>1. /\ SendOut(w) /\ remote' = [remote EXCEPT ![x] = "ended"]
            /\ chunk' = [chunk EXCEPT ![x].state = "complete", ![x].err = "nil"]
        BY <1>2, <2>6 DEF PollerCompletes
      <3>2. QED
        BY <1>4, <2>1, <3>1 DEF OthersSame, Fits, Kind, ChunkFields
    <2>7. QED
      BY <2>2, <2>3, <2>4, <2>5, <2>6 DEF PollerAnswer
  <1>7. QED
    BY <1>1, <1>2, <1>3, <1>5, <1>6, WorkerKeepsPlaces

\* What a step has to show that leaves all chunks where and as they are.
LEMMA PlacesStay ==
    ASSUME PlacesOK, IndTypeOK', ClosedFirst', NoInternalError',
           UNCHANGED <<ready, in, ring, update, chunk, remote, num>>,
           closing => closing',
           loop' \in {"drainStop", "stopped"}
               => num.starting = 0 /\ num.polling = 0
    PROVE  PlacesOK'
  <1>1. UNCHANGED Queues
    BY DEF Queues
  <1>2. \A c \in Chunk, u \in Place : At(c, u)' <=> At(c, u)
    BY <1>1 DEF At
  <1>3. OneSpot'
    BY <1>1, <1>2 DEF PlacesOK, OneSpot
  <1>4. ChunksFit'
    <2>1. ASSUME NEW u \in Place, NEW c \in Chunk, At(c, u)'
          PROVE  Fits(c, u)'
      <3>1. Fits(c, u)
        BY <1>2, <2>1 DEF PlacesOK, ChunksFit
      <3>2. QED
        BY <3>1 DEF Fits, Place
    <2>2. QED
      BY <2>1 DEF ChunksFit
  <1>5. NoOrphanWhileOpen'
    BY DEF PlacesOK, NoOrphanWhileOpen, Held
  <1>6. CountsExact'
    <2>1. Starting' = Starting /\ Polling' = Polling /\ Stopping' = Stopping
      BY <1>2 DEF Starting, Polling, Stopping, CountedAs, Place
    <2>2. QED
      BY <2>1 DEF PlacesOK, CountsExact
  <1>7. QED
    BY <1>3, <1>4, <1>5, <1>6 DEF PlacesOK

LEMMA StopperAnswerPlaces ==
    ASSUME PlacesOK, IndTypeOK', StopperAnswer
    PROVE  PlacesOK'
  <1> DEFINE w == "stopper"
  <1>1. CASE StopperPanics
    <2>1. /\ UNCHANGED <<closing, ready, in, ring, update, chunk, remote, num,
                         stream>>
          /\ pc' = [v \in Worker |-> "panic"] /\ loop' = "panic"
      BY <1>1 DEF StopperPanics, userVars
    <2>2. ClosedFirst' /\ NoInternalError'
      BY <2>1 DEF ClosedFirst, PlacesOK, NoInternalError
    <2>3. QED
      BY <2>1, <2>2, PlacesStay
  <1>2. CASE StopperRetry \/ StopperFinishes
    <2>1. w \in Worker /\ Answered(w) /\ UNCHANGED stream
      BY <1>2 DEF StopperRetry, StopperFinishes, Worker
    <2>2. PICK x : x = Current(w)
      OBVIOUS
    <2>3. /\ ring[w] # <<>> /\ ClosedFirst'
          /\ UNCHANGED <<loop, num, closing, ready, in>>
      BY <2>1, AnsweredFacts
    <2>4. /\ x \in Chunk /\ Fits(x, w)
          /\ chunk \in [Chunk -> ChunkFields]
          /\ remote \in [Chunk -> {"none", "running", "ended"}]
      BY <2>1, <2>2, <2>3, CurrentFits
    <2>5. chunk[x].state = "stopping"
      BY <2>4 DEF Fits
    <2>6. CASE StopperRetry
      <3>1. /\ Retry(w, chunk[x].err)
            /\ remote' = IF chunk[x].tmp + 1 < MaxTries[w]
                         THEN remote ELSE [remote EXCEPT ![x] = "ended"]
        BY <2>2, <2>6 DEF StopperRetry
      <3>2. /\ chunk'[x].state = "stopping"
            /\ \A c \in Chunk \ {x} : chunk'[c] = chunk[c]
        BY <2>1, <2>2, <2>4, <2>5, <3>1, RetryFields
      <3>3. OthersSame(x)
        BY <2>4, <3>1, <3>2 DEF OthersSame
      <3>4. CASE chunk[x].tmp + 1 < MaxTries[w]
        <4>1. PushBack(w) /\ Fits(x, w)'
          BY <2>2, <3>1, <3>2, <3>4 DEF Retry, Fits
        <4>2. QED
          BY <2>1, <2>2, <2>3, <3>3, <4>1, WorkerKeepsPlaces
      <3>5. CASE ~(chunk[x].tmp + 1 < MaxTries[w])
        <4>1. SendOut(w) /\ remote'[x] = "ended"
          BY <2>2, <2>4, <3>1, <3>5 DEF Retry
        <4>2. Fits(x, "update")' /\ Kind("update", chunk'[x].state) = Kind(w, chunk[x].state)
          BY <2>5, <3>2, <4>1 DEF Fits, Kind
        <4>3. QED
          BY <2>1, <2>2, <2>3, <3>3, <4>1, <4>2, WorkerKeepsPlaces
      <3>6. QED
        BY <3>4, <3>5
    <2>7. CASE StopperFinishes
      <3>1. /\ SendOut(w) /\ remote' = [remote EXCEPT ![x] = "ended"]
            /\ UNCHANGED chunk
        BY <2>2, <2>7 DEF StopperFinishes
      <3>2. /\ OthersSame(x) /\ Fits(x, "update")'
            /\ Kind("update", chunk'[x].state) = Kind(w, chunk[x].state)
        BY <2>4, <2>5, <3>1 DEF OthersSame, Fits, Kind
      <3>3. QED
        BY <2>1, <2>2, <2>3, <3>1, <3>2, WorkerKeepsPlaces
    <2>8. QED
      BY <1>2, <2>6, <2>7
  <1>3. QED
    BY <1>1, <1>2 DEF StopperAnswer

LEMMA WaitBeginPlaces ==
    ASSUME PlacesOK, IndTypeOK', NEW w \in Worker, WaitClosing(w) \/ Begin(w)
    PROVE  PlacesOK'
  <1>1. /\ pc[w] = "wait" /\ UNCHANGED <<loop, num, closing, ready, in, stream, remote>>
        /\ \E p \in {"release", "call", "pop"} :
              pc' = [pc EXCEPT ![w] = p] /\ (p = "release" => closing)
    BY DEF WaitClosing, Begin, mgrVars, userVars
  <1>2. ring[w] # <<>> /\ pc \in [Worker -> {"pop", "wait", "call", "release", "done", "panic"}]
    BY <1>1 DEF PlacesOK, IndTypeOK, TypeOK, WorkersHaveChunk
  <1>3. ClosedFirst' /\ NoInternalError'
    BY <1>1, <1>2 DEF PlacesOK, ClosedFirst, NoInternalError
  <1>4. PICK x : x = Current(w)
    OBVIOUS
  <1>5. /\ x \in Chunk /\ Fits(x, w)
        /\ chunk \in [Chunk -> ChunkFields]
    BY <1>2, <1>4, CurrentFits
  <1>6. CASE PushBack(w) /\ UNCHANGED chunk
    <2>1. OthersSame(x) /\ Fits(x, w)'
      BY <1>1, <1>5, <1>6 DEF OthersSame, Fits, Worker
    <2>2. QED
      BY <1>1, <1>2, <1>3, <1>4, <1>6, <2>1, WorkerKeepsPlaces
  <1>7. CASE /\ SendOut(w)
             /\ chunk' = IF w = "poller"
                         THEN [chunk EXCEPT ![x].err = "errStopChunk"]
                         ELSE chunk
             /\ w # "stopper"
    <2>1. OthersSame(x)
      BY <1>1, <1>5, <1>7 DEF OthersSame
    <2>2. CASE w = "poller"
      <3>1. chunk'[x].state = "polling" /\ chunk'[x].err = "errStopChunk"
            /\ chunk[x].state = "polling"
        BY <1>5, <1>7, <2>2 DEF Fits, ChunkFields
      <3>2. /\ Fits(x, "update")'
            /\ Kind("update", chunk'[x].state) = Kind(w, chunk[x].state)
        BY <2>2, <3>1 DEF Fits, Kind, PollingErr, EndedErr
      <3>3. QED
        BY <1>1, <1>2, <1>3, <1>4, <1>7, <2>1, <3>2, WorkerKeepsPlaces
    <2>3. CASE w = "starter"
      <3>1. /\ chunk'[x].state = "starting" /\ chunk'[x].err \in StartingErr
            /\ chunk[x].state = "starting" /\ remote'[x] # "running"
        BY <1>1, <1>5, <1>7, <2>3 DEF Fits, ChunkFields
      <3>2. /\ Fits(x, "update")'
            /\ Kind("update", chunk'[x].state) = Kind(w, chunk[x].state)
        BY <2>3, <3>1 DEF Fits, Kind
      <3>3. QED
        BY <1>1, <1>2, <1>3, <1>4, <1>7, <2>1, <3>2, WorkerKeepsPlaces
    <2>4. QED
      BY <1>7, <2>2, <2>3 DEF Worker
  <1>8. CASE UNCHANGED <<ring, update, chunk>>
    <2>1. loop' \in {"drainStop", "stopped"} => num.starting = 0 /\ num.polling = 0
      BY <1>1 DEF PlacesOK, CountsExact
    <2>2. QED
      BY <1>1, <1>3, <1>8, <2>1, PlacesStay
  <1>9. QED
    BY <1>4, <1>6, <1>7, <1>8 DEF WaitClosing, Begin

\* A worker receives a chunk, or releases one it did not receive.
LEMMA ReceivesMoves ==
    ASSUME IndTypeOK, NEW w \in Worker, in[w] # <<>>,
           in' = [in EXCEPT ![w] = Tail(@)], UNCHANGED ready
    PROVE  /\ ring' = [ring EXCEPT ![w] = Append(@, Head(in[w]))] /\ UNCHANGED update
                => Moves(Channel(w), w)
           /\ update' = Append(update, Head(in[w])) /\ UNCHANGED ring
                => Moves(Channel(w), "update")
  <1>1. ring \in [Worker -> Seq(Chunk)] /\ in \in [Worker -> Seq(Chunk)]
    BY DEF IndTypeOK, TypeOK
  <1>2. /\ Queues[Channel(w)] = in[w] /\ Queues'[Channel(w)] = Tail(in[w])
        /\ w # Channel(w) /\ Channel(w) # "update"
    BY <1>1 DEF Queues, Channel, Worker
  <1>3. ASSUME ring' = [ring EXCEPT ![w] = Append(@, Head(in[w]))], UNCHANGED update
        PROVE  Moves(Channel(w), w)
    <2>1. \A u \in Place \ {Channel(w), w} : Queues'[u] = Queues[u]
      BY <1>1, <1>3 DEF Queues, Place, Channel, Worker
    <2>2. Queues'[w] = Append(Queues[w], Head(in[w]))
      <3>1. ring'[w] = Append(ring[w], Head(in[w]))
        BY <1>1, <1>3
      <3>2. Queues'[w] = ring'[w] /\ Queues[w] = ring[w]
        BY DEF Queues, Worker
      <3>3. QED
        BY <3>1, <3>2
    <2>3. QED
      BY <1>2, <2>1, <2>2 DEF Moves, TakesFrom
  <1>4. ASSUME update' = Append(update, Head(in[w])), UNCHANGED ring
        PROVE  Moves(Channel(w), "update")
    <2>1. \A u \in Place \ {Channel(w), "update"} : Queues'[u] = Queues[u]
      <3>1. \A v \in Worker \ {w} : in'[v] = in[v]
        BY <1>1
      <3>2. QED
        BY <1>4, <3>1 DEF Queues, Place, Channel, Worker
    <2>2. Queues'["update"] = Append(Queues["update"], Head(in[w]))
      BY <1>4 DEF Queues
    <2>3. QED
      BY <1>2, <2>1, <2>2 DEF Moves, TakesFrom
  <1>5. QED
    BY <1>3, <1>4

LEMMA ReceivesStepOf ==
    ASSUME IndTypeOK, OneSpot, NEW w \in Worker, in[w] # <<>>,
           in' = [in EXCEPT ![w] = Tail(@)], UNCHANGED ready,
           NEW x, x = Head(in[w]), OthersSame(x)
    PROVE  /\ ring' = [ring EXCEPT ![w] = Append(@, Head(in[w]))] /\ UNCHANGED update
                => StepOf(x, Channel(w), w) /\ OneSpot'
           /\ update' = Append(update, Head(in[w])) /\ UNCHANGED ring
                => StepOf(x, Channel(w), "update") /\ OneSpot'
           /\ x \in Chunk /\ At(x, Channel(w))
  <1>1. /\ w \in Place /\ "update" \in Place /\ Channel(w) \in Place
        /\ Queues[Channel(w)] = in[w]
    BY WorkerPlaces
  <1>2. x \in Chunk /\ At(x, Channel(w))
    BY <1>1, HeadAt
  <1>3. ASSUME ring' = [ring EXCEPT ![w] = Append(@, Head(in[w]))], UNCHANGED update
        PROVE  StepOf(x, Channel(w), w) /\ OneSpot'
    BY <1>1, <1>3, ReceivesMoves, MoveGoes DEF StepOf, OthersSame
  <1>4. ASSUME update' = Append(update, Head(in[w])), UNCHANGED ring
        PROVE  StepOf(x, Channel(w), "update") /\ OneSpot'
    BY <1>1, <1>4, ReceivesMoves, MoveGoes DEF StepOf, OthersSame
  <1>5. QED
    BY <1>2, <1>3, <1>4

LEMMA PopPlaces ==
    ASSUME PlacesOK, IndTypeOK', NEW w \in Worker, Pop(w)
    PROVE  PlacesOK'
  <1>1. /\ UNCHANGED <<loop, num, closing, ready, update, stream, remote>>
        /\ IndTypeOK /\ OneSpot /\ ChunksFit /\ num \in NumType
        /\ pc \in [Worker -> {"pop", "wait", "call", "release", "done", "panic"}]
        /\ chunk \in [Chunk -> ChunkFields]
    BY DEF Pop, mgrVars, userVars, PlacesOK, IndTypeOK, TypeOK, NumType
  <1>2. NoInternalError'
    BY <1>1 DEF PlacesOK, NoInternalError
  <1>3. loop' \in {"drainStop", "stopped"} => num'.starting = 0 /\ num'.polling = 0
    BY <1>1 DEF PlacesOK, CountsExact
  <1>4. CASE /\ in[w] # <<>> /\ in' = [in EXCEPT ![w] = Tail(@)]
             /\ ring' = [ring EXCEPT ![w] = Append(@, Head(in[w]))]
             /\ chunk' = [chunk EXCEPT ![Head(in[w])].tmp = 0]
             /\ pc' = [pc EXCEPT ![w] = "wait"]
    <2>1. PICK x : x = Head(in[w])
      OBVIOUS
    <2>2. OthersSame(x)
      BY <1>1, <1>4, <2>1 DEF OthersSame
    <2>3. /\ StepOf(x, Channel(w), w) /\ OneSpot'
          /\ x \in Chunk /\ At(x, Channel(w))
      BY <1>1, <1>4, <2>1, <2>2, ReceivesStepOf
    <2>4. ClosedFirst'
      BY <1>1, <1>4 DEF PlacesOK, ClosedFirst
    <2>5. chunk'[x].state = chunk[x].state /\ chunk'[x].err = chunk[x].err
      BY <1>1, <1>4, <2>1, <2>3 DEF ChunkFields
    <2>6. Fits(x, Channel(w))
      BY <1>1, <2>3, WorkerPlaces DEF ChunksFit
    <2>7. Fits(x, w)'
      BY <1>1, <2>5, <2>6 DEF Fits, Channel, Worker
    <2>8. Kind(Channel(w), chunk[x].state) = Kind(w, chunk'[x].state)
      BY DEF Kind, Channel, Worker
    <2>9. NumStep(Kind(Channel(w), chunk[x].state), Kind(w, chunk'[x].state))
      BY <1>1, <2>8, SameNum
    <2>10. w \in Whereabouts /\ Channel(w) \in Whereabouts /\ w # "away"
      BY WorkerPlaces DEF Whereabouts, Worker
    <2>11. QED
      BY <1>1, <1>2, <1>3, <2>3, <2>4, <2>7, <2>9, <2>10, PlacesStep
  <1>5. CASE /\ UNCHANGED <<in, ring, chunk>>
             /\ \E p \in {"wait", "release"} :
                   /\ pc' = [pc EXCEPT ![w] = p]
                   /\ p = "release" => InClosed(w)
    <2>1. ClosedFirst'
      <3>1. InClosed(w) => closing
        BY DEF InClosed, PlacesOK, ClosedFirst
      <3>2. QED
        BY <1>1, <1>5, <3>1 DEF PlacesOK, ClosedFirst
    <2>2. QED
      BY <1>1, <1>2, <1>3, <1>5, <2>1, PlacesStay
  <1>6. QED
    BY <1>4, <1>5 DEF Pop

LEMMA ReleasePlaces ==
    ASSUME PlacesOK, IndTypeOK', NEW w \in Worker,
           ReleaseInProgress(w) \/ ReleaseStray(w) \/ WorkerDone(w)
    PROVE  PlacesOK'
  <1>1. /\ pc[w] = "release" /\ UNCHANGED <<loop, num, closing, ready, stream>>
        /\ IndTypeOK /\ OneSpot /\ ChunksFit /\ num \in NumType
        /\ pc \in [Worker -> {"pop", "wait", "call", "release", "done", "panic"}]
        /\ chunk \in [Chunk -> ChunkFields]
        /\ remote \in [Chunk -> {"none", "running", "ended"}]
    BY DEF ReleaseInProgress, ReleaseStray, ReleaseChunk, WorkerDone, mgrVars,
           userVars, PlacesOK, IndTypeOK, TypeOK, NumType
  <1>2. NoInternalError' /\ closing
    BY <1>1 DEF PlacesOK, NoInternalError, ClosedFirst
  <1>3. loop' \in {"drainStop", "stopped"} => num'.starting = 0 /\ num'.polling = 0
    BY <1>1 DEF PlacesOK, CountsExact
  \* Chunk x is released from p, which is the ring or the channel of w.
  <1>4. ASSUME NEW p \in {w, Channel(w)}, NEW x, ReleaseChunk(w, x),
               x \in Chunk, At(x, p),
               OthersSame(x) => StepOf(x, p, "update") /\ OneSpot'
        PROVE  PlacesOK'
    <2>1. /\ chunk' = [chunk EXCEPT ![x].err = "ErrClosed"] /\ UNCHANGED pc
          /\ remote' = IF w = "stopper" THEN [remote EXCEPT ![x] = "ended"]
                                        ELSE remote
      BY <1>4 DEF ReleaseChunk
    <2>2. /\ OthersSame(x) /\ chunk'[x].err = "ErrClosed"
          /\ chunk'[x].state = chunk[x].state
      BY <1>1, <1>4, <2>1 DEF OthersSame, ChunkFields
    <2>3. Fits(x, p)
      BY <1>1, <1>4, WorkerPlaces DEF ChunksFit
    <2>4. /\ w = "starter" => chunk[x].state = "starting" /\ remote[x] # "running"
          /\ w = "poller" => chunk[x].state = "polling"
          /\ w = "stopper" => chunk[x].state = "stopping"
      BY <1>4, <2>3 DEF Fits, Channel
    <2>5. w # "poller" => remote'[x] # "running"
      BY <1>1, <1>4, <2>1, <2>4 DEF Worker
    <2>6. Fits(x, "update")'
      BY <1>1, <1>2, <2>2, <2>4, <2>5
         DEF Fits, Worker, StartingErr, PollingErr, EndedErr
    <2>7. Kind(p, chunk[x].state) = Kind("update", chunk'[x].state)
      BY <1>4, <2>2, <2>4 DEF Kind, Channel, Worker
    <2>8. NumStep(Kind(p, chunk[x].state), Kind("update", chunk'[x].state))
      BY <1>1, <2>7, SameNum
    <2>9. ClosedFirst'
      BY <1>1, <1>2, <2>1 DEF PlacesOK, ClosedFirst
    <2>10. p \in Whereabouts /\ "update" \in Whereabouts /\ "update" # "away"
      BY <1>4, WorkerPlaces DEF Whereabouts
    <2>11. QED
      BY <1>1, <1>2, <1>3, <1>4, <2>2, <2>6, <2>8, <2>9, <2>10, PlacesStep
  <1>5. CASE ReleaseInProgress(w)
    <2>1. PICK x : x = Current(w)
      OBVIOUS
    <2>2. ring[w] # <<>> /\ ReleaseChunk(w, x) /\ SendOut(w) /\ UNCHANGED <<ready, in>>
      BY <1>1, <1>5, <2>1 DEF ReleaseInProgress, ReleaseChunk, SendOut
    <2>3. x \in Chunk /\ At(x, w)
      <3>1. Queues[w] = ring[w] /\ w \in Place
        BY WorkerPlaces
      <3>2. QED
        BY <1>1, <2>1, <2>2, <3>1, HeadAt DEF Current
    <2>4. OthersSame(x) => StepOf(x, w, "update") /\ OneSpot'
      BY <1>1, <2>1, <2>2, WorkerStepOf
    <2>5. QED
      BY <1>4, <2>2, <2>3, <2>4
  <1>6. CASE ReleaseStray(w)
    <2>1. PICK x : x = Head(in[w])
      OBVIOUS
    <2>2. /\ in[w] # <<>> /\ ReleaseChunk(w, x) /\ UNCHANGED <<ready, ring>>
          /\ in' = [in EXCEPT ![w] = Tail(@)]
          /\ update' = Append(update, Head(in[w]))
      BY <1>1, <1>6, <2>1 DEF ReleaseStray, ReleaseChunk
    <2>3. x \in Chunk /\ At(x, Channel(w))
      <3>1. Queues[Channel(w)] = in[w] /\ Channel(w) \in Place
        BY WorkerPlaces
      <3>2. QED
        BY <1>1, <2>1, <2>2, <3>1, HeadAt
    <2>4. OthersSame(x) => StepOf(x, Channel(w), "update") /\ OneSpot'
      BY <1>1, <2>1, <2>2, ReceivesStepOf
    <2>5. QED
      BY <1>4, <2>2, <2>3, <2>4
  <1>7. CASE WorkerDone(w)
    <2>1. /\ UNCHANGED <<in, ring, update, chunk, remote>>
          /\ pc' = [pc EXCEPT ![w] = "done"]
      BY <1>7 DEF WorkerDone
    <2>2. ClosedFirst'
      BY <1>1, <1>2, <2>1 DEF PlacesOK, ClosedFirst
    <2>3. QED
      BY <1>1, <1>2, <1>3, <2>1, <2>2, PlacesStay
  <1>8. QED
    BY <1>5, <1>6, <1>7

(* The manager loop. *)

LEMMA UpdatedStepOf ==
    ASSUME IndTypeOK, OneSpot, update # <<>>, update' = Tail(update),
           UNCHANGED ring, NEW x, x = Updated, OthersSame(x)
    PROVE  /\ x \in Chunk /\ At(x, "update")
           /\ ready' = Append(ready, Updated) /\ UNCHANGED in
                 => StepOf(x, "update", "ready") /\ OneSpot'
           /\ \A w \in Worker :
                 UNCHANGED ready /\ in' = [in EXCEPT ![w] = Append(@, Updated)]
                     => StepOf(x, "update", Channel(w)) /\ OneSpot'
           /\ UNCHANGED <<ready, in>> => StepOf(x, "update", "away") /\ OneSpot'
  <1>1. /\ "update" \in Place /\ "ready" \in Place /\ "away" \notin Place
        /\ Queues["update"] = update /\ Queues'["update"] = Tail(update)
        /\ Queues["ready"] = ready /\ Queues'["ready"] = ready'
    BY DEF Place, Queues
  <1>2. x \in Chunk /\ At(x, "update")
    BY <1>1, HeadAt DEF Updated
  <1>3. ASSUME ready' = Append(ready, Updated), UNCHANGED in
        PROVE  StepOf(x, "update", "ready") /\ OneSpot'
    <2>1. \A u \in Place \ {"update", "ready"} : Queues'[u] = Queues[u]
      BY <1>3 DEF Queues, Place, Worker
    <2>2. Moves("update", "ready")
      BY <1>1, <1>3, <2>1 DEF Moves, TakesFrom, Updated
    <2>3. QED
      BY <1>1, <2>2, MoveGoes DEF StepOf, OthersSame, Updated
  <1>4. ASSUME NEW w \in Worker, UNCHANGED ready,
               in' = [in EXCEPT ![w] = Append(@, Updated)]
        PROVE  StepOf(x, "update", Channel(w)) /\ OneSpot'
    <2>1. in \in [Worker -> Seq(Chunk)]
      BY DEF IndTypeOK, TypeOK
    <2>2. /\ in'[w] = Append(in[w], Updated)
          /\ \A v \in Worker \ {w} : in'[v] = in[v]
      BY <1>4, <2>1
    <2>3. \A u \in Place \ {"update", Channel(w)} : Queues'[u] = Queues[u]
      BY <1>4, <2>2 DEF Queues, Place, Worker, Channel
    <2>4. /\ Queues'[Channel(w)] = in'[w] /\ Queues[Channel(w)] = in[w]
          /\ Channel(w) # "update" /\ Channel(w) \in Place
      BY DEF Queues, Channel, Worker, Place
    <2>5. Moves("update", Channel(w))
      BY <1>1, <2>2, <2>3, <2>4 DEF Moves, TakesFrom, Updated
    <2>6. QED
      BY <1>1, <2>4, <2>5, MoveGoes DEF StepOf, OthersSame, Updated
  <1>5. ASSUME UNCHANGED <<ready, in>>
        PROVE  StepOf(x, "update", "away") /\ OneSpot'
    <2>1. \A u \in Place \ {"update", "away"} : Queues'[u] = Queues[u]
      BY <1>5 DEF Queues, Place, Worker
    <2>2. TakesFrom("update", "away")
      BY <1>1, <2>1 DEF TakesFrom
    <2>3. QED
      BY <1>1, <2>2, DropGoes DEF StepOf, OthersSame, Updated
  <1>6. QED
    BY <1>2, <1>3, <1>4, <1>5

\* The errors that setErr may be called with.
LEMMA KillKeepsPublic ==
    ASSUME NoInternalError, stream \in [Stream -> StreamFields],
           NEW c \in Chunk, NEW e, e \notin InternalErr, KillStream(c, e)
    PROVE  NoInternalError'
  <1>1. c.stream \in Stream
    BY ChunkElim
  <1>2. \A st \in StreamFields :
            SetErr(st, e).err \in {st.err, e}
    BY DEF SetErr, StreamFields
  <1>3. QED
    BY <1>1, <1>2 DEF KillStream, NoInternalError

LEMMA CompletedErr ==
    ASSUME NEW st \in StreamFields, NEW kids \in Nat
    PROVE  Completed(st, kids).err \in {st.err, "EOF", "nil"}
  <1> DEFINE done == [st EXCEPT !.m = @ + 1, !.n = @ + kids]
  <1>1. done.err = st.err
    BY DEF StreamFields
  <1>2. \A e : SetErr(done, e).err \in {done.err, e}
    <2> TAKE e
    <2>1. done \in [{"err", "next", "m", "n", "blocks"} -> UNION {Err, Nat, Seq(Chunk), {st.m + 1, st.n + kids}}]
      BY DEF StreamFields
    <2> HIDE DEF done
    <2>2. QED
      BY <2>1 DEF SetErr
  <1> HIDE DEF done
  <1>3. QED
    BY <1>1, <1>2 DEF Completed, done

\* What a step has to show in which the loop receives a chunk and sends it
\* on to r.
LEMMA LoopKeepsPlaces ==
    ASSUME PlacesOK, IndTypeOK', NoInternalError',
           update # <<>>, update' = Tail(update),
           UNCHANGED <<ring, pc, closing, remote>>,
           loop' \in {loop, "fill"},
           loop' \in {"drainStop", "stopped"}
               => num'.starting = 0 /\ num'.polling = 0,
           NEW x, x = Updated, \A c \in Chunk \ {x} : chunk'[c] = chunk[c],
           NEW r,
           \/ r = "ready" /\ ready' = Append(ready, Updated) /\ UNCHANGED in
           \/ \E w \in Worker :
                 /\ r = Channel(w) /\ UNCHANGED ready
                 /\ in' = [in EXCEPT ![w] = Append(@, Updated)]
           \/ r = "away" /\ UNCHANGED <<ready, in>>,
           r # "away" => Fits(x, r)',
           r = "away" => closing \/ remote[x] # "running",
           NumStep(Kind("update", chunk[x].state), Kind(r, chunk'[x].state))
    PROVE  PlacesOK'
  <1>1. IndTypeOK /\ OneSpot
    BY DEF PlacesOK
  <1>2. OthersSame(x)
    BY DEF OthersSame
  <1>3. StepOf(x, "update", r) /\ OneSpot'
    BY <1>1, <1>2, UpdatedStepOf
  <1>4. ClosedFirst'
    BY DEF PlacesOK, ClosedFirst
  <1>5. "update" \in Whereabouts /\ r \in Whereabouts /\ (r \in Place <=> r # "away")
    BY WorkerPlaces DEF Whereabouts, Place
  <1>6. QED
    BY <1>3, <1>4, <1>5, PlacesStep

\* The chunk the loop receives, and what Receive says of the step.
LEMMA ReceiveFacts ==
    ASSUME PlacesOK, update # <<>>, NEW x, x = Updated
    PROVE  /\ x \in Chunk /\ Fits(x, "update") /\ x.stream \in Stream
           /\ chunk \in [Chunk -> ChunkFields]
           /\ stream \in [Stream -> StreamFields]
           /\ NoInternalError /\ num \in NumType
  <1>1. "update" \in Place /\ Queues["update"] = update
    BY DEF Place, Queues
  <1>2. x \in Chunk /\ At(x, "update")
    BY <1>1, HeadAt DEF Updated, PlacesOK
  <1>3. QED
    BY <1>1, <1>2, ChunkElim DEF PlacesOK, ChunksFit, IndTypeOK, TypeOK, NumType

LEMMA HandleStartPlaces ==
    ASSUME PlacesOK, IndTypeOK',
           HandleReduceParallel \/ HandleStartFailure \/ HandleChunkStarted
    PROVE  PlacesOK'
  <1>1. /\ update # <<>> /\ update' = Tail(update) /\ loop' = "fill"
        /\ UNCHANGED <<ring, pc, closing, remote>>
    BY DEF HandleReduceParallel, HandleStartFailure, HandleChunkStarted, Receive,
           userVars, workerVars
  <1>2. PICK x : x = Updated
    OBVIOUS
  <1>3. /\ x \in Chunk /\ Fits(x, "update")
        /\ chunk \in [Chunk -> ChunkFields]
        /\ stream \in [Stream -> StreamFields]
        /\ NoInternalError /\ num \in NumType
    BY <1>1, <1>2, ReceiveFacts
  <1>4. CASE HandleReduceParallel
    <2>1. /\ chunk[x].state = "starting" /\ chunk[x].err = "errReduceParallel"
          /\ num' = [num EXCEPT !.starting = @ - 1]
          /\ ready' = Append(ready, Updated) /\ UNCHANGED <<in, chunk, stream>>
      BY <1>2, <1>4 DEF HandleReduceParallel, Receive
    <2>2. Fits(x, "ready")'
      BY <1>1, <1>3, <2>1 DEF Fits
    <2>3. NumStep(Kind("update", chunk[x].state), Kind("ready", chunk'[x].state))
      BY <1>3, <2>1 DEF NumStep, Kind, Delta, NumType
    <2>4. NoInternalError'
      BY <1>3, <2>1 DEF NoInternalError
    <2>5. QED
      BY <1>1, <1>2, <2>1, <2>2, <2>3, <2>4, LoopKeepsPlaces
  <1>5. CASE HandleStartFailure
    <2>1. /\ chunk[x].state = "starting" /\ chunk[x].err # "errReduceParallel"
          /\ num' = [num EXCEPT !.starting = @ - 1]
          /\ KillStream(x, chunk[x].err) /\ UNCHANGED <<ready, in, chunk>>
      BY <1>2, <1>5 DEF HandleStartFailure, Receive
    <2>2. remote[x] # "running" /\ chunk[x].err \notin InternalErr
      BY <1>3, <2>1 DEF Fits, StartingErr, InternalErr
    <2>3. NumStep(Kind("update", chunk[x].state), Kind("away", chunk'[x].state))
      BY <1>3, <2>1 DEF NumStep, Kind, Delta, NumType
    <2>4. NoInternalError'
      BY <1>3, <2>1, <2>2, KillKeepsPublic
    <2>5. QED
      BY <1>1, <1>2, <2>1, <2>2, <2>3, <2>4, LoopKeepsPlaces
  <1>6. CASE HandleChunkStarted
    <2>1. /\ chunk[x].state = "started"
          /\ num' = [num EXCEPT !.starting = @ - 1, !.polling = @ + 1]
          /\ chunk' = [chunk EXCEPT ![x].state = "polling"]
          /\ in' = [in EXCEPT !["poller"] = Append(@, Updated)]
          /\ UNCHANGED <<ready, stream>>
      BY <1>2, <1>6 DEF HandleChunkStarted, Receive
    <2>2. /\ chunk'[x].state = "polling"
          /\ \A c \in Chunk \ {x} : chunk'[c] = chunk[c]
      BY <1>3, <2>1 DEF ChunkFields
    <2>3. NumStep(Kind("update", chunk[x].state), Kind("poll", chunk'[x].state))
      BY <1>3, <2>1, <2>2 DEF NumStep, Kind, Delta, NumType
    <2>4. NoInternalError' /\ Fits(x, "poll")'
      BY <1>3, <2>1, <2>2 DEF NoInternalError, Fits
    <2>5. "poller" \in Worker /\ Channel("poller") = "poll"
      BY DEF Worker, Channel
    <2>6. QED
      BY <1>1, <1>2, <2>1, <2>2, <2>3, <2>4, <2>5, LoopKeepsPlaces
  <1>7. QED
    BY <1>4, <1>5, <1>6

LEMMA HandlePollingPlaces ==
    ASSUME PlacesOK, IndTypeOK',
           HandleRestart \/ HandleStop \/ HandleUnexpected \/ HandleTerminal
    PROVE  PlacesOK'
  <1>1. /\ update # <<>> /\ update' = Tail(update) /\ loop' = "fill"
        /\ chunk[Updated].state = "polling"
        /\ UNCHANGED <<ring, pc, closing, remote>>
    BY DEF HandleRestart, HandleStop, HandleUnexpected, HandleTerminal, Receive,
           userVars, workerVars
  <1>2. PICK x : x = Updated
    OBVIOUS
  <1>3. /\ x \in Chunk /\ Fits(x, "update") /\ chunk[x].state = "polling"
        /\ chunk \in [Chunk -> ChunkFields]
        /\ stream \in [Stream -> StreamFields]
        /\ NoInternalError /\ num \in NumType
    BY <1>1, <1>2, ReceiveFacts
  <1>4. CASE HandleRestart
    <2>1. /\ chunk[x].err = "errRestartChunk"
          /\ num' = [num EXCEPT !.polling = @ - 1]
          /\ chunk' = [chunk EXCEPT ![x].err = "nil"]
          /\ ready' = Append(ready, Updated) /\ UNCHANGED <<in, stream>>
      BY <1>2, <1>4 DEF HandleRestart
    <2>2. /\ chunk'[x].state = "polling" /\ chunk'[x].err = "nil"
          /\ \A c \in Chunk \ {x} : chunk'[c] = chunk[c]
      BY <1>3, <2>1 DEF ChunkFields
    <2>3. Fits(x, "ready")'
      BY <1>1, <1>3, <2>1, <2>2 DEF Fits, EndedErr
    <2>4. NumStep(Kind("update", chunk[x].state), Kind("ready", chunk'[x].state))
      BY <1>3, <2>1 DEF NumStep, Kind, Delta, NumType
    <2>5. NoInternalError'
      BY <1>3, <2>1 DEF NoInternalError
    <2>6. QED
      BY <1>1, <1>2, <2>1, <2>2, <2>3, <2>4, <2>5, LoopKeepsPlaces
  <1>5. CASE HandleStop \/ HandleUnexpected
    <2>1. /\ num' = [num EXCEPT !.polling = @ - 1, !.stopping = @ + 1]
          /\ chunk' = [chunk EXCEPT ![x].state = "stopping"]
          /\ in' = [in EXCEPT !["stopper"] = Append(@, Updated)]
          /\ UNCHANGED ready
      BY <1>2, <1>5 DEF HandleStop, HandleUnexpected, StopChunk
    <2>2. /\ chunk'[x].state = "stopping"
          /\ \A c \in Chunk \ {x} : chunk'[c] = chunk[c]
      BY <1>3, <2>1 DEF ChunkFields
    <2>3. Fits(x, "stop")'
      BY <2>2 DEF Fits
    <2>4. NumStep(Kind("update", chunk[x].state), Kind("stop", chunk'[x].state))
      BY <1>3, <2>1, <2>2 DEF NumStep, Kind, Delta, NumType
    <2>5. NoInternalError'
      <3>1. CASE HandleStop
        BY <1>3, <3>1 DEF HandleStop, NoInternalError
      <3>2. CASE HandleUnexpected
        BY <1>2, <1>3, <3>2, KillKeepsPublic DEF HandleUnexpected, InternalErr
      <3>3. QED
        BY <1>5, <3>1, <3>2
    <2>6. "stopper" \in Worker /\ Channel("stopper") = "stop"
      BY DEF Worker, Channel
    <2>7. QED
      BY <1>1, <1>2, <2>1, <2>2, <2>3, <2>4, <2>5, <2>6, LoopKeepsPlaces
  <1>6. CASE HandleTerminal
    <2>1. /\ chunk[x].err \in {"TerminalQueryStatusError", "ErrClosed"}
          /\ num' = [num EXCEPT !.polling = @ - 1]
          /\ KillStream(x, chunk[x].err) /\ UNCHANGED <<ready, in, chunk>>
      BY <1>2, <1>6 DEF HandleTerminal
    <2>2. closing \/ remote[x] # "running"
      BY <1>3, <2>1 DEF Fits, EndedErr
    <2>3. NumStep(Kind("update", chunk[x].state), Kind("away", chunk'[x].state))
      BY <1>3, <2>1 DEF NumStep, Kind, Delta, NumType
    <2>4. NoInternalError'
      BY <1>3, <2>1, KillKeepsPublic DEF InternalErr
    <2>5. QED
      BY <1>1, <1>2, <2>1, <2>2, <2>3, <2>4, LoopKeepsPlaces
  <1>7. QED
    BY <1>4, <1>5, <1>6

LEMMA HandleEndPlaces ==
    ASSUME PlacesOK, IndTypeOK', HandleChunkCompletion \/ HandleStopped
    PROVE  PlacesOK'
  <1>1. /\ update # <<>> /\ update' = Tail(update) /\ loop' = "fill"
        /\ UNCHANGED <<ring, pc, closing, remote, ready, in, chunk>>
    BY DEF HandleChunkCompletion, HandleStopped, Receive, userVars, workerVars
  <1>2. PICK x : x = Updated
    OBVIOUS
  <1>3. /\ x \in Chunk /\ Fits(x, "update") /\ x.stream \in Stream
        /\ stream \in [Stream -> StreamFields]
        /\ NoInternalError /\ num \in NumType
    BY <1>1, <1>2, ReceiveFacts
  <1>4. CASE HandleChunkCompletion
    <2>1. /\ chunk[x].state = "complete"
          /\ num' = [num EXCEPT !.polling = @ - 1]
          /\ stream' = [stream EXCEPT ![x.stream] = Completed(@, 0)]
      BY <1>2, <1>4 DEF HandleChunkCompletion, Receive
    <2>2. remote[x] # "running"
      BY <1>3, <2>1 DEF Fits
    <2>3. NumStep(Kind("update", chunk[x].state), Kind("away", chunk'[x].state))
      BY <1>3, <2>1 DEF NumStep, Kind, Delta, NumType
    <2>4. NoInternalError'
      <3>1. Completed(stream[x.stream], 0).err \in {stream[x.stream].err, "EOF", "nil"}
        BY <1>3, CompletedErr
      <3>2. QED
        BY <1>3, <2>1, <3>1 DEF NoInternalError, InternalErr
    <2>5. QED
      BY <1>1, <1>2, <2>2, <2>3, <2>4, LoopKeepsPlaces
  <1>5. CASE HandleStopped
    <2>1. /\ chunk[x].state = "stopping" /\ UNCHANGED stream
          /\ num' = [num EXCEPT !.stopping = @ - 1]
      BY <1>2, <1>5 DEF HandleStopped, Receive
    <2>2. remote[x] # "running"
      BY <1>3, <2>1 DEF Fits
    <2>3. NumStep(Kind("update", chunk[x].state), Kind("away", chunk'[x].state))
      BY <1>3, <2>1 DEF NumStep, Kind, Delta, NumType
    <2>4. NoInternalError'
      BY <1>3, <2>1 DEF NoInternalError
    <2>5. QED
      BY <1>1, <1>2, <2>2, <2>3, <2>4, LoopKeepsPlaces
  <1>6. QED
    BY <1>4, <1>5

LEMMA DrainPlaces ==
    ASSUME PlacesOK, IndTypeOK', DrainLive \/ DrainDead \/ DrainStopping
    PROVE  PlacesOK'
  <1>1. /\ update # <<>> /\ update' = Tail(update)
        /\ loop = "drain" /\ loop' = "drain"
        /\ UNCHANGED <<ring, pc, closing, remote, ready>>
    BY DEF DrainLive, DrainDead, DrainStopping, Draining, userVars, workerVars
  <1>2. PICK x : x = Updated
    OBVIOUS
  <1>3. /\ x \in Chunk /\ Fits(x, "update") /\ closing
        /\ chunk \in [Chunk -> ChunkFields]
        /\ stream \in [Stream -> StreamFields]
        /\ NoInternalError /\ num \in NumType
    BY <1>1, <1>2, ReceiveFacts DEF PlacesOK, ClosedFirst
  <1>4. NoInternalError'
    <2>1. CASE DrainLive \/ DrainDead
      BY <1>2, <1>3, <2>1, KillKeepsPublic DEF DrainLive, DrainDead, InternalErr
    <2>2. CASE DrainStopping
      BY <1>3, <2>2 DEF DrainStopping, NoInternalError
    <2>3. QED
      BY <2>1, <2>2
  <1>5. CASE DrainLive
    <2>1. /\ chunk[x].state \in {"started", "polling"}
          /\ num' = IF chunk[x].state = "started"
                    THEN [num EXCEPT !.starting = @ - 1, !.stopping = @ + 1]
                    ELSE [num EXCEPT !.polling = @ - 1, !.stopping = @ + 1]
          /\ chunk' = [chunk EXCEPT ![x].state = "stopping"]
          /\ in' = [in EXCEPT !["stopper"] = Append(@, Updated)]
      BY <1>2, <1>5 DEF DrainLive, Draining, StopChunk
    <2>2. /\ chunk'[x].state = "stopping"
          /\ \A c \in Chunk \ {x} : chunk'[c] = chunk[c]
      BY <1>3, <2>1 DEF ChunkFields
    <2>3. Fits(x, "stop")'
      BY <2>2 DEF Fits
    <2>4. NumStep(Kind("update", chunk[x].state), Kind("stop", chunk'[x].state))
      BY <1>3, <2>1, <2>2 DEF NumStep, Kind, Delta, NumType
    <2>5. "stopper" \in Worker /\ Channel("stopper") = "stop"
      BY DEF Worker, Channel
    <2>6. QED
      BY <1>1, <1>2, <1>4, <2>1, <2>2, <2>3, <2>4, <2>5, LoopKeepsPlaces
  <1>6. CASE DrainDead
    <2>1. /\ chunk[x].state \in {"starting", "complete"}
          /\ num' = IF chunk[x].state = "starting"
                    THEN [num EXCEPT !.starting = @ - 1]
                    ELSE [num EXCEPT !.polling = @ - 1]
          /\ UNCHANGED <<in, chunk>>
      BY <1>2, <1>6 DEF DrainDead, Draining
    <2>2. NumStep(Kind("update", chunk[x].state), Kind("away", chunk'[x].state))
      BY <1>3, <2>1 DEF NumStep, Kind, Delta, NumType
    <2>3. QED
      BY <1>1, <1>2, <1>3, <1>4, <2>1, <2>2, LoopKeepsPlaces
  <1>7. CASE DrainStopping
    <2>1. /\ chunk[x].state = "stopping" /\ UNCHANGED <<in, chunk>>
          /\ num' = [num EXCEPT !.stopping = @ - 1]
      BY <1>2, <1>7 DEF DrainStopping, Draining
    <2>2. NumStep(Kind("update", chunk[x].state), Kind("away", chunk'[x].state))
      BY <1>3, <2>1 DEF NumStep, Kind, Delta, NumType
    <2>3. QED
      BY <1>1, <1>2, <1>3, <1>4, <2>1, <2>2, LoopKeepsPlaces
  <1>8. QED
    BY <1>5, <1>6, <1>7

\* Shutdown may take the last chunks back without looking at them: starter
\* and poller have none left, so they are all stopping.
LEMMA LastStopping ==
    ASSUME PlacesOK, DrainStop, NEW x, x = Updated
    PROVE  chunk[x].state = "stopping"
  <1>1. update # <<>> /\ loop = "drainStop"
    BY DEF DrainStop
  <1>2. num.starting = 0 /\ num.polling = 0
    BY <1>1 DEF PlacesOK, CountsExact
  <1>3. Starting = {} /\ Polling = {}
    BY <1>2, KindsFinite, FS_EmptySet DEF PlacesOK, CountsExact
  <1>4. x \in Chunk /\ At(x, "update") /\ Fits(x, "update")
    BY <1>1, HeadAt, ReceiveFacts DEF PlacesOK, Queues, Place, Updated
  <1>5. chunk[x].state \notin {"starting", "started", "polling", "complete"}
    BY <1>3, <1>4 DEF Starting, Polling, CountedAs
  <1>6. QED
    BY <1>4, <1>5 DEF Fits

LEMMA DrainStopPlaces ==
    ASSUME PlacesOK, IndTypeOK', DrainStop
    PROVE  PlacesOK'
  <1>1. /\ update # <<>> /\ update' = Tail(update)
        /\ loop = "drainStop" /\ loop' = "drainStop"
        /\ num' = [num EXCEPT !.stopping = @ - 1]
        /\ UNCHANGED <<ring, pc, closing, remote, ready, in, chunk, stream>>
    BY DEF DrainStop, userVars, workerVars
  <1>2. PICK x : x = Updated
    OBVIOUS
  <1>3. /\ x \in Chunk /\ Fits(x, "update") /\ closing
        /\ NoInternalError /\ num \in NumType
    BY <1>1, <1>2, ReceiveFacts DEF PlacesOK, ClosedFirst
  <1>4. num.starting = 0 /\ num.polling = 0
    BY <1>1 DEF PlacesOK, CountsExact
  <1>5. chunk[x].state = "stopping"
    BY <1>2, LastStopping
  <1>6. NumStep(Kind("update", chunk[x].state), Kind("away", chunk'[x].state))
    BY <1>1, <1>3, <1>5 DEF NumStep, Kind, Delta, NumType
  <1>7. NoInternalError' /\ num'.starting = 0 /\ num'.polling = 0
    BY <1>1, <1>3, <1>4 DEF NoInternalError, NumType
  <1>8. QED
    BY <1>1, <1>2, <1>3, <1>6, <1>7, LoopKeepsPlaces

LEMMA FillReadyPlaces ==
    ASSUME PlacesOK, IndTypeOK', FillReady
    PROVE  PlacesOK'
  <1>1. PICK x : x = Head(ready)
    OBVIOUS
  <1>2. /\ ready # <<>> /\ ready' = Tail(ready) /\ loop = "fill"
        /\ chunk' = [chunk EXCEPT ![x].state = "starting"]
        /\ num' = [num EXCEPT !.starting = @ + 1]
        /\ in' = [in EXCEPT !["starter"] = Append(@, x)]
        /\ UNCHANGED <<closing, ring, pc, loop, update, remote, stream>>
    BY <1>1 DEF FillReady, Launch, userVars, workerVars
  <1>3. /\ IndTypeOK /\ OneSpot /\ ChunksFit /\ num \in NumType
        /\ chunk \in [Chunk -> ChunkFields] /\ in \in [Worker -> Seq(Chunk)]
    BY DEF PlacesOK, IndTypeOK, TypeOK, NumType
  <1>4. /\ Queues["ready"] = ready /\ "ready" \in Place /\ "start" \in Place
        /\ "away" \notin Place
    BY DEF Queues, Place
  <1>5. x \in Chunk /\ At(x, "ready")
    BY <1>1, <1>2, <1>3, <1>4, HeadAt
  <1>6. Fits(x, "ready")
    BY <1>3, <1>4, <1>5 DEF ChunksFit
  <1>7. Moves("ready", "start")
    <2>1. \A u \in Place \ {"ready", "start"} : Queues'[u] = Queues[u]
      BY <1>2, <1>3 DEF Queues, Place, Worker
    <2>2. /\ Queues'["ready"] = Tail(ready)
          /\ Queues'["start"] = Append(Queues["start"], x)
      BY <1>2, <1>3 DEF Queues, Worker
    <2>3. QED
      BY <1>1, <1>2, <1>4, <2>1, <2>2 DEF Moves, TakesFrom
  <1>8. /\ chunk'[x].state = "starting" /\ chunk'[x].err = chunk[x].err
        /\ \A c \in Chunk \ {x} : chunk'[c] = chunk[c]
    BY <1>2, <1>3, <1>5 DEF ChunkFields
  <1>9. StepOf(x, "ready", "start") /\ OneSpot'
    BY <1>1, <1>2, <1>3, <1>4, <1>7, <1>8, MoveGoes DEF StepOf
  <1>10. Fits(x, "start")'
    BY <1>2, <1>6, <1>8 DEF Fits, StartingErr
  <1>11. NumStep(Kind("ready", chunk[x].state), Kind("start", chunk'[x].state))
    BY <1>2, <1>3 DEF NumStep, Kind, Delta, NumType
  <1>12. ClosedFirst' /\ NoInternalError'
    BY <1>2 DEF PlacesOK, ClosedFirst, NoInternalError
  <1>13. "ready" \in Whereabouts /\ "start" \in Whereabouts
    BY <1>4 DEF Whereabouts
  <1>14. QED
    BY <1>2, <1>4, <1>9, <1>10, <1>11, <1>12, <1>13, PlacesStep

LEMMA RootUnused ==
    ASSUME IndTypeOK, RangesFresh, NEW s \in Stream,
           stream[s].next < NumRoots(Query[s]),
           NEW x, x = Root(s, stream[s].next)
    PROVE  /\ x \in Chunk /\ x.stream = s /\ x.start = MadeUpTo(s) /\ Unused(x)
  <1>1. stream[s].next \in Nat
    BY DEF IndTypeOK, TypeOK, StreamFields
  <1>2. x \in Chunk
    BY <1>1, RootIsChunk
  <1>3. x.stream = s /\ x.start = MadeUpTo(s)
    BY DEF Root, MadeUpTo
  <1>4. x.start \in Nat
    BY <1>2, ChunkElim
  <1>5. QED
    BY <1>2, <1>3, <1>4 DEF RangesFresh

LEMMA FillNextPlaces ==
    ASSUME PlacesOK, RangesFresh, IndTypeOK', FillNext
    PROVE  PlacesOK'
  <1>1. PICK s \in pq :
            /\ stream' = [stream EXCEPT ![s].next = @ + 1]
            /\ Launch(Root(s, stream[s].next))
    BY DEF FillNext
  <1>2. PICK x : x = Root(s, stream[s].next)
    OBVIOUS
  <1>3. /\ loop = "fill" /\ UNCHANGED ready
        /\ chunk' = [chunk EXCEPT ![x].state = "starting"]
        /\ num' = [num EXCEPT !.starting = @ + 1]
        /\ in' = [in EXCEPT !["starter"] = Append(@, x)]
        /\ UNCHANGED <<closing, ring, pc, loop, update, remote>>
    BY <1>1, <1>2 DEF FillNext, Launch, userVars, workerVars
  <1>4. /\ IndTypeOK /\ OneSpot /\ num \in NumType
        /\ chunk \in [Chunk -> ChunkFields] /\ in \in [Worker -> Seq(Chunk)]
        /\ stream \in [Stream -> StreamFields]
        /\ s \in Stream /\ stream[s].next < NumRoots(Query[s])
    BY DEF PlacesOK, IndTypeOK, TypeOK, NumType, HeapHasRoots
  <1>5. x \in Chunk /\ Unused(x)
    BY <1>2, <1>4, RootUnused
  <1>6. /\ "start" \in Place /\ "away" \notin Place
        /\ Queues'["start"] = Append(Queues["start"], x)
        /\ \A u \in Place \ {"start"} : Queues'[u] = Queues[u]
    BY <1>3, <1>4 DEF Queues, Place, Worker
  <1>7. /\ chunk'[x].state = "starting" /\ chunk'[x].err = "nil"
        /\ \A c \in Chunk \ {x} : chunk'[c] = chunk[c]
        /\ remote'[x] = "none"
    BY <1>3, <1>4, <1>5 DEF ChunkFields, Unused, NewChunk
  <1>8. StepOf(x, "away", "start") /\ OneSpot'
    BY <1>3, <1>4, <1>5, <1>6, <1>7, CreateGoes DEF StepOf, Unused
  <1>9. Fits(x, "start")'
    BY <1>7 DEF Fits, StartingErr
  <1>10. NumStep(Kind("away", chunk[x].state), Kind("start", chunk'[x].state))
    BY <1>3, <1>4 DEF NumStep, Kind, Delta, NumType
  <1>11. ClosedFirst'
    BY <1>3 DEF PlacesOK, ClosedFirst
  <1>12. NoInternalError'
    BY <1>1, <1>4 DEF PlacesOK, NoInternalError, StreamFields
  <1>13. "away" \in Whereabouts /\ "start" \in Whereabouts
    BY <1>6 DEF Whereabouts
  <1>14. QED
    BY <1>3, <1>6, <1>8, <1>9, <1>10, <1>11, <1>12, <1>13, PlacesStep

LEMMA ControlPlaces ==
    ASSUME PlacesOK, IndTypeOK', FillDone \/ Exit \/ CloseStreams \/ Stopped
    PROVE  PlacesOK'
  <1>1. UNCHANGED <<ready, in, ring, update, chunk, remote, num, closing, pc>>
    BY DEF FillDone, Exit, CloseStreams, Stopped, userVars, workerVars
  <1>2. /\ num \in NumType
        /\ num.starting \in Nat /\ num.polling \in Nat
    BY KindsFinite, FS_CardinalityType
       DEF PlacesOK, IndTypeOK, TypeOK, NumType, CountsExact
  <1>3. ClosedFirst'
    BY <1>1 DEF FillDone, Exit, CloseStreams, Stopped, PlacesOK, ClosedFirst
  <1>4. NoInternalError'
    <2>1. CASE CloseStreams
      <3>1. \A st \in StreamFields : SetErr(st, "ErrClosed").err = "ErrClosed"
        BY DEF SetErr, StreamFields
      <3>2. QED
        BY <2>1, <3>1 DEF CloseStreams, NoInternalError, PlacesOK, IndTypeOK,
                          TypeOK, InternalErr
    <2>2. CASE ~CloseStreams
      BY <2>2 DEF FillDone, Exit, Stopped, NoInternalError, PlacesOK
    <2>3. QED
      BY <2>1, <2>2
  <1>5. loop' \in {"drainStop", "stopped"} => num.starting = 0 /\ num.polling = 0
    <2>1. CASE CloseStreams
      BY <1>2, <2>1 DEF CloseStreams
    <2>2. CASE FillDone \/ Exit
      BY <2>2 DEF FillDone, Exit
    <2>3. CASE Stopped
      BY <2>3 DEF Stopped, PlacesOK, CountsExact
    <2>4. QED
      BY <2>1, <2>2, <2>3
  <1>6. QED
    BY <1>1, <1>3, <1>4, <1>5, PlacesStay

LEMMA ProgramPlaces ==
    ASSUME PlacesOK, IndTypeOK', ProgramStep
    PROVE  PlacesOK'
  <1>1. /\ UNCHANGED <<ready, in, ring, update, chunk, remote, num, pc>>
        /\ loop' \in {loop, "fill"}
        /\ closing => closing'
    <2>1. CASE Close
      BY <2>1, Zenon DEF Close, mgrVars, workerVars
    <2>2. ASSUME NEW s \in Stream,
                 SubmitQuery(s) \/ StreamClose(s) \/ ReadError(s)
          PROVE  /\ UNCHANGED <<ready, in, ring, update, chunk, remote, num, pc>>
                 /\ loop' \in {loop, "fill"} /\ UNCHANGED closing
      BY <2>2 DEF SubmitQuery, StreamClose, ReadError, mgrVars, workerVars,
                  userVars
    <2>3. QED
      BY <2>1, <2>2 DEF ProgramStep
  <1>2. ClosedFirst'
    BY <1>1 DEF PlacesOK, ClosedFirst
  <1>3. NoInternalError'
    <2>1. ASSUME NEW s \in Stream, StreamClose(s)
          PROVE  NoInternalError'
      <3>1. /\ stream \in [Stream -> StreamFields] /\ NoInternalError
            /\ stream' = [stream EXCEPT ![s].err = "ErrClosed",
                                       ![s].blocks = <<>>]
        BY <2>1 DEF StreamClose, PlacesOK, IndTypeOK, TypeOK
      <3>2. \A u \in Stream : stream'[u].err \in {stream[u].err, "ErrClosed"}
        BY <3>1 DEF StreamFields
      <3>3. QED
        BY <3>1, <3>2 DEF NoInternalError, InternalErr
    <2>2. CASE UNCHANGED stream
      BY <2>2 DEF NoInternalError, PlacesOK
    <2>3. QED
      BY <2>1, <2>2 DEF ProgramStep, Close, SubmitQuery, ReadError
  <1>4. loop' \in {"drainStop", "stopped"} => num.starting = 0 /\ num.polling = 0
    BY <1>1 DEF PlacesOK, CountsExact
  <1>5. QED
    BY <1>1, <1>2, <1>3, <1>4, PlacesStay

\* Splitting a chunk makes proper parts of it that do not overlap and leave
\* nothing out.
LEMMA ChildrenFacts ==
    ASSUME NEW c \in Chunk, Splittable(QueryOf(c), c)
    PROVE  LET kids == Children(c)
           IN  /\ kids \in Seq(Chunk) /\ NoRepeat(kids)
               /\ \A k \in DOMAIN kids : PartOf(kids[k], c)
               /\ \A j, k \in DOMAIN kids : j # k => Apart(kids[j], kids[k])
               /\ \A t \in Int : Covers(c, t) =>
                     \E k \in DOMAIN kids : Covers(kids[k], t)
  <1> DEFINE until == SplitUntil(QueryOf(c))
             rs == SplitRange(c, until)
             kids == Children(c)
  <1>1. /\ c.start \in Nat /\ c.end \in Nat /\ c.start < c.end
        /\ until \in Nat \ {0} /\ until < Duration(c)
    BY ChunkElim, QueryDurations DEF Splittable, Duration
  <1>2. kids \in Seq(Chunk)
    BY ChildrenAreChunks
  <1>3. kids = [k \in DOMAIN rs |->
            [stream |-> c.stream, start |-> rs[k].start, end |-> rs[k].end]]
    BY DEF Children
  <1> HIDE DEF until
  <1>4. PICK n \in 2 .. splitBits :
            /\ DOMAIN rs = 1 .. n
            /\ rs[1].start = c.start /\ rs[n].end = c.end
            /\ \A k \in 1 .. n :
                  /\ rs[k] \in TimeRange
                  /\ c.start <= rs[k].start /\ rs[k].end <= c.end
                  /\ Duration(rs[k]) < Duration(c)
                  /\ k < n => rs[k].end = rs[k + 1].start
    BY <1>1, SplitPartition
  <1>5. /\ DOMAIN kids = 1 .. n
        /\ \A k \in 1 .. n : /\ kids[k].start = rs[k].start
                             /\ kids[k].end = rs[k].end
                             /\ kids[k].stream = c.stream
    BY <1>3, <1>4
  <1> HIDE DEF rs, kids
  <1>6. n \in 2 .. 4
    BY DEF splitBits
  <1>7. \A k \in 1 .. n : /\ rs[k].start \in Nat /\ rs[k].end \in Nat
                          /\ rs[k].start < rs[k].end
    BY <1>4 DEF TimeRange
  <1>8. \A k \in DOMAIN kids : PartOf(kids[k], c)
    <2> TAKE k \in DOMAIN kids
    <2>1. k \in 1 .. n /\ Duration(rs[k]) < Duration(c)
      BY <1>4, <1>5
    <2>2. kids[k] # c
      <3>1. rs[k].end - rs[k].start < c.end - c.start
        BY <2>1 DEF Duration
      <3>2. QED
        BY <1>1, <1>5, <1>7, <2>1, <3>1
    <2>3. QED
      BY <1>4, <1>5, <2>1, <2>2 DEF PartOf
  <1>9. ASSUME NEW j \in 1 .. n, NEW k \in 1 .. n, j < k
        PROVE  rs[j].end <= rs[k].start
    <2>1. \A i \in 1 .. n - 1 : rs[i].end = rs[i + 1].start
      <3>1. \A i \in 1 .. n - 1 : i \in 1 .. n /\ i < n
        BY <1>6
      <3>2. QED
        BY <1>4, <3>1
    <2>2. CASE k = j + 1
      BY <1>6, <1>7, <1>9, <2>1, <2>2
    <2>3. CASE k = j + 2
      <3>1. rs[j].end = rs[j + 1].start /\ rs[j + 1].end = rs[k].start
        BY <1>6, <2>1, <2>3
      <3>2. QED
        BY <1>6, <1>7, <2>3, <3>1
    <2>4. CASE k = j + 3
      <3>1. /\ rs[j].end = rs[j + 1].start /\ rs[j + 1].end = rs[j + 2].start
            /\ rs[j + 2].end = rs[k].start
        BY <1>6, <2>1, <2>4
      <3>2. QED
        BY <1>6, <1>7, <2>4, <3>1
    <2>5. QED
      BY <1>6, <1>9, <2>2, <2>3, <2>4
  <1>10. \A j, k \in DOMAIN kids : j # k => Apart(kids[j], kids[k])
    <2> TAKE j, k \in DOMAIN kids
    <2>1. j \in 1 .. n /\ k \in 1 .. n /\ (j = k \/ j < k \/ k < j)
      BY <1>5, <1>6
    <2>2. QED
      BY <1>5, <1>9, <2>1 DEF Apart
  <1>11. NoRepeat(kids)
    <2>1. ASSUME NEW j \in DOMAIN kids, NEW k \in DOMAIN kids,
                 kids[j] = kids[k], j # k
          PROVE  FALSE
      BY <1>5, <1>7, <1>10, <2>1 DEF Apart
    <2>2. QED
      BY <2>1 DEF NoRepeat
  <1>12. ASSUME NEW t \in Int, Covers(c, t)
         PROVE  \E k \in DOMAIN kids : Covers(kids[k], t)
    <2>1. c.start <= t /\ t < c.end
      BY <1>12 DEF Covers
    <2>2. \E k \in 1 .. n : rs[k].start <= t /\ t < rs[k].end
      <3>1. CASE n = 2
        BY <1>1, <1>4, <1>7, <2>1, <3>1
      <3>2. CASE n = 3
        BY <1>1, <1>4, <1>7, <2>1, <3>2
      <3>3. CASE n = 4
        BY <1>1, <1>4, <1>7, <2>1, <3>3
      <3>4. QED
        BY <1>6, <3>1, <3>2, <3>3
    <2>3. QED
      BY <1>5, <2>2 DEF Covers
  <1>13. QED
    BY <1>2, <1>8, <1>10, <1>11, <1>12 DEF kids

\* The loop splits a chunk that is held, into chunks that nobody used yet.
LEMMA SplitFacts ==
    ASSUME PlacesOK, RangesFresh, HandleSplit, NEW x, x = Updated
    PROVE  LET kids == Children(x)
           IN  /\ x \in Chunk /\ Splittable(QueryOf(x), x)
               /\ chunk[x].state = "polling" /\ remote[x] # "running"
               /\ kids \in Seq(Chunk)
               /\ \A c \in Chunk : InSeq(c, kids) => Unused(c) /\ PartOf(c, x)
               /\ chunk' = [chunk EXCEPT ![x].err = "nil"]
               /\ Replaces(x, kids) /\ OneSpot'
  <1> DEFINE kids == Children(x)
  <1>1. /\ update # <<>> /\ update' = Tail(update)
        /\ chunk[x].state = "polling" /\ chunk[x].err = "errSplitChunk"
        /\ chunk' = [chunk EXCEPT ![x].err = "nil"]
        /\ ready' = ready \o kids
        /\ UNCHANGED <<ring, in>>
    BY DEF HandleSplit, Receive, workerVars
  <1>2. x \in Chunk /\ Fits(x, "update")
    BY <1>1, ReceiveFacts
  <1>3. Splittable(QueryOf(x), x)
    BY <1>1, <1>2 DEF PlacesOK, IndTypeOK, SplitsAreLong
  <1>4. /\ kids \in Seq(Chunk) /\ NoRepeat(kids)
        /\ \A k \in DOMAIN kids : PartOf(kids[k], x)
    BY <1>2, <1>3, ChildrenFacts
  <1> HIDE DEF kids
  <1>5. IndTypeOK /\ OneSpot
    BY DEF PlacesOK
  <1>6. Queues["update"] = update /\ "update" \in Place
    BY DEF Queues, Place
  <1>7. Held(x)
    BY <1>1, <1>5, <1>6, HeadAt, HeldAt DEF Updated
  <1>8. \A c \in Chunk : InSeq(c, kids) => Unused(c) /\ PartOf(c, x)
    BY <1>2, <1>4, <1>7 DEF RangesFresh, InSeq
  <1>9. TakesFrom("update", "ready")
    <2>1. \A u \in Place \ {"update", "ready"} : Queues'[u] = Queues[u]
      BY <1>1 DEF Queues, Place
    <2>2. Queues'["update"] = Tail(update)
      BY <1>1 DEF Queues
    <2>3. QED
      BY <1>1, <1>6, <2>1, <2>2 DEF TakesFrom
  <1>10. Queues'["ready"] = Queues["ready"] \o kids
    BY <1>1 DEF Queues
  <1>11. Replaces(x, kids) /\ OneSpot'
    BY <1>1, <1>4, <1>5, <1>6, <1>8, <1>9, <1>10, SplitGoes DEF Unused, Updated
  <1>12. remote[x] # "running"
    BY <1>1, <1>2 DEF Fits, EndedErr
  <1>13. QED
    BY <1>1, <1>2, <1>3, <1>4, <1>8, <1>11, <1>12 DEF kids

LEMMA HandleSplitPlaces ==
    ASSUME PlacesOK, RangesFresh, IndTypeOK', HandleSplit
    PROVE  PlacesOK'
  <1>1. PICK x : x = Updated
    OBVIOUS
  <1> DEFINE kids == Children(x)
  <1>2. /\ loop' = "fill" /\ num' = [num EXCEPT !.polling = @ - 1]
        /\ stream' = [stream EXCEPT ![x.stream] = Completed(@, Len(kids))]
        /\ UNCHANGED <<pc, closing, remote>>
    BY <1>1 DEF HandleSplit, Receive, userVars, workerVars
  <1>3. /\ x \in Chunk /\ chunk[x].state = "polling" /\ remote[x] # "running"
        /\ kids \in Seq(Chunk)
        /\ \A c \in Chunk : InSeq(c, kids) => Unused(c)
        /\ chunk' = [chunk EXCEPT ![x].err = "nil"]
        /\ Replaces(x, kids) /\ OneSpot'
    BY <1>1, SplitFacts
  <1> HIDE DEF kids
  <1>4. /\ \A u \in Place : At(x, u) <=> u = "update"
        /\ \A u \in Place : ~At(x, u)'
        /\ \A c \in Chunk \ {x}, u \in Place :
              At(c, u)' <=> At(c, u) \/ (u = "ready" /\ InSeq(c, kids))
    BY <1>3 DEF Replaces
  <1>5. /\ num \in NumType /\ chunk \in [Chunk -> ChunkFields]
        /\ stream \in [Stream -> StreamFields] /\ x.stream \in Stream
    BY <1>3, ChunkElim DEF PlacesOK, IndTypeOK, TypeOK, NumType
  <1>6. \A c \in Chunk \ {x} : chunk'[c] = chunk[c] /\ remote'[c] = remote[c]
    BY <1>2, <1>3, <1>5
  <1>7. ClosedFirst'
    BY <1>2 DEF PlacesOK, ClosedFirst
  <1>8. NoInternalError'
    <2>1. Len(kids) \in Nat
      BY <1>3
    <2>2. Completed(stream[x.stream], Len(kids)).err
              \in {stream[x.stream].err, "EOF", "nil"}
      BY <1>5, <2>1, CompletedErr
    <2>3. QED
      BY <1>2, <1>5, <2>2 DEF PlacesOK, NoInternalError, InternalErr
  <1>9. ChunksFit'
    <2>1. ASSUME NEW u \in Place, NEW c \in Chunk, At(c, u)'
          PROVE  Fits(c, u)'
      <3>1. c # x
        BY <1>4, <2>1
      <3>2. CASE u = "ready" /\ InSeq(c, kids)
        <4>1. chunk[c] = NewChunk /\ remote[c] = "none"
          BY <1>3, <3>2 DEF Unused
        <4>2. QED
          BY <1>6, <3>1, <3>2, <4>1 DEF Fits, NewChunk
      <3>3. CASE At(c, u)
        <4>1. Fits(c, u)
          BY <3>3 DEF PlacesOK, ChunksFit
        <4>2. chunk'[c] = chunk[c] /\ remote'[c] = remote[c]
          BY <1>6, <3>1
        <4>3. QED
          BY <1>2, <4>1, <4>2 DEF Fits, Place
      <3>4. QED
        BY <1>4, <2>1, <3>1, <3>2, <3>3
    <2>2. QED
      BY <2>1 DEF ChunksFit
  <1>10. NoOrphanWhileOpen'
    <2>1. ASSUME ~closing', NEW c \in Chunk, remote'[c] = "running"
          PROVE  Held(c)'
      <3>1. c # x /\ Held(c)
        BY <1>2, <1>3, <2>1 DEF PlacesOK, NoOrphanWhileOpen
      <3>2. QED
        BY <1>4, <3>1, HeldAt
    <2>2. QED
      BY <2>1 DEF NoOrphanWhileOpen
  <1>11. CountsExact'
    <2>1. Starting' = Starting /\ Stopping' = Stopping
      BY <1>3, <1>4, <1>6 DEF Starting, Stopping, CountedAs, Place
    <2>2. x \in Polling /\ x \notin Polling' /\ Polling' \ {x} = Polling \ {x}
      BY <1>3, <1>4, <1>6 DEF Polling, CountedAs, Place
    <2>3. Cardinality(Polling') = Cardinality(Polling) - 1
      BY <2>2, KindsFinite, OneMore
    <2>4. QED
      BY <1>2, <1>5, <2>1, <2>3 DEF PlacesOK, CountsExact, NumType
  <1>12. QED
    BY <1>3, <1>7, <1>8, <1>9, <1>10, <1>11 DEF PlacesOK

(* What a step does to the chunks of a stream. *)

\* A chunk that may still deliver its range is pending; a complete one has
\* delivered it, and the loop has yet to count it in m.
StateStage(state) ==
    IF state \in {"complete", "stopping"}
    THEN IF state = "complete" THEN "complete" ELSE "out"
    ELSE "pending"

Stage(c) == IF Held(c) THEN StateStage(chunk[c].state) ELSE "out"

\* No chunk outside K is taken into the queues, or changed before.
NothingNew(K) ==
    \A c \in Chunk \ K : ~Held(c) =>
        ~Held(c)' /\ chunk'[c] = chunk[c] /\ remote'[c] = remote[c]

\* Only pending chunks start Insights queries.
StartsPending ==
    \A c \in Chunk :
        remote'[c] = "running" => remote[c] = "running" \/ Stage(c)' = "pending"

\* Chunk x goes from one stage to another, and no other chunk does.
Turns(x, from, to) ==
    /\ x \in Chunk /\ Held(x) /\ Stage(x) = from /\ Stage(x)' = to
    /\ \A c \in Chunk \ {x} : Stage(c)' = Stage(c)
    /\ NothingNew({}) /\ StartsPending

LEMMA StageMove ==
    ASSUME NEW x, NEW p \in Place, NEW r \in Whereabouts, StepOf(x, p, r),
           remote'[x] = "running" =>
               \/ remote[x] = "running"
               \/ r \in Place /\ StateStage(chunk'[x].state) = "pending"
    PROVE  Turns(x, StateStage(chunk[x].state),
                 IF r = "away" THEN "out" ELSE StateStage(chunk'[x].state))
  <1>1. /\ x \in Chunk
        /\ \A u \in Place : At(x, u) <=> u = p
        /\ \A u \in Place : At(x, u)' <=> u = r
        /\ \A c \in Chunk \ {x}, u \in Place : At(c, u)' <=> At(c, u)
        /\ \A c \in Chunk \ {x} : chunk'[c] = chunk[c] /\ remote'[c] = remote[c]
        /\ r \in Place <=> r # "away"
    BY DEF StepOf, Goes, Whereabouts, Place
  <1>2. Held(x) /\ (Held(x)' <=> r # "away")
    BY <1>1, HeldAt
  <1>3. \A c \in Chunk \ {x} : Held(c)' <=> Held(c)
    BY <1>1, HeldAt
  <1>4. \A c \in Chunk \ {x} : Stage(c)' = Stage(c)
    BY <1>1, <1>3 DEF Stage
  <1>5. /\ Stage(x) = StateStage(chunk[x].state)
        /\ Stage(x)' = IF r = "away" THEN "out" ELSE StateStage(chunk'[x].state)
    BY <1>2 DEF Stage
  <1>6. NothingNew({})
    BY <1>1, <1>2, <1>3 DEF NothingNew
  <1>7. StartsPending
    BY <1>1, <1>5 DEF StartsPending
  <1>8. QED
    BY <1>1, <1>2, <1>4, <1>5, <1>6, <1>7 DEF Turns

\* Chunks move, but no stage changes, and no stream.
Quiet ==
    /\ \A c \in Chunk : Stage(c)' = Stage(c)
    /\ NothingNew({}) /\ StartsPending
    /\ UNCHANGED stream

LEMMA TurnsQuiet ==
    ASSUME NEW x, NEW g, Turns(x, g, g), UNCHANGED stream
    PROVE  Quiet
  BY DEF Turns, Quiet

\* A step that moves and changes no chunk.
AllStay ==
    /\ UNCHANGED <<ready, in, ring, update, chunk>>
    /\ \A c \in Chunk : remote'[c] = remote[c]

LEMMA StayStages ==
    ASSUME AllStay
    PROVE  /\ \A c \in Chunk : Stage(c)' = Stage(c) /\ (Held(c)' <=> Held(c))
           /\ NothingNew({}) /\ StartsPending
  <1>1. \A c \in Chunk : Held(c)' <=> Held(c)
    BY DEF AllStay, Held
  <1>2. QED
    BY <1>1 DEF AllStay, Stage, NothingNew, StartsPending

LEMMA WorkerTurns ==
    ASSUME PlacesOK, NEW w \in Worker, ring[w] # <<>>,
           UNCHANGED <<ready, in>>,
           NEW x, x = Current(w), OthersSame(x),
           PushBack(w) \/ SendOut(w),
           remote'[x] = "running" =>
               remote[x] = "running" \/ StateStage(chunk'[x].state) = "pending"
    PROVE  Turns(x, StateStage(chunk[x].state), StateStage(chunk'[x].state))
  <1>1. IndTypeOK /\ OneSpot
    BY DEF PlacesOK
  <1>2. StepOf(x, w, w) \/ StepOf(x, w, "update")
    BY <1>1, WorkerStepOf
  <1>3. /\ w \in Place /\ w \in Whereabouts /\ w # "away"
        /\ "update" \in Place /\ "update" \in Whereabouts /\ "update" # "away"
    BY WorkerPlaces DEF Whereabouts, Worker
  <1>4. QED
    BY <1>2, <1>3, StageMove

\* The poller delivers the results of a chunk.
Delivered(x) ==
    /\ Turns(x, "pending", "complete")
    /\ stream' = [stream EXCEPT ![x.stream].blocks = Append(@, x)]

LEMMA StarterAnswerEffect ==
    ASSUME PlacesOK, StarterAnswer
    PROVE  Quiet
  <1> DEFINE w == "starter"
  <1>1. w \in Worker /\ Answered(w) /\ UNCHANGED stream
    BY DEF StarterAnswer, StarterRetry, StarterLimited, StarterFails,
           StarterStarts, Worker
  <1>2. PICK x : x = Current(w)
    OBVIOUS
  <1>3. ring[w] # <<>> /\ UNCHANGED <<ready, in>>
    BY <1>1, AnsweredFacts
  <1>4. /\ x \in Chunk /\ Fits(x, w)
        /\ chunk \in [Chunk -> ChunkFields]
        /\ remote \in [Chunk -> {"none", "running", "ended"}]
    BY <1>1, <1>2, <1>3, CurrentFits
  <1>5. chunk[x].state = "starting"
    BY <1>4 DEF Fits
  <1>6. /\ OthersSame(x) /\ chunk'[x].state \in {"starting", "started"}
        /\ PushBack(w) \/ SendOut(w)
    <2>1. CASE StarterRetry
      <3>1. Retry(w, "StartQueryError") /\ UNCHANGED remote
        BY <2>1 DEF StarterRetry
      <3>2. QED
        BY <1>1, <1>2, <1>4, <1>5, <3>1, RetryFields DEF OthersSame
    <2>2. CASE StarterLimited \/ StarterFails
      <3>1. /\ SendOut(w) /\ UNCHANGED remote
            /\ \E e \in StartingErr : chunk' = [chunk EXCEPT ![x].err = e]
        BY <1>2, <2>2 DEF StarterLimited, StarterFails, StartingErr
      <3>2. QED
        BY <1>4, <1>5, <3>1 DEF OthersSame, ChunkFields
    <2>3. CASE StarterStarts
      <3>1. /\ SendOut(w) /\ remote' = [remote EXCEPT ![x] = "running"]
            /\ chunk' = [chunk EXCEPT ![x].state = "started", ![x].err = "nil"]
        BY <1>2, <2>3 DEF StarterStarts
      <3>2. QED
        BY <1>4, <3>1 DEF OthersSame, ChunkFields
    <2>4. QED
      BY <2>1, <2>2, <2>3 DEF StarterAnswer
  <1>7. /\ StateStage(chunk[x].state) = "pending"
        /\ StateStage(chunk'[x].state) = "pending"
    BY <1>5, <1>6 DEF StateStage
  <1>8. Turns(x, "pending", "pending")
    BY <1>1, <1>2, <1>3, <1>6, <1>7, WorkerTurns
  <1>9. QED
    BY <1>1, <1>8, TurnsQuiet

LEMMA PollerAnswerEffect ==
    ASSUME PlacesOK, PollerAnswer
    PROVE  Quiet \/ \E x \in Chunk : Delivered(x)
  <1> DEFINE w == "poller"
  <1>1. w \in Worker /\ Answered(w)
    BY DEF PollerAnswer, PollerRetry, PollerInconclusive, PollerUnexpected,
           PollerMaxed, PollerCompletes, PollerRestarts, PollerTerminal, Worker
  <1>2. PICK x : x = Current(w)
    OBVIOUS
  <1>3. ring[w] # <<>> /\ UNCHANGED <<ready, in>>
    BY <1>1, AnsweredFacts
  <1>4. /\ x \in Chunk /\ Fits(x, w)
        /\ chunk \in [Chunk -> ChunkFields]
        /\ remote \in [Chunk -> {"none", "running", "ended"}]
    BY <1>1, <1>2, <1>3, CurrentFits
  <1>5. chunk[x].state = "polling"
    BY <1>4 DEF Fits
  <1>6. CASE PollerCompletes
    <2>1. /\ SendOut(w) /\ remote' = [remote EXCEPT ![x] = "ended"]
          /\ chunk' = [chunk EXCEPT ![x].state = "complete", ![x].err = "nil"]
          /\ stream' = [stream EXCEPT ![x.stream].blocks = Append(@, x)]
      BY <1>2, <1>6 DEF PollerCompletes
    <2>2. /\ OthersSame(x) /\ chunk'[x].state = "complete"
          /\ remote'[x] # "running"
      BY <1>4, <2>1 DEF OthersSame, ChunkFields
    <2>3. Turns(x, "pending", "complete")
      BY <1>1, <1>2, <1>3, <1>5, <2>1, <2>2, WorkerTurns DEF StateStage
    <2>4. QED
      BY <1>4, <2>1, <2>3 DEF Delivered
  <1>7. CASE ~PollerCompletes
    <2>1. /\ OthersSame(x) /\ chunk'[x].state = "polling" /\ UNCHANGED stream
          /\ remote'[x] \in {remote[x], "ended"}
          /\ PushBack(w) \/ SendOut(w)
      <3>1. CASE PollerRetry
        <4>1. Retry(w, "UnexpectedQueryError") /\ UNCHANGED <<remote, stream>>
          BY <3>1 DEF PollerRetry
        <4>2. QED
          BY <1>1, <1>2, <1>4, <1>5, <4>1, RetryFields DEF OthersSame
      <3>2. CASE /\ PollerInconclusive \/ PollerMaxed \/ PollerTerminal
                      \/ \E ended \in BOOLEAN : PollerUnexpected(ended)
        <4>1. /\ PushBack(w) \/ SendOut(w)
              /\ remote' \in {remote, [remote EXCEPT ![x] = "ended"]}
              /\ \E e \in Err : chunk' = [chunk EXCEPT ![x].err = e]
              /\ UNCHANGED stream
          BY <1>2, <3>2 DEF PollerInconclusive, PollerMaxed, PollerTerminal,
                            PollerUnexpected, Err, PublicErr, InternalErr
        <4>2. QED
          BY <1>4, <1>5, <4>1 DEF OthersSame, ChunkFields
      <3>3. CASE PollerRestarts
        <4>1. /\ SendOut(w) /\ remote' = [remote EXCEPT ![x] = "ended"]
              /\ chunk' = [chunk EXCEPT ![x].restart = @ + 1,
                                        ![x].err = "errRestartChunk"]
              /\ UNCHANGED stream
          BY <1>2, <3>3 DEF PollerRestarts
        <4>2. chunk'[x].state = "polling"
          <5>1. chunk'[x] = [chunk[x] EXCEPT !.restart = @ + 1,
                                             !.err = "errRestartChunk"]
            BY <1>4, <4>1
          <5>2. chunk[x] \in ChunkFields
            BY <1>4
          <5>3. QED
            BY <1>5, <5>1, <5>2 DEF ChunkFields
        <4>3. QED
          BY <1>4, <4>1, <4>2 DEF OthersSame
      <3>4. QED
        BY <1>7, <3>1, <3>2, <3>3 DEF PollerAnswer
    <2>2. Turns(x, "pending", "pending")
      BY <1>1, <1>2, <1>3, <1>5, <2>1, WorkerTurns DEF StateStage
    <2>3. QED
      BY <2>1, <2>2, TurnsQuiet
  <1>8. QED
    BY <1>6, <1>7

LEMMA StopperAnswerEffect ==
    ASSUME PlacesOK, StopperAnswer
    PROVE  Quiet
  <1> DEFINE w == "stopper"
  <1>1. CASE StopperPanics
    <2>1. AllStay /\ UNCHANGED stream
      BY <1>1 DEF StopperPanics, AllStay
    <2>2. QED
      BY <2>1, StayStages DEF Quiet
  <1>2. CASE StopperRetry \/ StopperFinishes
    <2>1. w \in Worker /\ Answered(w) /\ UNCHANGED stream
      BY <1>2 DEF StopperRetry, StopperFinishes, Worker
    <2>2. PICK x : x = Current(w)
      OBVIOUS
    <2>3. ring[w] # <<>> /\ UNCHANGED <<ready, in>>
      BY <2>1, AnsweredFacts
    <2>4. /\ x \in Chunk
          /\ chunk \in [Chunk -> ChunkFields]
          /\ remote \in [Chunk -> {"none", "running", "ended"}]
      BY <2>1, <2>2, <2>3, CurrentFits
    <2>5. /\ OthersSame(x) /\ chunk'[x].state = chunk[x].state
          /\ remote'[x] \in {remote[x], "ended"}
          /\ PushBack(w) \/ SendOut(w)
      <3>1. CASE StopperRetry
        <4>1. /\ Retry(w, chunk[x].err)
              /\ remote' \in {remote, [remote EXCEPT ![x] = "ended"]}
          BY <2>2, <3>1 DEF StopperRetry
        <4>2. QED
          BY <2>1, <2>2, <2>4, <4>1, RetryFields DEF OthersSame
      <3>2. CASE StopperFinishes
        BY <2>2, <2>4, <3>2 DEF StopperFinishes, OthersSame
      <3>3. QED
        BY <1>2, <3>1, <3>2
    <2>6. Turns(x, StateStage(chunk[x].state), StateStage(chunk[x].state))
      BY <2>1, <2>2, <2>3, <2>5, WorkerTurns
    <2>7. QED
      BY <2>1, <2>6, TurnsQuiet
  <1>3. QED
    BY <1>1, <1>2 DEF StopperAnswer

LEMMA CommonEffect ==
    ASSUME PlacesOK, NEW w \in Worker, CommonStep(w)
    PROVE  Quiet
  <1>1. /\ UNCHANGED <<ready, stream>>
        /\ IndTypeOK /\ OneSpot
        /\ chunk \in [Chunk -> ChunkFields]
        /\ remote \in [Chunk -> {"none", "running", "ended"}]
    BY DEF CommonStep, Pop, WaitClosing, Begin, ReleaseInProgress,
           ReleaseStray, ReleaseChunk, WorkerDone, mgrVars, PlacesOK,
           IndTypeOK, TypeOK
  \* A chunk changes neither its state nor the channels it can go to.
  <1>2. ASSUME NEW p \in {w, Channel(w)}, NEW r \in {w, "update"}, NEW x,
               StepOf(x, p, r), chunk'[x].state = chunk[x].state,
               remote'[x] \in {remote[x], "ended"}
        PROVE  Quiet
    <2>1. /\ p \in Place /\ r \in Whereabouts /\ r # "away"
          /\ remote'[x] = "running" => remote[x] = "running"
      BY <1>2, WorkerPlaces DEF Whereabouts, Worker
    <2>2. Turns(x, StateStage(chunk[x].state), StateStage(chunk'[x].state))
      BY <1>2, <2>1, StageMove
    <2>3. QED
      BY <1>1, <1>2, <2>2, TurnsQuiet
  <1>3. CASE UNCHANGED <<in, ring, update, chunk, remote>>
    BY <1>1, <1>3, StayStages DEF AllStay, Quiet
  <1>4. CASE /\ UNCHANGED <<in, remote>> /\ ring[w] # <<>>
             /\ PushBack(w) \/ SendOut(w)
             /\ \/ UNCHANGED chunk
                \/ chunk' = [chunk EXCEPT ![Current(w)].err = "errStopChunk"]
    <2>1. PICK x : x = Current(w)
      OBVIOUS
    <2>2. x \in Chunk
      BY <1>1, <1>4, <2>1 DEF IndTypeOK, TypeOK, Current
    <2>3. OthersSame(x) /\ chunk'[x].state = chunk[x].state
      BY <1>1, <1>4, <2>1, <2>2 DEF OthersSame, ChunkFields
    <2>4. StepOf(x, w, w) \/ StepOf(x, w, "update")
      BY <1>1, <1>4, <2>1, <2>3, WorkerStepOf
    <2>5. QED
      BY <1>2, <1>4, <2>3, <2>4
  <1>5. CASE Pop(w)
    <2>1. CASE in[w] # <<>>
      <3>1. PICK x : x = Head(in[w])
        OBVIOUS
      <3>2. /\ in' = [in EXCEPT ![w] = Tail(@)]
            /\ ring' = [ring EXCEPT ![w] = Append(@, Head(in[w]))]
            /\ chunk' = [chunk EXCEPT ![x].tmp = 0]
            /\ UNCHANGED <<update, remote>>
        BY <1>5, <2>1, <3>1 DEF Pop
      <3>3. OthersSame(x)
        BY <1>1, <3>2 DEF OthersSame
      <3>4. StepOf(x, Channel(w), w) /\ x \in Chunk
        BY <1>1, <2>1, <3>1, <3>2, <3>3, ReceivesStepOf
      <3>5. chunk'[x].state = chunk[x].state
        BY <1>1, <3>2, <3>4 DEF ChunkFields
      <3>6. QED
        BY <1>2, <3>2, <3>4, <3>5
    <2>2. CASE in[w] = <<>>
      BY <1>3, <1>5, <2>2 DEF Pop
    <2>3. QED
      BY <2>1, <2>2
  <1>6. CASE WaitClosing(w) \/ Begin(w)
    <2>1. ring[w] # <<>>
      BY <1>6 DEF WaitClosing, Begin, PlacesOK, IndTypeOK, WorkersHaveChunk
    <2>2. CASE UNCHANGED <<ring, update, chunk>>
      BY <1>3, <1>6, <2>2 DEF WaitClosing, Begin
    <2>3. CASE ~UNCHANGED <<ring, update, chunk>>
      BY <1>4, <1>6, <2>1, <2>3 DEF WaitClosing, Begin
    <2>4. QED
      BY <2>2, <2>3
  <1>7. ASSUME NEW p \in {w, Channel(w)}, NEW x, ReleaseChunk(w, x),
               x \in Chunk, OthersSame(x) => StepOf(x, p, "update")
        PROVE  Quiet
    <2>1. /\ OthersSame(x) /\ chunk'[x].state = chunk[x].state
          /\ remote'[x] \in {remote[x], "ended"}
      BY <1>1, <1>7 DEF ReleaseChunk, OthersSame, ChunkFields
    <2>2. QED
      BY <1>2, <1>7, <2>1
  <1>8. CASE ReleaseInProgress(w)
    <2>1. PICK x : x = Current(w)
      OBVIOUS
    <2>2. ring[w] # <<>> /\ ReleaseChunk(w, x) /\ SendOut(w) /\ UNCHANGED in
      BY <1>8, <2>1 DEF ReleaseInProgress, ReleaseChunk, SendOut
    <2>3. x \in Chunk /\ (OthersSame(x) => StepOf(x, w, "update"))
      BY <1>1, <2>1, <2>2, WorkerStepOf DEF IndTypeOK, TypeOK, Current
    <2>4. QED
      BY <1>7, <2>2, <2>3
  <1>9. CASE ReleaseStray(w)
    <2>1. PICK x : x = Head(in[w])
      OBVIOUS
    <2>2. /\ in[w] # <<>> /\ ReleaseChunk(w, x) /\ UNCHANGED ring
          /\ in' = [in EXCEPT ![w] = Tail(@)]
          /\ update' = Append(update, Head(in[w]))
      BY <1>9, <2>1 DEF ReleaseStray, ReleaseChunk
    <2>3. x \in Chunk
      BY <2>1, <2>2, HeadTail DEF PlacesOK, IndTypeOK, TypeOK
    <2>4. OthersSame(x) => StepOf(x, Channel(w), "update")
      BY <1>1, <2>1, <2>2, ReceivesStepOf
    <2>5. QED
      BY <1>7, <2>2, <2>3, <2>4
  <1>10. CASE WorkerDone(w)
    BY <1>3, <1>10 DEF WorkerDone
  <1>11. QED
    BY <1>5, <1>6, <1>8, <1>9, <1>10 DEF CommonStep

LEMMA LoopTurns ==
    ASSUME PlacesOK, update # <<>>, update' = Tail(update),
           UNCHANGED <<ring, remote>>,
           NEW x, x = Updated, \A c \in Chunk \ {x} : chunk'[c] = chunk[c],
           NEW r,
           \/ r = "ready" /\ ready' = Append(ready, Updated) /\ UNCHANGED in
           \/ \E w \in Worker :
                 /\ r = Channel(w) /\ UNCHANGED ready
                 /\ in' = [in EXCEPT ![w] = Append(@, Updated)]
           \/ r = "away" /\ UNCHANGED <<ready, in>>
    PROVE  Turns(x, StateStage(chunk[x].state),
                 IF r = "away" THEN "out" ELSE StateStage(chunk'[x].state))
  <1>1. IndTypeOK /\ OneSpot /\ OthersSame(x)
    BY DEF PlacesOK, OthersSame
  <1>2. StepOf(x, "update", r)
    BY <1>1, UpdatedStepOf
  <1>3. "update" \in Place /\ r \in Whereabouts
    BY WorkerPlaces DEF Whereabouts, Place
  <1>4. QED
    BY <1>2, <1>3, StageMove

\* The loop gives up a chunk of a stream, and may tell the stream why.
GivenUp(x) ==
    /\ \E from \in {"pending", "complete"} : Turns(x, from, "out")
    /\ UNCHANGED stream \/ \E e \in PublicErr : KillStream(x, e)

\* The loop counts a complete chunk.
Finishes(x) ==
    /\ Turns(x, "complete", "out") /\ remote[x] # "running"
    /\ stream' = [stream EXCEPT ![x.stream] = Completed(@, 0)]

\* The loop replaces a chunk by its parts.
SplitUp(x) ==
    LET kids == Children(x)
    IN  /\ x \in Chunk /\ Splittable(QueryOf(x), x)
        /\ Held(x) /\ ~Held(x)' /\ Stage(x) = "pending" /\ Stage(x)' = "out"
        /\ \A c \in Chunk : InSeq(c, kids) =>
              /\ Unused(c) /\ PartOf(c, x)
              /\ Held(c)' /\ Stage(c)' = "pending"
        /\ \A c \in Chunk \ {x} : ~InSeq(c, kids) => Stage(c)' = Stage(c)
        /\ NothingNew({c \in Chunk : InSeq(c, kids)})
        /\ remote[x] # "running" /\ UNCHANGED remote
        /\ stream' = [stream EXCEPT ![x.stream] = Completed(@, Len(kids))]

\* The loop makes the next generation-0 chunk of a live stream.
Made(x) ==
    \E s \in pq :
        /\ Alive(s) /\ x = Root(s, stream[s].next)
        /\ Unused(x) /\ Held(x)' /\ Stage(x)' = "pending"
        /\ \A c \in Chunk \ {x} : Stage(c)' = Stage(c)
        /\ NothingNew({x}) /\ UNCHANGED remote
        /\ stream' = [stream EXCEPT ![s].next = @ + 1]

(* What the handlers of the loop do to a stream and its chunks. *)

LEMMA FailureEffect ==
    ASSUME PlacesOK,
           HandleStartFailure \/ HandleTerminal \/ HandleStop \/ HandleUnexpected
    PROVE  GivenUp(Updated)
  <1>1. /\ update # <<>> /\ update' = Tail(update)
        /\ UNCHANGED <<ring, remote>>
    BY DEF HandleStartFailure, HandleTerminal, HandleStop, HandleUnexpected,
           Receive, workerVars
  <1>2. PICK x : x = Updated
    OBVIOUS
  <1>3. /\ x \in Chunk /\ Fits(x, "update")
        /\ chunk \in [Chunk -> ChunkFields]
    BY <1>1, <1>2, ReceiveFacts
  <1>4. CASE HandleStartFailure \/ HandleTerminal
    <2>1. /\ chunk[x].state \in {"starting", "polling"}
          /\ UNCHANGED <<ready, in, chunk>> /\ KillStream(x, chunk[x].err)
      BY <1>2, <1>4 DEF HandleStartFailure, HandleTerminal, Receive
    <2>2. Turns(x, "pending", "out")
      BY <1>1, <1>2, <2>1, LoopTurns DEF StateStage
    <2>3. chunk[x].err \in PublicErr
      <3>1. CASE HandleStartFailure
        BY <1>2, <1>3, <3>1
           DEF HandleStartFailure, Receive, Fits, StartingErr, PublicErr
      <3>2. CASE HandleTerminal
        BY <1>2, <3>2 DEF HandleTerminal, PublicErr
      <3>3. QED
        BY <1>4, <3>1, <3>2
    <2>4. QED
      BY <1>2, <1>3, <2>1, <2>2, <2>3 DEF GivenUp
  <1>5. CASE HandleStop \/ HandleUnexpected
    <2>1. /\ chunk[x].state = "polling"
          /\ chunk' = [chunk EXCEPT ![x].state = "stopping"]
          /\ in' = [in EXCEPT !["stopper"] = Append(@, Updated)]
          /\ UNCHANGED ready
          /\ UNCHANGED stream \/ \E e \in PublicErr : KillStream(x, e)
      BY <1>2, <1>5 DEF HandleStop, HandleUnexpected, Receive, StopChunk,
                        PublicErr
    <2>2. /\ chunk'[x].state = "stopping"
          /\ \A c \in Chunk \ {x} : chunk'[c] = chunk[c]
          /\ "stopper" \in Worker /\ Channel("stopper") = "stop"
      BY <1>3, <2>1 DEF ChunkFields, Worker, Channel
    <2>3. Turns(x, "pending", "out")
      BY <1>1, <1>2, <2>1, <2>2, LoopTurns DEF StateStage
    <2>4. QED
      BY <1>2, <1>3, <2>1, <2>3 DEF GivenUp
  <1>6. QED
    BY <1>4, <1>5

LEMMA CompletionEffect ==
    ASSUME PlacesOK, HandleChunkCompletion
    PROVE  Finishes(Updated)
  <1>1. /\ update # <<>> /\ update' = Tail(update)
        /\ UNCHANGED <<ring, remote>>
    BY DEF HandleChunkCompletion, Receive, workerVars
  <1>2. PICK x : x = Updated
    OBVIOUS
  <1>3. /\ x \in Chunk /\ Fits(x, "update")
        /\ chunk \in [Chunk -> ChunkFields]
    BY <1>1, <1>2, ReceiveFacts
  <1>4. /\ chunk[x].state = "complete" /\ UNCHANGED <<ready, in, chunk>>
        /\ stream' = [stream EXCEPT ![x.stream] = Completed(@, 0)]
    BY <1>2 DEF HandleChunkCompletion, Receive
  <1>5. Turns(x, "complete", "out")
    BY <1>1, <1>2, <1>4, LoopTurns DEF StateStage
  <1>6. QED
    BY <1>2, <1>3, <1>4, <1>5 DEF Finishes, Fits

LEMMA HandlerEffect ==
    ASSUME PlacesOK, HandleChunk, ~HandleSplit
    PROVE  Quiet \/ \E x \in Chunk : GivenUp(x) \/ Finishes(x)
  <1>1. /\ update # <<>> /\ update' = Tail(update)
        /\ UNCHANGED <<ring, remote>>
    BY DEF HandleChunk, HandleReduceParallel, HandleStartFailure,
           HandleChunkStarted, HandleRestart, HandleSplit, HandleStop,
           HandleUnexpected, HandleTerminal, HandleChunkCompletion,
           HandleStopped, Receive, workerVars
  <1>2. PICK x : x = Updated
    OBVIOUS
  <1>3. /\ x \in Chunk /\ Fits(x, "update")
        /\ chunk \in [Chunk -> ChunkFields]
    BY <1>1, <1>2, ReceiveFacts
  <1>4. CASE HandleReduceParallel \/ HandleRestart
    <2>1. /\ chunk[x].state \in {"starting", "polling"}
          /\ ready' = Append(ready, Updated)
          /\ UNCHANGED <<in, stream>>
          /\ UNCHANGED chunk \/ chunk' = [chunk EXCEPT ![x].err = "nil"]
      BY <1>2, <1>4 DEF HandleReduceParallel, HandleRestart, Receive
    <2>2. /\ chunk'[x].state = chunk[x].state
          /\ \A c \in Chunk \ {x} : chunk'[c] = chunk[c]
      BY <1>3, <2>1 DEF ChunkFields
    <2>3. \A r : r = "ready" =>
              Turns(x, StateStage(chunk[x].state),
                    IF r = "away" THEN "out" ELSE StateStage(chunk'[x].state))
      BY <1>1, <1>2, <2>1, <2>2, LoopTurns
    <2>4. Turns(x, StateStage(chunk[x].state), StateStage(chunk'[x].state))
      BY <2>3
    <2>5. QED
      BY <2>1, <2>2, <2>4, TurnsQuiet
  <1>5. CASE HandleChunkStarted
    <2>1. /\ chunk[x].state = "started"
          /\ chunk' = [chunk EXCEPT ![x].state = "polling"]
          /\ in' = [in EXCEPT !["poller"] = Append(@, Updated)]
          /\ UNCHANGED <<ready, stream>>
      BY <1>2, <1>5 DEF HandleChunkStarted, Receive
    <2>2. /\ chunk'[x].state = "polling"
          /\ \A c \in Chunk \ {x} : chunk'[c] = chunk[c]
          /\ "poller" \in Worker /\ Channel("poller") = "poll"
      BY <1>3, <2>1 DEF ChunkFields, Worker, Channel
    <2>3. Turns(x, "pending", "pending")
      BY <1>1, <1>2, <2>1, <2>2, LoopTurns DEF StateStage
    <2>4. QED
      BY <2>1, <2>3, TurnsQuiet
  <1>6. CASE \/ HandleStartFailure \/ HandleTerminal
             \/ HandleStop \/ HandleUnexpected
    BY <1>2, <1>3, <1>6, FailureEffect
  <1>7. CASE HandleChunkCompletion
    BY <1>2, <1>3, <1>7, CompletionEffect
  <1>8. CASE HandleStopped
    <2>1. chunk[x].state = "stopping" /\ UNCHANGED <<ready, in, chunk, stream>>
      BY <1>2, <1>8 DEF HandleStopped, Receive
    <2>2. Turns(x, "out", "out")
      BY <1>1, <1>2, <2>1, LoopTurns DEF StateStage
    <2>3. QED
      BY <2>1, <2>2, TurnsQuiet
  <1>9. QED
    BY <1>4, <1>5, <1>6, <1>7, <1>8 DEF HandleChunk

LEMMA DrainEffect ==
    ASSUME PlacesOK, DrainLive \/ DrainDead \/ DrainStopping \/ DrainStop
    PROVE  Quiet \/ \E x \in Chunk : GivenUp(x)
  <1>1. /\ update # <<>> /\ update' = Tail(update)
        /\ UNCHANGED <<ring, remote, ready>>
    BY DEF DrainLive, DrainDead, DrainStopping, DrainStop, Draining, workerVars
  <1>2. PICK x : x = Updated
    OBVIOUS
  <1>3. x \in Chunk /\ chunk \in [Chunk -> ChunkFields] /\ Fits(x, "update")
    BY <1>1, <1>2, ReceiveFacts
  <1>4. CASE DrainLive
    <2>1. /\ chunk[x].state \in {"started", "polling"}
          /\ chunk' = [chunk EXCEPT ![x].state = "stopping"]
          /\ in' = [in EXCEPT !["stopper"] = Append(@, Updated)]
          /\ KillStream(x, "ErrClosed")
      BY <1>2, <1>4 DEF DrainLive, Draining, StopChunk
    <2>2. /\ chunk'[x].state = "stopping"
          /\ \A c \in Chunk \ {x} : chunk'[c] = chunk[c]
          /\ "stopper" \in Worker /\ Channel("stopper") = "stop"
      BY <1>3, <2>1 DEF ChunkFields, Worker, Channel
    <2>3. Turns(x, "pending", "out")
      BY <1>1, <1>2, <2>1, <2>2, LoopTurns DEF StateStage
    <2>4. QED
      BY <1>3, <2>1, <2>3 DEF GivenUp, PublicErr
  <1>5. CASE DrainDead
    <2>1. /\ chunk[x].state \in {"starting", "complete"}
          /\ UNCHANGED <<in, chunk>> /\ KillStream(x, "ErrClosed")
      BY <1>2, <1>5 DEF DrainDead, Draining
    <2>2. Turns(x, "pending", "out") \/ Turns(x, "complete", "out")
      BY <1>1, <1>2, <2>1, LoopTurns DEF StateStage
    <2>3. QED
      BY <1>3, <2>1, <2>2 DEF GivenUp, PublicErr
  <1>6. CASE DrainStopping \/ DrainStop
    <2>1. chunk[x].state = "stopping"
      <3>1. CASE DrainStopping
        BY <1>2, <3>1 DEF DrainStopping, Draining
      <3>2. CASE DrainStop
        BY <1>2, <3>2, LastStopping
      <3>3. QED
        BY <1>6, <3>1, <3>2
    <2>2. UNCHANGED <<in, chunk, stream>>
      BY <1>6 DEF DrainStopping, DrainStop
    <2>3. Turns(x, "out", "out")
      BY <1>1, <1>2, <2>1, <2>2, LoopTurns DEF StateStage
    <2>4. QED
      BY <2>2, <2>3, TurnsQuiet
  <1>7. QED
    BY <1>4, <1>5, <1>6

LEMMA SplitEffect ==
    ASSUME PlacesOK, RangesFresh, HandleSplit
    PROVE  SplitUp(Updated)
  <1>1. PICK x : x = Updated
    OBVIOUS
  <1> DEFINE kids == Children(x)
  <1>2. /\ x \in Chunk /\ Splittable(QueryOf(x), x)
        /\ chunk[x].state = "polling" /\ remote[x] # "running"
        /\ kids \in Seq(Chunk)
        /\ \A c \in Chunk : InSeq(c, kids) => Unused(c) /\ PartOf(c, x)
        /\ chunk' = [chunk EXCEPT ![x].err = "nil"]
        /\ Replaces(x, kids)
    BY <1>1, SplitFacts
  <1>3. /\ stream' = [stream EXCEPT ![x.stream] = Completed(@, Len(kids))]
        /\ UNCHANGED remote
    BY <1>1 DEF HandleSplit, Receive
  <1> HIDE DEF kids
  <1>4. /\ \A u \in Place : At(x, u) <=> u = "update"
        /\ \A u \in Place : ~At(x, u)'
        /\ \A c \in Chunk \ {x}, u \in Place :
              At(c, u)' <=> At(c, u) \/ (u = "ready" /\ InSeq(c, kids))
        /\ "update" \in Place /\ "ready" \in Place
    BY <1>2 DEF Replaces, Place
  <1>5. /\ Held(x) /\ ~Held(x)'
        /\ \A c \in Chunk \ {x} : Held(c)' <=> Held(c) \/ InSeq(c, kids)
    BY <1>4, HeldAt
  <1>6. \A c \in Chunk \ {x} : chunk'[c] = chunk[c]
    BY <1>2 DEF PlacesOK, IndTypeOK, TypeOK
  <1>7. Stage(x) = "pending" /\ Stage(x)' = "out"
    BY <1>2, <1>5 DEF Stage, StateStage
  <1>8. \A c \in Chunk : InSeq(c, kids) =>
            Unused(c) /\ PartOf(c, x) /\ Held(c)' /\ Stage(c)' = "pending"
    <2> SUFFICES ASSUME NEW c \in Chunk, InSeq(c, kids)
                 PROVE  Unused(c) /\ PartOf(c, x) /\ Held(c)' /\ Stage(c)' = "pending"
      OBVIOUS
    <2>1. Unused(c) /\ PartOf(c, x) /\ c # x
      BY <1>2 DEF PartOf
    <2>2. Held(c)' /\ chunk'[c] = NewChunk
      BY <1>5, <1>6, <2>1 DEF Unused
    <2>3. QED
      BY <2>1, <2>2 DEF Stage, StateStage, NewChunk
  <1>9. \A c \in Chunk \ {x} : ~InSeq(c, kids) => Stage(c)' = Stage(c)
    BY <1>5, <1>6 DEF Stage
  <1>10. NothingNew({c \in Chunk : InSeq(c, kids)})
    BY <1>3, <1>5, <1>6 DEF NothingNew
  <1>11. SplitUp(x)
    BY <1>2, <1>3, <1>5, <1>7, <1>8, <1>9, <1>10 DEF SplitUp, kids
  <1>12. QED
    BY <1>1, <1>11

LEMMA FillEffect ==
    ASSUME PlacesOK, RangesFresh, FillReady \/ FillNext
    PROVE  Quiet \/ \E x \in Chunk : Made(x)
  <1>1. /\ IndTypeOK /\ OneSpot
        /\ chunk \in [Chunk -> ChunkFields] /\ in \in [Worker -> Seq(Chunk)]
        /\ "start" \in Place /\ "ready" \in Place /\ "away" \notin Place
        /\ UNCHANGED <<ring, update, remote>>
    BY DEF PlacesOK, IndTypeOK, TypeOK, Place, FillReady, FillNext, Launch,
           workerVars
  <1>2. CASE FillReady
    <2>1. PICK x : x = Head(ready)
      OBVIOUS
    <2>2. /\ ready # <<>> /\ ready' = Tail(ready) /\ UNCHANGED stream
          /\ chunk' = [chunk EXCEPT ![x].state = "starting"]
          /\ in' = [in EXCEPT !["starter"] = Append(@, x)]
      BY <1>2, <2>1 DEF FillReady, Launch
    <2>3. Queues["ready"] = ready
      BY DEF Queues
    <2>4. x \in Chunk /\ Fits(x, "ready")
      BY <1>1, <2>1, <2>2, <2>3, HeadAt DEF PlacesOK, ChunksFit
    <2>5. Moves("ready", "start")
      <3>1. \A u \in Place \ {"ready", "start"} : Queues'[u] = Queues[u]
        BY <1>1, <2>2 DEF Queues, Place, Worker
      <3>2. /\ Queues'["ready"] = Tail(ready)
            /\ Queues'["start"] = Append(Queues["start"], x)
        BY <1>1, <2>2 DEF Queues, Worker
      <3>3. QED
        BY <1>1, <2>1, <2>2, <2>3, <3>1, <3>2 DEF Moves, TakesFrom
    <2>6. /\ chunk'[x].state = "starting"
          /\ \A c \in Chunk \ {x} : chunk'[c] = chunk[c]
      BY <1>1, <2>2, <2>4 DEF ChunkFields
    <2>7. StepOf(x, "ready", "start")
      BY <1>1, <2>1, <2>3, <2>5, <2>6, MoveGoes DEF StepOf
    <2>8. "start" \in Whereabouts /\ "start" # "away"
      BY <1>1 DEF Whereabouts
    <2>9. Turns(x, StateStage(chunk[x].state), StateStage(chunk'[x].state))
      BY <1>1, <2>7, <2>8, StageMove
    <2>10. Turns(x, "pending", "pending")
      BY <2>4, <2>6, <2>9 DEF StateStage, Fits
    <2>11. QED
      BY <2>2, <2>10, TurnsQuiet
  <1>3. CASE FillNext
    <2>1. PICK s \in pq :
              /\ Alive(s) /\ stream' = [stream EXCEPT ![s].next = @ + 1]
              /\ Launch(Root(s, stream[s].next))
      BY <1>3 DEF FillNext, PopsNext
    <2>2. PICK x : x = Root(s, stream[s].next)
      OBVIOUS
    <2>3. /\ UNCHANGED ready
          /\ chunk' = [chunk EXCEPT ![x].state = "starting"]
          /\ in' = [in EXCEPT !["starter"] = Append(@, x)]
      BY <1>3, <2>1, <2>2 DEF FillNext, Launch
    <2>4. s \in Stream /\ stream[s].next < NumRoots(Query[s])
      BY <1>1 DEF IndTypeOK, TypeOK, HeapHasRoots
    <2>5. x \in Chunk /\ Unused(x)
      BY <1>1, <2>2, <2>4, RootUnused
    <2>6. /\ Queues'["start"] = Append(Queues["start"], x)
          /\ \A u \in Place \ {"start"} : Queues'[u] = Queues[u]
      BY <1>1, <2>3 DEF Queues, Place, Worker
    <2>7. /\ chunk'[x].state = "starting"
          /\ \A c \in Chunk \ {x} : chunk'[c] = chunk[c]
      BY <1>1, <2>3, <2>5 DEF ChunkFields
    <2>8. Goes(x, "away", "start")
      BY <1>1, <2>5, <2>6, CreateGoes DEF Unused
    <2>9. Held(x)' /\ \A c \in Chunk \ {x} : Held(c)' <=> Held(c)
      BY <1>1, <2>8, HeldAt DEF Goes
    <2>10. /\ Stage(x)' = "pending"
           /\ \A c \in Chunk \ {x} : Stage(c)' = Stage(c)
      BY <2>7, <2>9 DEF Stage, StateStage
    <2>11. NothingNew({x})
      BY <1>1, <2>7, <2>9 DEF NothingNew
    <2>12. Made(x)
      BY <1>1, <2>1, <2>2, <2>5, <2>9, <2>10, <2>11 DEF Made
    <2>13. QED
      BY <2>5, <2>12
  <1>4. QED
    BY <1>2, <1>3

(* Ranges: chunks that are not used yet stay so until the loop makes them. *)

LEMMA ChunkExt ==
    ASSUME NEW c \in Chunk, NEW d \in Chunk,
           c.stream = d.stream, c.start = d.start, c.end = d.end
    PROVE  c = d
  <1>1. \A x \in Chunk : x = [stream |-> x.stream, start |-> x.start, end |-> x.end]
    BY DEF Chunk, ChunksOf
  <1>2. QED
    BY <1>1

LEMMA CompletedFields ==
    ASSUME NEW st \in StreamFields, NEW kids \in Nat
    PROVE  LET new == Completed(st, kids)
           IN  /\ new.next = st.next /\ new.blocks = st.blocks
               /\ new.m = st.m + 1 /\ new.n = st.n + kids
               /\ new.err = IF st.err = "ErrClosed" THEN "ErrClosed"
                            ELSE IF st.m + 1 = st.n + kids THEN "EOF" ELSE "nil"
  <1> DEFINE done == [st EXCEPT !.m = @ + 1, !.n = @ + kids]
  <1>1. /\ done.err = st.err /\ done.next = st.next /\ done.blocks = st.blocks
        /\ done.m = st.m + 1 /\ done.n = st.n + kids
        /\ done \in StreamFields
    <2>1. st.m + 1 \in Nat /\ st.n + kids \in Nat
      BY DEF StreamFields
    <2>2. done = [st EXCEPT !.m = st.m + 1, !.n = st.n + kids]
      OBVIOUS
    <2> HIDE DEF done
    <2>3. QED
      BY <2>1, <2>2 DEF StreamFields
  <1> HIDE DEF done
  <1>2. \A e : LET new == SetErr(done, e)
               IN  /\ new.next = done.next /\ new.blocks = done.blocks
                   /\ new.m = done.m /\ new.n = done.n
                   /\ new.err = IF done.err = "ErrClosed" THEN "ErrClosed" ELSE e
    BY <1>1 DEF SetErr, StreamFields
  <1>3. Completed(st, kids) = SetErr(done, IF done.m = done.n THEN "EOF" ELSE "nil")
    BY DEF Completed, done
  <1>4. QED
    BY <1>1, <1>2, <1>3

\* setErr changes nothing but the error.
LEMMA SetErrFields ==
    ASSUME NEW st \in StreamFields, NEW e
    PROVE  LET new == SetErr(st, e)
           IN  /\ new.next = st.next /\ new.blocks = st.blocks
               /\ new.m = st.m /\ new.n = st.n
               /\ new.err = IF st.err = "ErrClosed" THEN "ErrClosed" ELSE e
  BY DEF SetErr, StreamFields

SameNext == \A s \in Stream : stream'[s].next = stream[s].next

LEMMA RangesKeep ==
    ASSUME RangesFresh, NothingNew({}), SameNext
    PROVE  RangesFresh'
  <1>1. \A s \in Stream : MadeUpTo(s)' = MadeUpTo(s)
    BY DEF MadeUpTo, SameNext
  <1>2. \A c \in Chunk : (Held(c)' => Held(c)) /\ (Unused(c) => Unused(c)')
    BY DEF NothingNew, Unused
  <1>3. \A c \in Chunk : c.stream \in Stream
    BY ChunkElim
  <1>4. \A s \in Stream : stream'[s].next <= NumRoots(Query[s])
    BY DEF RangesFresh, SameNext
  <1>5. \A c \in Chunk : MadeUpTo(c.stream)' <= c.start => Unused(c)'
    BY <1>1, <1>2, <1>3 DEF RangesFresh
  <1>6. ASSUME NEW c \in Chunk, Held(c)'
        PROVE  /\ c.end <= MadeUpTo(c.stream)'
               /\ \A d \in Chunk :
                     /\ PartOf(d, c) => Unused(d)'
                     /\ Held(d)' /\ d.stream = c.stream /\ d # c => Apart(c, d)
    BY <1>1, <1>2, <1>3, <1>6 DEF RangesFresh
  <1>7. QED
    BY <1>4, <1>5, <1>6 DEF RangesFresh

LEMMA SplitRanges ==
    ASSUME IndTypeOK, RangesFresh, NEW x, SplitUp(x)
    PROVE  RangesFresh'
  <1> DEFINE kids == Children(x)
             K == {c \in Chunk : InSeq(c, kids)}
  <1>1. /\ x \in Chunk /\ Splittable(QueryOf(x), x) /\ Held(x) /\ ~Held(x)'
        /\ \A c \in K : Unused(c) /\ PartOf(c, x)
        /\ NothingNew(K)
        /\ stream' = [stream EXCEPT ![x.stream] = Completed(@, Len(kids))]
    BY DEF SplitUp
  <1>2. kids \in Seq(Chunk) /\ \A c, d \in K : c # d => Apart(c, d)
    BY <1>1, ChildrenFacts DEF InSeq
  <1>3. SameNext
    <2>1. stream \in [Stream -> StreamFields] /\ x.stream \in Stream /\ Len(kids) \in Nat
      BY <1>1, <1>2, ChunkElim DEF IndTypeOK, TypeOK
    <2>2. QED
      BY <1>1, <2>1, CompletedFields DEF SameNext
  <1> HIDE DEF kids, K
  <1>4. \A s \in Stream : MadeUpTo(s)' = MadeUpTo(s)
    BY <1>3 DEF MadeUpTo, SameNext
  <1>5. \A c \in Chunk \ K : (Held(c)' => Held(c)) /\ (Unused(c) => Unused(c)')
    BY <1>1 DEF NothingNew, Unused
  <1>6. \A c \in Chunk : /\ c.stream \in Stream /\ c.start < c.end
                         /\ c.start \in Nat /\ c.end \in Nat
    BY ChunkElim
  <1>7. x.end <= MadeUpTo(x.stream) /\ MadeUpTo(x.stream) \in Int
    <2>1. /\ stream[x.stream].next \in Nat /\ Query[x.stream].end \in Nat
          /\ x.stream \in Stream
      BY <1>1, <1>6, StreamQuery, QueryDurations
         DEF IndTypeOK, TypeOK, StreamFields
    <2>2. MadeUpTo(x.stream) \in Int
      BY <1>6, <2>1, RootIsChunk DEF MadeUpTo
    <2>3. QED
      BY <1>1, <2>2 DEF RangesFresh
  <1>8. \A s \in Stream : stream'[s].next <= NumRoots(Query[s])
    BY <1>3 DEF RangesFresh, SameNext
  <1>9. ASSUME NEW c \in Chunk, MadeUpTo(c.stream)' <= c.start
        PROVE  Unused(c)'
    <2>1. MadeUpTo(c.stream) <= c.start
      BY <1>4, <1>6, <1>9
    <2>2. c \notin K
      BY <1>1, <1>6, <1>7, <2>1 DEF PartOf
    <2>3. QED
      BY <1>5, <2>1, <2>2 DEF RangesFresh
  <1>10. ASSUME NEW c \in Chunk, Held(c)'
         PROVE  /\ c.end <= MadeUpTo(c.stream)'
                /\ \A d \in Chunk :
                      /\ PartOf(d, c) => Unused(d)'
                      /\ Held(d)' /\ d.stream = c.stream /\ d # c => Apart(c, d)
    <2>1. CASE c \in K
      <3>1. PartOf(c, x)
        BY <1>1, <2>1
      <3>2. c.end <= MadeUpTo(c.stream)'
        BY <1>1, <1>4, <1>6, <1>7, <3>1 DEF PartOf
      <3>3. ASSUME NEW d \in Chunk, PartOf(d, c)
            PROVE  Unused(d)'
        <4>1. d \notin K
          BY <1>2, <1>6, <2>1, <3>3 DEF PartOf, Apart
        <4>2. d # x
          BY <1>1, <1>6, <3>1, <3>3, ChunkExt DEF PartOf
        <4>3. PartOf(d, x)
          BY <1>1, <1>6, <3>1, <3>3, <4>2 DEF PartOf
        <4>4. QED
          BY <1>1, <1>5, <4>1, <4>3 DEF RangesFresh
      <3>4. ASSUME NEW d \in Chunk, Held(d)', d.stream = c.stream, d # c
            PROVE  Apart(c, d)
        <4>1. CASE d \in K
          BY <1>2, <2>1, <3>4, <4>1
        <4>2. CASE d \notin K
          <5>1. Held(d) /\ d # x
            BY <1>1, <1>5, <3>4, <4>2
          <5>2. Apart(x, d)
            BY <1>1, <3>1, <3>4, <5>1 DEF RangesFresh, PartOf
          <5>3. QED
            BY <1>1, <1>6, <3>1, <5>2 DEF Apart, PartOf
        <4>3. QED
          BY <4>1, <4>2
      <3>5. QED
        BY <3>2, <3>3, <3>4
    <2>2. CASE c \notin K
      <3>1. Held(c) /\ c # x
        BY <1>1, <1>5, <1>10, <2>2
      <3>2. c.end <= MadeUpTo(c.stream)'
        BY <1>4, <1>6, <3>1 DEF RangesFresh
      <3>3. c.stream = x.stream => Apart(c, x)
        BY <1>1, <3>1 DEF RangesFresh
      <3>4. ASSUME NEW d \in Chunk, PartOf(d, c)
            PROVE  Unused(d)'
        <4>1. d \notin K
          BY <1>1, <1>6, <3>3, <3>4 DEF PartOf, Apart
        <4>2. QED
          BY <1>5, <3>1, <3>4, <4>1 DEF RangesFresh
      <3>5. ASSUME NEW d \in Chunk, Held(d)', d.stream = c.stream, d # c
            PROVE  Apart(c, d)
        <4>1. CASE d \in K
          BY <1>1, <1>6, <3>3, <3>5, <4>1 DEF PartOf, Apart
        <4>2. CASE d \notin K
          BY <1>5, <3>1, <3>5, <4>2 DEF RangesFresh
        <4>3. QED
          BY <4>1, <4>2
      <3>6. QED
        BY <3>2, <3>4, <3>5
    <2>3. QED
      BY <2>1, <2>2
  <1>11. QED
    BY <1>8, <1>9, <1>10 DEF RangesFresh

\* The loop makes x, the next generation-0 chunk of stream s.
MakesRoot(s, x) ==
    /\ x = Root(s, stream[s].next)
    /\ stream' = [stream EXCEPT ![s].next = @ + 1]

\* What that leaves behind: the next one begins where x ends.
RootMade(s, x) ==
    /\ s \in Stream /\ x \in Chunk /\ x.stream = s
    /\ stream'[s].next = stream[s].next + 1
    /\ stream[s].next \in Nat /\ NumRoots(Query[s]) \in Nat
    /\ stream[s].next < NumRoots(Query[s])
    /\ MadeUpTo(s) = x.start /\ MadeUpTo(s)' = x.end
    /\ \A t \in Stream \ {s} : stream'[t] = stream[t]
    /\ \A t \in Stream \ {s} : MadeUpTo(t)' = MadeUpTo(t)

\* The loop makes the next generation-0 chunk, and there the next one begins.
LEMMA MadeFacts ==
    ASSUME IndTypeOK, NEW s \in pq, NEW x, MakesRoot(s, x)
    PROVE  RootMade(s, x)
  <1>0. /\ x = Root(s, stream[s].next)
        /\ stream' = [stream EXCEPT ![s].next = @ + 1]
    BY DEF MakesRoot
  <1> DEFINE i == stream[s].next
             n == NumRoots(Query[s])
  <1>1. /\ s \in Stream /\ i < n /\ stream \in [Stream -> StreamFields]
    BY DEF IndTypeOK, TypeOK, HeapHasRoots
  <1>2. i \in Nat /\ n \in Nat \ {0} /\ stream'[s].next = i + 1
    BY <1>0, <1>1, StreamQuery, RootsPartition DEF StreamFields
  <1>3. x \in Chunk /\ x.stream = s
    BY <1>0, <1>1, <1>2, RootIsChunk DEF Root
  <1>4. i \in 0 .. n - 1
    BY <1>1, <1>2
  <1>5. /\ i = n - 1 => x.end = Query[s].end
        /\ i < n - 1 => x.end = Root(s, i + 1).start
    BY <1>0, <1>1, <1>4, StreamQuery, RootsPartition DEF Root
  <1>6. MadeUpTo(s) = x.start
    BY <1>0, <1>1 DEF MadeUpTo, Root
  <1>7. MadeUpTo(s)' = x.end
    BY <1>1, <1>2, <1>5 DEF MadeUpTo
  <1>8. \A t \in Stream \ {s} : stream'[t] = stream[t]
    BY <1>0, <1>1
  <1>9. \A t \in Stream \ {s} : MadeUpTo(t)' = MadeUpTo(t)
    BY <1>8 DEF MadeUpTo
  <1>10. QED
    BY <1>1, <1>2, <1>3, <1>6, <1>7, <1>8, <1>9 DEF RootMade

LEMMA MadeRanges ==
    ASSUME IndTypeOK, RangesFresh, NEW x, Made(x)
    PROVE  RangesFresh'
  <1>1. PICK s \in pq :
            /\ x = Root(s, stream[s].next) /\ Unused(x) /\ NothingNew({x})
            /\ stream' = [stream EXCEPT ![s].next = @ + 1]
    BY DEF Made
  <1>2. /\ s \in Stream /\ x \in Chunk /\ x.stream = s
        /\ stream'[s].next = stream[s].next + 1
        /\ stream[s].next \in Nat /\ NumRoots(Query[s]) \in Nat
        /\ stream[s].next < NumRoots(Query[s])
        /\ MadeUpTo(s) = x.start /\ MadeUpTo(s)' = x.end
        /\ \A t \in Stream \ {s} : stream'[t] = stream[t]
        /\ \A t \in Stream \ {s} : MadeUpTo(t)' = MadeUpTo(t)
    <2>1. MakesRoot(s, x)
      BY <1>1 DEF MakesRoot
    <2>2. RootMade(s, x)
      BY <1>1, <2>1, MadeFacts
    <2>3. QED
      BY <2>2, Zenon DEF RootMade
  <1>3. \A c \in Chunk \ {x} : (Held(c)' => Held(c)) /\ (Unused(c) => Unused(c)')
    BY <1>1 DEF NothingNew, Unused
  <1>4. \A c \in Chunk : /\ c.stream \in Stream /\ c.start < c.end
                         /\ c.start \in Nat /\ c.end \in Nat
    BY ChunkElim
  <1>5. \A t \in Stream : stream'[t].next <= NumRoots(Query[t])
    BY <1>2 DEF RangesFresh
  <1>6. ASSUME NEW c \in Chunk, MadeUpTo(c.stream)' <= c.start
        PROVE  Unused(c)'
    <2>1. MadeUpTo(c.stream) <= c.start /\ c # x
      BY <1>2, <1>4, <1>6
    <2>2. QED
      BY <1>3, <2>1 DEF RangesFresh
  <1>7. ASSUME NEW c \in Chunk, Held(c)'
        PROVE  /\ c.end <= MadeUpTo(c.stream)'
               /\ \A d \in Chunk :
                     /\ PartOf(d, c) => Unused(d)'
                     /\ Held(d)' /\ d.stream = c.stream /\ d # c => Apart(c, d)
    <2>1. CASE c = x
      <3>1. ASSUME NEW d \in Chunk, PartOf(d, c)
            PROVE  Unused(d)'
        <4>1. d # x /\ MadeUpTo(d.stream) <= d.start
          BY <1>2, <2>1, <3>1 DEF PartOf
        <4>2. QED
          BY <1>3, <4>1 DEF RangesFresh
      <3>2. ASSUME NEW d \in Chunk, Held(d)', d.stream = c.stream, d # c
            PROVE  Apart(c, d)
        <4>1. d.end <= MadeUpTo(d.stream)
          BY <1>3, <2>1, <3>2 DEF RangesFresh
        <4>2. QED
          BY <1>2, <2>1, <3>2, <4>1 DEF Apart
      <3>3. QED
        BY <1>2, <1>4, <2>1, <3>1, <3>2
    <2>2. CASE c # x
      <3>1. Held(c) /\ c.end <= MadeUpTo(c.stream)
        BY <1>3, <1>7, <2>2 DEF RangesFresh
      <3>2. c.end <= MadeUpTo(c.stream)'
        BY <1>2, <1>4, <3>1
      <3>3. ASSUME NEW d \in Chunk, PartOf(d, c)
            PROVE  Unused(d)'
        <4>1. d # x
          BY <1>2, <1>4, <3>1, <3>3 DEF PartOf
        <4>2. QED
          BY <1>3, <3>1, <3>3, <4>1 DEF RangesFresh
      <3>4. ASSUME NEW d \in Chunk, Held(d)', d.stream = c.stream, d # c
            PROVE  Apart(c, d)
        <4>1. CASE d = x
          BY <1>2, <3>1, <3>4, <4>1 DEF Apart
        <4>2. CASE d # x
          BY <1>3, <3>1, <3>4, <4>2 DEF RangesFresh
        <4>3. QED
          BY <4>1, <4>2
      <3>5. QED
        BY <3>2, <3>3, <3>4
    <2>3. QED
      BY <2>1, <2>2
  <1>8. QED
    BY <1>5, <1>6, <1>7 DEF RangesFresh

(* The invariant. *)

LEMMA InitPlaces == Init => PlacesOK /\ RangesFresh
  <1> SUFFICES ASSUME Init PROVE PlacesOK /\ RangesFresh
    OBVIOUS
  <1>1. IndTypeOK
    BY InitType
  <1>2. \A p \in Place : Queues[p] = <<>>
    BY DEF Init, Queues, Place, Worker
  <1>3. \A p \in Place : \A c : ~At(c, p)
    BY <1>2 DEF At, InSeq
  <1>4. OneSpot /\ ChunksFit
    BY <1>2, <1>3 DEF OneSpot, NoRepeat, ChunksFit
  <1>5. ClosedFirst
    BY DEF Init, ClosedFirst
  <1>6. \A c \in Chunk : Unused(c)
    BY <1>3, HeldAt DEF Init, Unused
  <1>7. NoOrphanWhileOpen
    BY <1>6 DEF NoOrphanWhileOpen, Unused
  <1>8. NoInternalError
    BY DEF Init, NoInternalError, NewStream, InternalErr
  <1>9. CountsExact
    <2>1. Starting = {} /\ Polling = {} /\ Stopping = {}
      BY <1>3 DEF Starting, Polling, Stopping, CountedAs, Place
    <2>2. QED
      BY <2>1, FS_EmptySet DEF Init, CountsExact
  <1>10. RangesFresh
    <2>1. \A s \in Stream : stream[s].next <= NumRoots(Query[s])
      <3>1. \A s \in Stream : NumRoots(Query[s]) \in Nat
        BY StreamQuery, RootsPartition
      <3>2. QED
        BY <3>1 DEF Init, NewStream
    <2>2. QED
      BY <1>6, <2>1 DEF RangesFresh, Unused
  <1>11. QED
    BY <1>1, <1>4, <1>5, <1>7, <1>8, <1>9, <1>10 DEF PlacesOK

\* Everything a step of the loop or a worker may do to the streams.
LEMMA SystemEffect ==
    ASSUME PlacesOK, RangesFresh, SystemStep
    PROVE  \/ Quiet
           \/ \E x \in Chunk : \/ Delivered(x) \/ GivenUp(x) \/ Finishes(x)
                               \/ SplitUp(x) \/ Made(x)
           \/ CloseStreams
  <1>1. CASE StarterStep \/ PollerStep \/ StopperStep
    BY <1>1, WorkerNames, CommonEffect, StarterAnswerEffect,
       PollerAnswerEffect, StopperAnswerEffect
       DEF StarterStep, PollerStep, StopperStep
  <1>2. CASE FillDone \/ Exit \/ Stopped
    <2>1. AllStay /\ UNCHANGED stream
      BY <1>2 DEF FillDone, Exit, Stopped, AllStay, workerVars
    <2>2. QED
      BY <2>1, StayStages DEF Quiet
  <1>3. CASE HandleChunk
    <2>1. CASE HandleSplit
      <3>1. SplitUp(Updated)
        BY <2>1, SplitEffect
      <3>2. Updated \in Chunk
        BY <3>1 DEF SplitUp
      <3>3. QED
        BY <3>1, <3>2
    <2>2. CASE ~HandleSplit
      BY <1>3, <2>2, HandlerEffect
    <2>3. QED
      BY <2>1, <2>2
  <1>4. CASE FillReady \/ FillNext
    BY <1>4, FillEffect
  <1>5. CASE DrainLive \/ DrainDead \/ DrainStopping \/ DrainStop
    BY <1>5, DrainEffect
  <1>6. QED
    BY <1>1, <1>2, <1>3, <1>4, <1>5 DEF SystemStep, LoopStep

LEMMA RangesStep ==
    ASSUME PlacesOK, RangesFresh, [Next]_vars
    PROVE  RangesFresh'
  <1>1. IndTypeOK /\ stream \in [Stream -> StreamFields]
    BY DEF PlacesOK, IndTypeOK, TypeOK
  <1>2. CASE Quiet
    BY <1>2, RangesKeep DEF Quiet, SameNext
  <1>3. ASSUME NEW x \in Chunk, Delivered(x) \/ GivenUp(x) \/ Finishes(x)
        PROVE  RangesFresh'
    <2>1. x.stream \in Stream /\ NothingNew({})
      BY <1>3, ChunkElim DEF Delivered, GivenUp, Finishes, Turns
    <2>2. SameNext
      <3>1. CASE Delivered(x)
        BY <1>1, <3>1 DEF Delivered, SameNext, StreamFields
      <3>2. CASE GivenUp(x)
        BY <1>1, <2>1, <3>2, SetErrFields DEF GivenUp, KillStream, SameNext
      <3>3. CASE Finishes(x)
        BY <1>1, <2>1, <3>3, CompletedFields DEF Finishes, SameNext
      <3>4. QED
        BY <1>3, <3>1, <3>2, <3>3
    <2>3. QED
      BY <2>1, <2>2, RangesKeep
  <1>4. ASSUME NEW x \in Chunk, SplitUp(x) \/ Made(x)
        PROVE  RangesFresh'
    BY <1>1, <1>4, SplitRanges, MadeRanges
  <1>5. CASE CloseStreams
    <2>1. AllStay
      BY <1>5 DEF CloseStreams, AllStay, workerVars
    <2>2. SameNext
      BY <1>1, <1>5, SetErrFields DEF CloseStreams, SameNext
    <2>3. QED
      BY <2>1, <2>2, StayStages, RangesKeep
  <1>6. CASE ProgramStep \/ UNCHANGED vars
    <2>1. AllStay
      BY <1>6 DEF ProgramStep, Close, SubmitQuery, StreamClose, ReadError,
                  AllStay, mgrVars, workerVars, vars
    <2>2. SameNext
      <3>1. ASSUME NEW s \in Stream, StreamClose(s)
            PROVE  SameNext
        BY <1>1, <3>1 DEF StreamClose, SameNext, StreamFields
      <3>2. CASE UNCHANGED stream
        BY <3>2 DEF SameNext
      <3>3. QED
        BY <1>6, <3>1, <3>2
           DEF ProgramStep, Close, SubmitQuery, ReadError, vars
    <2>3. QED
      BY <2>1, <2>2, StayStages, RangesKeep
  <1>7. QED
    BY <1>2, <1>3, <1>4, <1>5, <1>6, SystemEffect DEF Next

LEMMA PlacesKept ==
    ASSUME PlacesOK, RangesFresh, [Next]_vars
    PROVE  PlacesOK'
  <1>1. IndTypeOK'
    BY StepInv DEF PlacesOK
  <1>2. CASE LoopStep
    <2>1. CASE HandleChunk
      BY <1>1, <2>1, HandleStartPlaces, HandlePollingPlaces, HandleEndPlaces,
         HandleSplitPlaces DEF HandleChunk
    <2>2. CASE FillReady \/ FillNext
      BY <1>1, <2>2, FillReadyPlaces, FillNextPlaces
    <2>3. CASE DrainLive \/ DrainDead \/ DrainStopping \/ DrainStop
      BY <1>1, <2>3, DrainPlaces, DrainStopPlaces
    <2>4. CASE FillDone \/ Exit \/ CloseStreams \/ Stopped
      BY <1>1, <2>4, ControlPlaces
    <2>5. QED
      BY <1>2, <2>1, <2>2, <2>3, <2>4 DEF LoopStep
  <1>3. CASE StarterStep \/ PollerStep \/ StopperStep
    BY <1>1, <1>3, WorkerNames, PopPlaces, WaitBeginPlaces, ReleasePlaces,
       StarterAnswerPlaces, PollerAnswerPlaces, StopperAnswerPlaces
       DEF StarterStep, PollerStep, StopperStep, CommonStep
  <1>4. CASE ProgramStep
    BY <1>1, <1>4, ProgramPlaces
  <1>5. CASE UNCHANGED vars
    <2>1. ClosedFirst' /\ NoInternalError'
      BY <1>5 DEF PlacesOK, ClosedFirst, NoInternalError, vars
    <2>2. QED
      BY <1>1, <1>5, <2>1, PlacesStay DEF vars, PlacesOK, CountsExact
  <1>6. QED
    BY <1>2, <1>3, <1>4, <1>5 DEF Next, SystemStep

\* Each chunk is in one queue that fits it, the counters count, and no chunk
\* is used twice.
THEOREM PlacesInvariant == Spec => [](PlacesOK /\ RangesFresh)
  <1>1. PlacesOK /\ RangesFresh /\ [Next]_vars => PlacesOK' /\ RangesFresh'
    BY PlacesKept, RangesStep
  <1>2. QED
    BY <1>1, InitPlaces, PTL DEF Spec

(* What it means for the queues. *)

LEMMA OccurrencesOnce ==
    ASSUME NEW S, NEW q \in Seq(S), NoRepeat(q), NEW c \in S
    PROVE  Occurrences(q, c) = IF InSeq(c, q) THEN 1 ELSE 0
  <1>1. PositionsOf(q, {c}) = {i \in DOMAIN q : q[i] = c}
    BY DEF PositionsOf
  <1>2. Elements(S, q) \cap {c} = IF InSeq(c, q) THEN {c} ELSE {}
    BY DEF Elements
  <1>3. Cardinality(Elements(S, q) \cap {c}) = IF InSeq(c, q) THEN 1 ELSE 0
    BY <1>2, FS_Singleton, FS_EmptySet
  <1>4. Cardinality(Elements(S, q) \cap {c}) = Cardinality(PositionsOf(q, {c}))
    <2>1. CountedOnce(S, q, {c})
      BY CountPositions
    <2>2. QED
      BY <2>1, Zenon DEF CountedOnce
  <1>5. QED
    BY <1>1, <1>3, <1>4 DEF Occurrences

\* No chunk is in two places, so no two goroutines ever own it at once.
THEOREM ChunkInOnePlace == Spec => []OnePlace
  <1>1. PlacesOK => OnePlace
    <2> SUFFICES ASSUME PlacesOK, NEW c \in Chunk
                 PROVE  Places(c) <= 1
      BY DEF OnePlace
    <2>1. \A p \in Place : Occurrences(Queues[p], c) = IF At(c, p) THEN 1 ELSE 0
      BY QueuesType, OccurrencesOnce DEF PlacesOK, OneSpot, At
    <2>2. \A p, r \in Place : At(c, p) /\ At(c, r) => p = r
      BY DEF PlacesOK, OneSpot
    <2>3. Places(c) =
              Occurrences(Queues["ready"], c) + Occurrences(Queues["update"], c)
              + (Occurrences(Queues["start"], c) + Occurrences(Queues["starter"], c))
              + (Occurrences(Queues["poll"], c) + Occurrences(Queues["poller"], c))
              + (Occurrences(Queues["stop"], c) + Occurrences(Queues["stopper"], c))
      BY DEF Places, Queues
    <2>4. QED
      BY <2>1, <2>2, <2>3 DEF Place
  <1>2. QED
    BY <1>1, PlacesInvariant, PTL

LEMMA DisjointUnion ==
    ASSUME NEW A, NEW B, IsFiniteSet(A), IsFiniteSet(B), A \cap B = {}
    PROVE  /\ IsFiniteSet(A \cup B)
           /\ Cardinality(A \cup B) = Cardinality(A) + Cardinality(B)
           /\ Cardinality(A) \in Nat /\ Cardinality(B) \in Nat
  <1>1. Cardinality(A) \in Nat /\ Cardinality(B) \in Nat
    BY FS_CardinalityType
  <1>2. Cardinality(A \cap B) = 0
    BY FS_EmptySet
  <1>3. /\ IsFiniteSet(A \cup B)
        /\ Cardinality(A \cup B) =
               Cardinality(A) + Cardinality(B) - Cardinality(A \cap B)
    BY FS_Union
  <1>4. QED
    BY <1>1, <1>2, <1>3

\* The chunks counted for a worker: those it has, and those on their way back.
LEMMA CountedLen ==
    ASSUME PlacesOK, NEW w \in Worker, NEW states
    PROVE  Cardinality({c \in Chunk : CountedAs(c, {Channel(w), w}, states)})
             = Len(in[w]) + Len(ring[w])
               + Cardinality({i \in DOMAIN update :
                                 chunk[update[i]].state \in states})
  <1> DEFINE T == {c \in Chunk : chunk[c].state \in states}
             A == Elements(Chunk, in[w])
             B == Elements(Chunk, ring[w])
             C == Elements(Chunk, update) \cap T
  <1>1. /\ Queues[w] = ring[w] /\ Queues[Channel(w)] = in[w]
        /\ Queues["update"] = update
        /\ w \in Place /\ Channel(w) \in Place /\ "update" \in Place
        /\ w # Channel(w) /\ "update" \notin {w, Channel(w)}
    BY WorkerPlaces DEF Queues
  <1>2. /\ in[w] \in Seq(Chunk) /\ NoRepeat(in[w])
        /\ ring[w] \in Seq(Chunk) /\ NoRepeat(ring[w])
        /\ update \in Seq(Chunk) /\ NoRepeat(update)
    BY <1>1, QueuesType DEF PlacesOK, OneSpot
  <1>3. /\ IsFiniteSet(A) /\ Cardinality(A) = Len(in[w])
        /\ IsFiniteSet(B) /\ Cardinality(B) = Len(ring[w])
    BY <1>2, CountElements
  <1>4. IsFiniteSet(C) /\ Cardinality(C) = Cardinality(PositionsOf(update, T))
    <2> HIDE DEF T
    <2>1. CountedOnce(Chunk, update, T)
      BY <1>2, CountPositions
    <2>2. QED
      BY <2>1, Zenon DEF CountedOnce
  <1>5. PositionsOf(update, T) =
            {i \in DOMAIN update : chunk[update[i]].state \in states}
    BY <1>2 DEF PositionsOf
  <1>6. A \cap B = {} /\ (A \cup B) \cap C = {}
    BY <1>1 DEF PlacesOK, OneSpot, At, Elements
  <1>7. {c \in Chunk : CountedAs(c, {Channel(w), w}, states)} = (A \cup B) \cup C
    BY <1>1 DEF CountedAs, At, Elements
  <1> HIDE DEF A, B, C, T
  <1>8. /\ IsFiniteSet(A \cup B)
        /\ Cardinality(A \cup B) = Cardinality(A) + Cardinality(B)
    BY <1>3, <1>6, DisjointUnion
  <1>9. Cardinality((A \cup B) \cup C) = Cardinality(A \cup B) + Cardinality(C)
    BY <1>4, <1>6, <1>8, DisjointUnion
  <1>10. QED
    BY <1>3, <1>4, <1>5, <1>7, <1>8, <1>9

LEMMA KindsOf ==
    /\ Starting = {c \in Chunk : CountedAs(c, {Channel("starter"), "starter"},
                                           {"starting", "started"})}
    /\ Polling = {c \in Chunk : CountedAs(c, {Channel("poller"), "poller"},
                                          {"polling", "complete"})}
    /\ Stopping = {c \in Chunk : CountedAs(c, {Channel("stopper"), "stopper"},
                                           {"stopping"})}
  BY DEF Starting, Polling, Stopping, Channel

\* The counters of mgr.go:29-31 are exact in all states.
THEOREM CountersExact == Spec => []CountersMatch
  <1>1. PlacesOK => CountersMatch
    <2> SUFFICES ASSUME PlacesOK PROVE CountersMatch
      OBVIOUS
    <2>1. "starter" \in Worker /\ "poller" \in Worker /\ "stopper" \in Worker
      BY WorkerNames
    <2>2. /\ num.starting = Cardinality(Starting)
          /\ num.polling = Cardinality(Polling)
          /\ num.stopping = Cardinality(Stopping)
      BY DEF PlacesOK, CountsExact
    <2>3. QED
      BY <2>1, <2>2, KindsOf, CountedLen DEF CountersMatch
  <1>2. QED
    BY <1>1, PlacesInvariant, PTL

\* All chunks in flight are in one of the counts.
Flying == (Starting \cup Polling) \cup Stopping

LEMMA FlyingBounded ==
    ASSUME PlacesOK, InFlightWithinParallel
    PROVE  /\ IsFiniteSet(Flying) /\ Cardinality(Flying) <= Parallel
           /\ Parallel \in Nat
  <1>1. /\ IsFiniteSet(Starting) /\ IsFiniteSet(Polling) /\ IsFiniteSet(Stopping)
        /\ Cardinality(Starting) \in Nat /\ Cardinality(Polling) \in Nat
        /\ Cardinality(Stopping) \in Nat
    BY KindsFinite, FS_CardinalityType
  <1>2. /\ Starting \cap Polling = {} /\ (Starting \cup Polling) \cap Stopping = {}
    BY DEF Starting, Polling, Stopping, CountedAs, PlacesOK, OneSpot, Place
  <1>3. /\ IsFiniteSet(Starting \cup Polling)
        /\ Cardinality(Starting \cup Polling)
             = Cardinality(Starting) + Cardinality(Polling)
    BY <1>1, <1>2, DisjointUnion
  <1>4. /\ IsFiniteSet(Flying)
        /\ Cardinality(Flying) = Cardinality(Starting \cup Polling) + Cardinality(Stopping)
    BY <1>1, <1>2, <1>3, DisjointUnion DEF Flying
  <1>5. QED
    BY <1>1, <1>3, <1>4, LimitAssumption
       DEF PlacesOK, CountsExact, InFlightWithinParallel, InFlight

LEMMA QueueBounded ==
    ASSUME PlacesOK, InFlightWithinParallel, NEW p \in Place \ {"ready"}
    PROVE  Len(Queues[p]) <= Parallel
  <1>1. Queues[p] \in Seq(Chunk) /\ NoRepeat(Queues[p])
    BY QueuesType DEF PlacesOK, OneSpot
  <1>2. /\ IsFiniteSet(Elements(Chunk, Queues[p]))
        /\ Cardinality(Elements(Chunk, Queues[p])) = Len(Queues[p])
    BY <1>1, CountElements
  <1>3. Elements(Chunk, Queues[p]) \in SUBSET Flying
    <2> SUFFICES ASSUME NEW c \in Chunk, At(c, p)
                 PROVE  c \in Flying
      BY DEF Elements, At
    <2>1. Fits(c, p)
      BY DEF PlacesOK, ChunksFit
    <2>2. QED
      BY <2>1 DEF Flying, Starting, Polling, Stopping, CountedAs, Fits, Place
  <1>4. /\ IsFiniteSet(Flying) /\ Cardinality(Flying) <= Parallel
        /\ Parallel \in Nat
    BY FlyingBounded
  <1>5. QED
    BY <1>1, <1>2, <1>3, <1>4, FS_Subset, FS_CardinalityType

\* No send on a channel can block its sender.
THEOREM NoSendBlocks == Spec => []ChannelsFit
  <1>1. PlacesOK /\ InFlightWithinParallel => ChannelsFit
    <2> SUFFICES ASSUME PlacesOK, InFlightWithinParallel PROVE ChannelsFit
      OBVIOUS
    <2>1. \A w \in Worker : Len(in[w]) <= Parallel
      <3> TAKE w \in Worker
      <3>1. Channel(w) \in Place \ {"ready"} /\ Queues[Channel(w)] = in[w]
        BY WorkerPlaces DEF Channel, Worker
      <3>2. QED
        BY <3>1, QueueBounded
    <2>2. Len(update) <= 3 * Parallel
      <3>1. "update" \in Place \ {"ready"} /\ Queues["update"] = update
        BY DEF Place, Queues
      <3>2. Len(update) <= Parallel /\ update \in Seq(Chunk)
        BY <3>1, QueueBounded, QueuesType DEF PlacesOK
      <3>3. QED
        BY <3>2, LimitAssumption
    <2>3. QED
      BY <2>1, <2>2 DEF ChannelsFit
  <1>2. QED
    BY <1>1, PlacesInvariant, InFlightBounded, PTL

\* Until the manager is closed no running Insights query is forgotten.
THEOREM NoneForgotten == Spec => []NoOrphanWhileOpen
  <1>1. PlacesOK => NoOrphanWhileOpen
    BY DEF PlacesOK
  <1>2. QED
    BY <1>1, PlacesInvariant, PTL

\* An instruction to the loop never becomes the error of a stream.
THEOREM InstructionsStayInside == Spec => []NoInternalError
  <1>1. PlacesOK => NoInternalError
    BY DEF PlacesOK
  <1>2. QED
    BY <1>1, PlacesInvariant, PTL

\* While the manager is open, at most Config.Parallel Insights queries run.
THEOREM FewOpenQueries == Spec => []OpenQueriesWithinParallel
  <1>1. PlacesOK /\ InFlightWithinParallel => OpenQueriesWithinParallel
    <2> SUFFICES ASSUME PlacesOK, InFlightWithinParallel, ~closing
                 PROVE  Cardinality({c \in Chunk : remote[c] = "running"})
                            <= Parallel
      BY DEF OpenQueriesWithinParallel
    <2> DEFINE R == {c \in Chunk : remote[c] = "running"}
    <2>1. R \in SUBSET Flying
      <3> SUFFICES ASSUME NEW c \in Chunk, remote[c] = "running"
                   PROVE  c \in Flying
        OBVIOUS
      <3>1. PICK p \in Place : At(c, p) /\ Fits(c, p)
        BY HeldAt DEF PlacesOK, NoOrphanWhileOpen, ChunksFit
      <3>2. p # "ready"
        BY <3>1 DEF Fits
      <3>3. QED
        BY <3>1, <3>2 DEF Flying, Starting, Polling, Stopping, CountedAs, Fits, Place
    <2>2. /\ IsFiniteSet(Flying) /\ Cardinality(Flying) <= Parallel
          /\ Parallel \in Nat
      BY FlyingBounded
    <2> HIDE DEF R
    <2>3. Cardinality(R) <= Parallel
      BY <2>1, <2>2, FS_Subset, FS_CardinalityType
    <2>4. QED
      BY <2>3 DEF R
  <1>2. QED
    BY <1>1, PlacesInvariant, InFlightBounded, PTL
=============================================================================
