------------------------- MODULE QueryManagerProofs -------------------------
(***************************************************************************)
(* Theorems about QueryManager, for any number of streams, any queries and *)
(* any configuration.                                                      *)
(***************************************************************************)
EXTENDS QueryManager, RangesProofs

(* Chunks. *)

LEMMA StreamQuery ==
    ASSUME NEW s \in Stream
    PROVE  Query[s] \in ValidQuery
  BY QueryAssumption

LEMMA ChunkIntro ==
    ASSUME NEW s \in Stream, NEW a \in Nat, NEW b \in Nat,
           Query[s].start <= a, a < b, b <= Query[s].end
    PROVE  [stream |-> s, start |-> a, end |-> b] \in Chunk
  <1> DEFINE T == Query[s].start .. Query[s].end
             c == [stream |-> s, start |-> a, end |-> b]
  <1>1. Query[s].start \in Nat /\ Query[s].end \in Nat
    BY StreamQuery, QueryDurations
  <1>2. a \in T /\ b \in T
    BY <1>1
  <1>3. c \in {[stream |-> s, start |-> x, end |-> y] : x, y \in T}
    BY <1>2
  <1>4. c \in ChunksOf(s)
    BY <1>3 DEF ChunksOf
  <1>5. QED
    BY <1>4 DEF Chunk

LEMMA ChunkElim ==
    ASSUME NEW c \in Chunk
    PROVE  /\ c.stream \in Stream /\ QueryOf(c) \in ValidQuery
           /\ c.start \in Nat /\ c.end \in Nat /\ c.start < c.end
           /\ QueryOf(c).start <= c.start /\ c.end <= QueryOf(c).end
  <1>1. PICK s \in Stream : c \in ChunksOf(s)
    BY DEF Chunk
  <1>2. Query[s].start \in Nat /\ Query[s].end \in Nat
    BY StreamQuery, QueryDurations
  <1> DEFINE T == Query[s].start .. Query[s].end
  <1>3. c.start < c.end /\ \E x \in T, y \in T :
            c = [stream |-> s, start |-> x, end |-> y]
    BY <1>1 DEF ChunksOf
  <1>4. QED
    BY <1>2, <1>3, StreamQuery DEF QueryOf

LEMMA RootIsChunk ==
    ASSUME NEW s \in Stream, NEW i \in Nat, i < NumRoots(Query[s])
    PROVE  Root(s, i) \in Chunk
  <1> DEFINE r == NextChunkRange(Query[s], i)
  <1>1. Query[s] \in ValidQuery
    BY StreamQuery
  <1>2. i \in 0 .. NumRoots(Query[s]) - 1
    BY <1>1, RootsPartition
  <1>3. r \in TimeRange /\ Query[s].start <= r.start /\ r.end <= Query[s].end
    BY <1>1, <1>2, RootsPartition
  <1> HIDE DEF r
  <1>4. r.start \in Nat /\ r.end \in Nat /\ r.start < r.end
    BY <1>3 DEF TimeRange
  <1>5. [stream |-> s, start |-> r.start, end |-> r.end] \in Chunk
    BY <1>3, <1>4, ChunkIntro
  <1>6. QED
    BY <1>5 DEF Root, r

LEMMA ChildrenAreChunks ==
    ASSUME NEW c \in Chunk, Splittable(QueryOf(c), c)
    PROVE  Children(c) \in Seq(Chunk)
  <1> DEFINE until == SplitUntil(QueryOf(c))
             rs == SplitRange(c, until)
  <1>1. /\ c.stream \in Stream /\ QueryOf(c) \in ValidQuery
        /\ c.start \in Nat /\ c.end \in Nat
        /\ QueryOf(c).start <= c.start /\ c.end <= QueryOf(c).end
        /\ QueryOf(c).start \in Nat /\ QueryOf(c).end \in Nat
    BY ChunkElim, QueryDurations
  <1>2. until \in Nat \ {0} /\ until < Duration(c)
    BY <1>1, QueryDurations DEF Splittable, Duration
  <1>3. Children(c) = [k \in DOMAIN rs |->
            [stream |-> c.stream, start |-> rs[k].start, end |-> rs[k].end]]
    BY DEF Children
  <1> HIDE DEF until
  <1>4. PICK n \in 2 .. splitBits :
            /\ DOMAIN rs = 1 .. n
            /\ \A k \in 1 .. n : /\ rs[k] \in TimeRange
                                 /\ c.start <= rs[k].start
                                 /\ rs[k].end <= c.end
    BY <1>1, <1>2, SplitPartition
  <1> HIDE DEF rs
  <1>5. ASSUME NEW k \in 1 .. n
        PROVE  [stream |-> c.stream, start |-> rs[k].start,
                end |-> rs[k].end] \in Chunk
    <2>1. rs[k].start \in Nat /\ rs[k].end \in Nat
          /\ rs[k].start < rs[k].end
      BY <1>4 DEF TimeRange
    <2>2. Query[c.stream].start <= rs[k].start
          /\ rs[k].end <= Query[c.stream].end
      BY <1>1, <1>4, <2>1 DEF QueryOf
    <2>3. QED
      BY <1>1, <2>1, <2>2, ChunkIntro
  <1>6. n \in Nat
    BY DEF splitBits
  <1>7. QED
    BY <1>3, <1>4, <1>5, <1>6

(* The fields of new chunks and streams. *)

LEMMA NewFields ==
    /\ NewChunk \in ChunkFields
    /\ \A s \in Stream : NewStream(s) \in StreamFields
  <1>1. NewChunk \in ChunkFields
    BY LimitAssumption DEF NewChunk, ChunkFields, Err, PublicErr
  <1>2. ASSUME NEW s \in Stream
        PROVE  NewStream(s) \in StreamFields
    <2>1. NumRoots(Query[s]) \in Nat
      BY StreamQuery, RootsPartition
    <2>2. QED
      BY <2>1 DEF NewStream, StreamFields, Err, PublicErr
  <1>3. QED
    BY <1>1, <1>2

LEMMA InitType == Init => IndTypeOK
  <1> SUFFICES ASSUME Init PROVE IndTypeOK
    OBVIOUS
  <1>1. /\ chunk \in [Chunk -> ChunkFields]
        /\ stream \in [Stream -> StreamFields]
    BY NewFields DEF Init
  <1>2. TypeOK
    <2>1. "nil" \in Err
      BY DEF Err, PublicErr
    <2>2. parallel \in 1 .. Parallel
      BY LimitAssumption DEF Init
    <2>3. <<>> \in Seq(Chunk)
      OBVIOUS
    <2>4. /\ ready \in Seq(Chunk) /\ update \in Seq(Chunk)
          /\ in \in [Worker -> Seq(Chunk)] /\ ring \in [Worker -> Seq(Chunk)]
      BY <2>3 DEF Init
    <2>5. /\ num \in [starting : Int, polling : Int, stopping : Int]
          /\ pq \subseteq Stream /\ accepted \subseteq Stream
          /\ loop \in {"select", "fill", "drain", "drainStop", "stopped", "panic"}
      BY DEF Init
    <2>6. closing \in BOOLEAN
      BY Zenon DEF Init
    <2>7. /\ pc \in [Worker -> {"pop", "wait", "call", "release", "done",
                                "panic"}]
          /\ remote \in [Chunk -> {"none", "running", "ended"}]
          /\ reported \in [Stream -> Err]
      BY <2>1 DEF Init
    <2>8. QED
      BY <1>1, <2>2, <2>4, <2>5, <2>6, <2>7 DEF TypeOK
  <1>3. \A c \in Chunk : chunk[c].err = "nil"
    BY DEF Init, NewChunk
  <1>4. \A s \in Stream : stream[s].next = 0
    BY DEF Init, NewStream
  <1>5. QED
    BY <1>2, <1>3, <1>4 DEF Init, IndTypeOK, WorkersHaveChunk, HeapHasRoots,
                      SplitsAreLong

(* The parts of a step. *)

LEMMA KillStreamType ==
    ASSUME stream \in [Stream -> StreamFields], NEW c \in Chunk,
           NEW e \in Err, KillStream(c, e)
    PROVE  /\ stream' \in [Stream -> StreamFields]
           /\ \A s \in Stream : stream'[s].next = stream[s].next
  <1>1. c.stream \in Stream
    BY ChunkElim
  <1>2. ASSUME NEW st \in StreamFields
        PROVE  SetErr(st, e) \in StreamFields /\ SetErr(st, e).next = st.next
    BY DEF SetErr, StreamFields
  <1>3. QED
    BY <1>1, <1>2 DEF KillStream

LEMMA HeadTail ==
    ASSUME NEW S, NEW q \in Seq(S), q # <<>>
    PROVE  Head(q) \in S /\ Tail(q) \in Seq(S)
  OBVIOUS

LEMMA AppendType ==
    ASSUME NEW S, NEW q \in Seq(S), NEW x \in S
    PROVE  Append(q, x) \in Seq(S) /\ Append(q, x) # <<>>
  <1>1. Append(q, x) \in Seq(S)
    OBVIOUS
  <1>2. Len(Append(q, x)) = Len(q) + 1 /\ Len(q) \in Nat
    OBVIOUS
  <1>3. Len(<<>>) = 0
    OBVIOUS
  <1>4. Append(q, x) # <<>>
    BY <1>2, <1>3
  <1>5. QED
    BY <1>1, <1>4

\* A send on one of the channels, and a push on one of the rings.
LEMMA SendType ==
    ASSUME NEW q \in [Worker -> Seq(Chunk)], NEW w \in Worker, NEW c \in Chunk
    PROVE  [q EXCEPT ![w] = Append(@, c)] \in [Worker -> Seq(Chunk)]
  <1>1. Append(q[w], c) \in Seq(Chunk)
    BY AppendType
  <1>2. QED
    BY <1>1

LEMMA WorkerNames ==
    "starter" \in Worker /\ "poller" \in Worker /\ "stopper" \in Worker
  BY DEF Worker

LEMMA ErrNames == PublicErr \subseteq Err /\ InternalErr \subseteq Err
  BY DEF Err

NumType == [starting : Int, polling : Int, stopping : Int]

\* A chunk moves from one worker's count to another's, or leaves the counts.
LEMMA NumMove ==
    ASSUME NEW k \in NumType
    PROVE  /\ [k EXCEPT !.starting = @ - 1, !.polling = @ + 1] \in NumType
           /\ [k EXCEPT !.starting = @ - 1, !.stopping = @ + 1] \in NumType
           /\ [k EXCEPT !.polling = @ - 1, !.stopping = @ + 1] \in NumType
           /\ [k EXCEPT !.polling = @ - 1] \in NumType
           /\ [k EXCEPT !.stopping = @ - 1] \in NumType
  <1>1. /\ k.starting - 1 \in Int /\ k.polling - 1 \in Int /\ k.stopping - 1 \in Int
        /\ k.polling + 1 \in Int /\ k.stopping + 1 \in Int
    BY DEF NumType
  <1>2. QED
    BY <1>1 DEF NumType

\* What a handler of the manager loop may assume, and what it leaves alone.
LEMMA ReceiveType ==
    ASSUME IndTypeOK, NEW state, Receive(state)
    PROVE  /\ Updated \in Chunk /\ update' \in Seq(Chunk) /\ loop' = "fill"
           /\ chunk[Updated].state = state
           /\ UNCHANGED <<closing, accepted, reported, ring, pc, pq, remote>>
  <1>1. update \in Seq(Chunk) /\ update # <<>>
    BY DEF Receive, IndTypeOK, TypeOK
  <1>2. Updated \in Chunk /\ Tail(update) \in Seq(Chunk)
    BY <1>1, HeadTail DEF Updated
  <1>3. QED
    BY <1>2 DEF Receive, userVars, workerVars

LEMMA StopChunkType ==
    ASSUME in \in [Worker -> Seq(Chunk)], chunk \in [Chunk -> ChunkFields],
           SplitsAreLong, NEW c \in Chunk, StopChunk(c)
    PROVE  /\ in' \in [Worker -> Seq(Chunk)]
           /\ chunk' \in [Chunk -> ChunkFields] /\ SplitsAreLong'
  <1>1. in' \in [Worker -> Seq(Chunk)]
    BY SendType, WorkerNames DEF StopChunk
  <1>2. chunk' \in [Chunk -> ChunkFields] /\ SplitsAreLong'
    BY DEF StopChunk, ChunkFields, SplitsAreLong
  <1>3. QED
    BY <1>1, <1>2

LEMMA SetErrType ==
    ASSUME NEW st \in StreamFields, NEW e \in Err
    PROVE  SetErr(st, e) \in StreamFields /\ SetErr(st, e).next = st.next
  BY DEF SetErr, StreamFields

LEMMA CompletedType ==
    ASSUME NEW st \in StreamFields, NEW kids \in Nat
    PROVE  /\ Completed(st, kids) \in StreamFields
           /\ Completed(st, kids).next = st.next
  <1> DEFINE done == [st EXCEPT !.m = @ + 1, !.n = @ + kids]
  <1>1. done \in StreamFields /\ done.next = st.next
    <2>1. st.m + 1 \in Nat /\ st.n + kids \in Nat
      BY DEF StreamFields
    <2>2. QED
      BY <2>1 DEF StreamFields
  <1>2. "EOF" \in Err /\ "nil" \in Err
    BY DEF Err, PublicErr
  <1> HIDE DEF done
  <1>3. QED
    BY <1>1, <1>2, SetErrType DEF Completed, done

\* The variables a handler may change keep their types.
HandlerOK ==
    /\ num' \in NumType
    /\ parallel' \in 1 .. Parallel
    /\ ready' \in Seq(Chunk)
    /\ in' \in [Worker -> Seq(Chunk)]
    /\ chunk' \in [Chunk -> ChunkFields]
    /\ SplitsAreLong'
    /\ stream' \in [Stream -> StreamFields]
    /\ \A s \in Stream : stream'[s].next = stream[s].next

LEMMA HandlerInv ==
    ASSUME IndTypeOK, NEW state, Receive(state), HandlerOK
    PROVE  IndTypeOK'
  <1>1. /\ update' \in Seq(Chunk) /\ loop' = "fill"
        /\ UNCHANGED <<closing, accepted, reported, ring, pc, pq, remote>>
    BY ReceiveType
  <1>2. TypeOK'
    BY <1>1 DEF IndTypeOK, TypeOK, HandlerOK, NumType
  <1>3. WorkersHaveChunk'
    BY <1>1 DEF IndTypeOK, WorkersHaveChunk
  <1>4. HeapHasRoots'
    BY <1>1 DEF IndTypeOK, TypeOK, HeapHasRoots, HandlerOK
  <1>5. QED
    BY <1>2, <1>3, <1>4 DEF IndTypeOK, HandlerOK

LEMMA HandleChunkInv == IndTypeOK /\ HandleChunk => IndTypeOK'
  <1> SUFFICES ASSUME IndTypeOK, HandleChunk PROVE IndTypeOK'
    OBVIOUS
  <1>1. /\ num \in NumType /\ parallel \in 1 .. Parallel
        /\ ready \in Seq(Chunk) /\ in \in [Worker -> Seq(Chunk)]
        /\ chunk \in [Chunk -> ChunkFields] /\ SplitsAreLong
        /\ stream \in [Stream -> StreamFields]
    BY DEF IndTypeOK, TypeOK, NumType
  <1>2. CASE HandleReduceParallel
    <2>1. Receive("starting") /\ Updated \in Chunk
      BY <1>2, ReceiveType DEF HandleReduceParallel
    <2>2. ready' \in Seq(Chunk)
      BY <1>1, <1>2, <2>1, AppendType DEF HandleReduceParallel
    <2>3. parallel' \in 1 .. Parallel
      BY <1>1, <1>2, LimitAssumption DEF HandleReduceParallel, Later
    <2>4. HandlerOK
      BY <1>1, <1>2, <2>2, <2>3
         DEF HandleReduceParallel, HandlerOK, NumType, SplitsAreLong
    <2>5. QED
      BY <2>1, <2>4, HandlerInv
  <1>3. CASE HandleStartFailure
    <2>1. Receive("starting") /\ Updated \in Chunk
      BY <1>3, ReceiveType DEF HandleStartFailure
    <2>2. chunk[Updated].err \in Err
      BY <1>1, <2>1 DEF ChunkFields
    <2>3. /\ stream' \in [Stream -> StreamFields]
          /\ \A s \in Stream : stream'[s].next = stream[s].next
      BY <1>1, <1>3, <2>1, <2>2, KillStreamType DEF HandleStartFailure
    <2>4. HandlerOK
      BY <1>1, <1>3, <2>1, <2>3
         DEF HandleStartFailure, HandlerOK, NumType, SplitsAreLong
    <2>5. QED
      BY <2>1, <2>4, HandlerInv
  <1>4. CASE HandleChunkStarted
    <2>1. Receive("started") /\ Updated \in Chunk
      BY <1>4, ReceiveType DEF HandleChunkStarted
    <2>2. chunk' \in [Chunk -> ChunkFields] /\ SplitsAreLong'
      BY <1>1, <1>4, <2>1 DEF HandleChunkStarted, ChunkFields, SplitsAreLong
    <2>3. in' \in [Worker -> Seq(Chunk)]
      BY <1>1, <1>4, <2>1, SendType, WorkerNames DEF HandleChunkStarted
    <2>4. num' \in NumType
      BY <1>1, <1>4, NumMove DEF HandleChunkStarted
    <2>5. parallel' \in 1 .. Parallel
      BY <1>1, <1>4, LimitAssumption DEF HandleChunkStarted
    <2>6. HandlerOK
      BY <1>1, <1>4, <2>2, <2>3, <2>4, <2>5 DEF HandleChunkStarted, HandlerOK
    <2>7. QED
      BY <2>1, <2>6, HandlerInv
  <1>5. CASE HandleRestart
    <2>1. Receive("polling") /\ Updated \in Chunk
      BY <1>5, ReceiveType DEF HandleRestart
    <2>2. chunk' \in [Chunk -> ChunkFields] /\ SplitsAreLong'
      BY <1>1, <1>5, <2>1, ErrNames
         DEF HandleRestart, ChunkFields, SplitsAreLong, PublicErr
    <2>3. ready' \in Seq(Chunk)
      BY <1>1, <1>5, <2>1, AppendType DEF HandleRestart
    <2>4. num' \in NumType
      BY <1>1, <1>5, NumMove DEF HandleRestart
    <2>5. HandlerOK
      BY <1>1, <1>5, <2>2, <2>3, <2>4 DEF HandleRestart, HandlerOK
    <2>6. QED
      BY <2>1, <2>5, HandlerInv
  <1>6. CASE HandleSplit
    <2>1. Receive("polling") /\ Updated \in Chunk
      BY <1>6, ReceiveType DEF HandleSplit
    <2>2. Children(Updated) \in Seq(Chunk)
      <3>1. Splittable(QueryOf(Updated), Updated)
        BY <1>1, <1>6, <2>1 DEF HandleSplit, SplitsAreLong
      <3>2. QED
        BY <2>1, <3>1, ChildrenAreChunks
    <2>3. chunk' \in [Chunk -> ChunkFields] /\ SplitsAreLong'
      BY <1>1, <1>6, <2>1, ErrNames
         DEF HandleSplit, ChunkFields, SplitsAreLong, PublicErr
    <2>4. ready' \in Seq(Chunk)
      BY <1>1, <1>6, <2>2 DEF HandleSplit
    <2>5. num' \in NumType
      <3>1. num' = [num EXCEPT !.polling = num.polling - 1]
        BY <1>6 DEF HandleSplit
      <3>2. QED
        BY <1>1, <3>1, NumMove
    <2>6. Len(Children(Updated)) \in Nat
      BY <2>2
    <2>7. /\ stream' \in [Stream -> StreamFields]
          /\ \A s \in Stream : stream'[s].next = stream[s].next
      BY <1>1, <1>6, <2>1, <2>6, CompletedType, ChunkElim DEF HandleSplit
    <2>8. HandlerOK
      BY <1>1, <1>6, <2>3, <2>4, <2>5, <2>7 DEF HandleSplit, HandlerOK
    <2>9. QED
      BY <2>1, <2>8, HandlerInv
  <1>7. CASE HandleStop
    <2>1. Receive("polling") /\ Updated \in Chunk
      BY <1>7, ReceiveType DEF HandleStop
    <2>2. /\ chunk' \in [Chunk -> ChunkFields] /\ SplitsAreLong'
          /\ in' \in [Worker -> Seq(Chunk)]
      BY <1>1, <1>7, <2>1, StopChunkType DEF HandleStop
    <2>3. num' \in NumType
      BY <1>1, <1>7, NumMove DEF HandleStop
    <2>4. HandlerOK
      BY <1>1, <1>7, <2>2, <2>3 DEF HandleStop, HandlerOK
    <2>5. QED
      BY <2>1, <2>4, HandlerInv
  <1>8. CASE HandleUnexpected
    <2>1. Receive("polling") /\ Updated \in Chunk
      BY <1>8, ReceiveType DEF HandleUnexpected
    <2>2. /\ chunk' \in [Chunk -> ChunkFields] /\ SplitsAreLong'
          /\ in' \in [Worker -> Seq(Chunk)]
      BY <1>1, <1>8, <2>1, StopChunkType DEF HandleUnexpected
    <2>3. num' \in NumType
      BY <1>1, <1>8, NumMove DEF HandleUnexpected
    <2>4. "UnexpectedQueryError" \in Err /\ "ErrClosed" \in Err
      BY DEF Err, PublicErr
    <2>5. /\ stream' \in [Stream -> StreamFields]
          /\ \A s \in Stream : stream'[s].next = stream[s].next
      BY <1>1, <1>8, <2>1, <2>4, KillStreamType DEF HandleUnexpected
    <2>6. HandlerOK
      BY <1>1, <1>8, <2>2, <2>3, <2>5 DEF HandleUnexpected, HandlerOK
    <2>7. QED
      BY <2>1, <2>6, HandlerInv
  <1>9. CASE HandleTerminal
    <2>1. Receive("polling") /\ Updated \in Chunk
      BY <1>9, ReceiveType DEF HandleTerminal
    <2>2. chunk[Updated].err \in Err
      BY <1>1, <2>1 DEF ChunkFields
    <2>3. /\ stream' \in [Stream -> StreamFields]
          /\ \A s \in Stream : stream'[s].next = stream[s].next
      BY <1>1, <1>9, <2>1, <2>2, KillStreamType DEF HandleTerminal
    <2>4. num' \in NumType
      BY <1>1, <1>9, NumMove DEF HandleTerminal
    <2>5. HandlerOK
      BY <1>1, <1>9, <2>3, <2>4 DEF HandleTerminal, HandlerOK, SplitsAreLong
    <2>6. QED
      BY <2>1, <2>5, HandlerInv
  <1>10. CASE HandleChunkCompletion
    <2>1. Receive("complete") /\ Updated \in Chunk
      BY <1>10, ReceiveType DEF HandleChunkCompletion
    <2>2. /\ stream' \in [Stream -> StreamFields]
          /\ \A s \in Stream : stream'[s].next = stream[s].next
      BY <1>1, <1>10, <2>1, CompletedType, ChunkElim DEF HandleChunkCompletion
    <2>3. num' \in NumType
      BY <1>1, <1>10, NumMove DEF HandleChunkCompletion
    <2>4. HandlerOK
      BY <1>1, <1>10, <2>2, <2>3
         DEF HandleChunkCompletion, HandlerOK, SplitsAreLong
    <2>5. QED
      BY <2>1, <2>4, HandlerInv
  <1>11. CASE HandleStopped
    <2>1. Receive("stopping")
      BY <1>11 DEF HandleStopped
    <2>2. num' \in NumType
      BY <1>1, <1>11, NumMove DEF HandleStopped
    <2>3. HandlerOK
      BY <1>1, <1>11, <2>2 DEF HandleStopped, HandlerOK, SplitsAreLong
    <2>4. QED
      BY <2>1, <2>3, HandlerInv
  <1>12. QED
    BY <1>2, <1>3, <1>4, <1>5, <1>6, <1>7, <1>8, <1>9, <1>10, <1>11
       DEF HandleChunk

(* Filling the starter's channel. *)

LEMMA LaunchType ==
    ASSUME IndTypeOK, NEW c \in Chunk, Launch(c)
    PROVE  /\ num' \in NumType /\ in' \in [Worker -> Seq(Chunk)]
           /\ chunk' \in [Chunk -> ChunkFields] /\ SplitsAreLong'
           /\ UNCHANGED <<closing, accepted, reported, ring, pc, loop, parallel,
                          update, remote>>
  <1>1. /\ num \in NumType /\ in \in [Worker -> Seq(Chunk)]
        /\ chunk \in [Chunk -> ChunkFields] /\ SplitsAreLong
    BY DEF IndTypeOK, TypeOK, NumType
  <1>2. num' \in NumType
    BY <1>1 DEF Launch, NumType
  <1>3. in' \in [Worker -> Seq(Chunk)]
    BY <1>1, SendType, WorkerNames DEF Launch
  <1>4. chunk' \in [Chunk -> ChunkFields] /\ SplitsAreLong'
    BY <1>1 DEF Launch, ChunkFields, SplitsAreLong
  <1>5. QED
    BY <1>2, <1>3, <1>4 DEF Launch, userVars, workerVars

LEMMA FillInv ==
    IndTypeOK /\ (FillReady \/ FillNext \/ FillDone) => IndTypeOK'
  <1> SUFFICES ASSUME IndTypeOK, FillReady \/ FillNext \/ FillDone
               PROVE  IndTypeOK'
    OBVIOUS
  <1>1. /\ ready \in Seq(Chunk) /\ stream \in [Stream -> StreamFields]
        /\ pq \subseteq Stream
    BY DEF IndTypeOK, TypeOK
  <1>2. CASE FillReady
    <2>1. Head(ready) \in Chunk /\ ready' \in Seq(Chunk)
      BY <1>1, <1>2, HeadTail DEF FillReady
    <2>2. /\ Launch(Head(ready)) /\ UNCHANGED <<pq, stream>>
      BY <1>2 DEF FillReady
    <2>3. TypeOK'
      BY <2>1, <2>2, LaunchType DEF IndTypeOK, TypeOK, NumType
    <2>4. WorkersHaveChunk'
      BY <2>1, <2>2, LaunchType DEF IndTypeOK, WorkersHaveChunk
    <2>5. HeapHasRoots'
      BY <2>1, <2>2, LaunchType DEF IndTypeOK, HeapHasRoots
    <2>6. QED
      BY <2>1, <2>2, <2>3, <2>4, <2>5, LaunchType DEF IndTypeOK
  <1>3. CASE FillNext
    <2>1. PICK s \in pq, D \in SUBSET pq :
            /\ pq' = IF stream[s].next + 1 < NumRoots(Query[s])
                     THEN pq \ D ELSE pq \ (D \cup {s})
            /\ stream' = [stream EXCEPT ![s].next = @ + 1]
            /\ Launch(Root(s, stream[s].next))
      BY <1>3 DEF FillNext
    <2> DEFINE c == Root(s, stream[s].next)
    <2>2. s \in Stream /\ stream[s].next \in Nat
      BY <1>1 DEF StreamFields
    <2>3. /\ pq \subseteq accepted
          /\ \A t \in pq : stream[t].next < NumRoots(Query[t])
          /\ \A t \in Stream \ accepted : stream[t].next = 0
      BY DEF IndTypeOK, HeapHasRoots
    <2>4. c \in Chunk
      BY <2>2, <2>3, RootIsChunk
    <2> HIDE DEF c
    <2>5. Launch(c)
      BY <2>1 DEF c
    <2>6. stream' \in [Stream -> StreamFields]
      <3>1. stream[s].next + 1 \in Nat
        BY <2>2
      <3>2. QED
        BY <1>1, <2>1, <3>1 DEF StreamFields
    <2>7. /\ stream'[s].next = stream[s].next + 1
          /\ \A t \in Stream : t # s => stream'[t].next = stream[t].next
      BY <1>1, <2>1, <2>2 DEF StreamFields
    <2>8. pq' \subseteq pq
      BY <2>1
    <2>9. UNCHANGED ready
      BY <1>3 DEF FillNext
    <2>10. TypeOK'
      BY <2>4, <2>5, <2>6, <2>8, <2>9, LaunchType DEF IndTypeOK, TypeOK, NumType
    <2>11. WorkersHaveChunk'
      BY <2>4, <2>5, LaunchType DEF IndTypeOK, WorkersHaveChunk
    <2>12. HeapHasRoots'
      <3>1. UNCHANGED accepted
        BY <2>4, <2>5, LaunchType
      <3>2. \A t \in pq' : stream'[t].next < NumRoots(Query[t])
        BY <1>1, <2>1, <2>3, <2>7
      <3>3. \A t \in Stream \ accepted : stream'[t].next = 0
        BY <2>3, <2>7
      <3>4. QED
        BY <2>3, <2>8, <3>1, <3>2, <3>3 DEF HeapHasRoots
    <2>13. QED
      BY <2>4, <2>5, <2>10, <2>11, <2>12, LaunchType DEF IndTypeOK
  <1>4. CASE FillDone
    <2>1. /\ pq' \subseteq pq /\ loop' = "select"
          /\ UNCHANGED <<closing, accepted, reported, ring, pc, parallel, num,
                         ready, in, update, chunk, stream, remote>>
      BY <1>4 DEF FillDone, userVars, workerVars
    <2>2. QED
      BY <1>1, <2>1 DEF IndTypeOK, TypeOK, WorkersHaveChunk, HeapHasRoots,
                         SplitsAreLong
  <1>5. QED
    BY <1>2, <1>3, <1>4

(* Leaving the loop. *)

\* What a step of mgr.shutdown leaves alone, and what keeps its type.
ShutdownOK ==
    /\ UNCHANGED <<closing, accepted, reported, ring, pc, parallel, pq, ready,
                   remote>>
    /\ loop' \in {"drain", "drainStop", "stopped"}
    /\ num' \in NumType
    /\ update' \in Seq(Chunk)
    /\ in' \in [Worker -> Seq(Chunk)]
    /\ chunk' \in [Chunk -> ChunkFields]
    /\ SplitsAreLong'
    /\ stream' \in [Stream -> StreamFields]
    /\ \A s \in Stream : stream'[s].next = stream[s].next

LEMMA ShutdownInv ==
    ASSUME IndTypeOK, ShutdownOK
    PROVE  IndTypeOK'
  <1>1. TypeOK'
    BY DEF IndTypeOK, TypeOK, ShutdownOK, NumType
  <1>2. WorkersHaveChunk'
    BY DEF IndTypeOK, WorkersHaveChunk, ShutdownOK
  <1>3. HeapHasRoots'
    BY DEF IndTypeOK, TypeOK, HeapHasRoots, ShutdownOK
  <1>4. QED
    BY <1>1, <1>2, <1>3 DEF IndTypeOK, ShutdownOK

LEMMA DrainingType ==
    ASSUME IndTypeOK, NEW states, Draining(states)
    PROVE  /\ Updated \in Chunk /\ update' \in Seq(Chunk) /\ loop' = "drain"
           /\ UNCHANGED <<closing, accepted, reported, ring, pc, parallel, pq,
                          ready, remote>>
  <1>1. update \in Seq(Chunk) /\ update # <<>>
    BY DEF Draining, IndTypeOK, TypeOK
  <1>2. Updated \in Chunk /\ Tail(update) \in Seq(Chunk)
    BY <1>1, HeadTail DEF Updated
  <1>3. QED
    BY <1>2 DEF Draining, userVars, workerVars

LEMMA ExitInv ==
    ASSUME IndTypeOK,
           Exit \/ DrainLive \/ DrainDead \/ DrainStopping \/ CloseStreams
           \/ DrainStop \/ Stopped
    PROVE  IndTypeOK'
  <1>1. /\ num \in NumType /\ update \in Seq(Chunk)
        /\ in \in [Worker -> Seq(Chunk)]
        /\ chunk \in [Chunk -> ChunkFields] /\ SplitsAreLong
        /\ stream \in [Stream -> StreamFields]
    BY DEF IndTypeOK, TypeOK, NumType
  <1>2. "ErrClosed" \in Err
    BY DEF Err, PublicErr
  <1>3. /\ num.starting - 1 \in Int /\ num.polling - 1 \in Int
        /\ num.stopping - 1 \in Int
    BY <1>1 DEF NumType
  <1>4. CASE Exit \/ Stopped
    <2>1. ShutdownOK
      BY <1>1, <1>4
         DEF Exit, Stopped, ShutdownOK, userVars, workerVars, SplitsAreLong
    <2>2. QED
      BY <2>1, ShutdownInv
  <1>5. CASE DrainLive
    <2>1. Draining({"started", "polling"}) /\ Updated \in Chunk
      BY <1>5, DrainingType DEF DrainLive
    <2>2. num' \in NumType
      BY <1>1, <1>5, NumMove DEF DrainLive
    <2>3. /\ in' \in [Worker -> Seq(Chunk)]
          /\ chunk' \in [Chunk -> ChunkFields] /\ SplitsAreLong'
      BY <1>1, <1>5, <2>1, StopChunkType DEF DrainLive
    <2>4. /\ stream' \in [Stream -> StreamFields]
          /\ \A s \in Stream : stream'[s].next = stream[s].next
      BY <1>1, <1>2, <1>5, <2>1, KillStreamType DEF DrainLive
    <2>5. ShutdownOK
      BY <2>1, <2>2, <2>3, <2>4, DrainingType DEF ShutdownOK
    <2>6. QED
      BY <2>5, ShutdownInv
  <1>6. CASE DrainDead
    <2>1. Draining({"starting", "complete"}) /\ Updated \in Chunk
      BY <1>6, DrainingType DEF DrainDead
    <2>2. num' \in NumType
      BY <1>1, <1>3, <1>6 DEF DrainDead, NumType
    <2>3. /\ stream' \in [Stream -> StreamFields]
          /\ \A s \in Stream : stream'[s].next = stream[s].next
      BY <1>1, <1>2, <1>6, <2>1, KillStreamType DEF DrainDead
    <2>4. UNCHANGED <<in, chunk>>
      BY <1>6 DEF DrainDead
    <2>5. ShutdownOK
      BY <1>1, <2>1, <2>2, <2>3, <2>4, DrainingType DEF ShutdownOK, SplitsAreLong
    <2>6. QED
      BY <2>5, ShutdownInv
  <1>7. CASE DrainStopping
    <2>1. Draining({"stopping"}) /\ UNCHANGED <<in, chunk, stream>>
      BY <1>7 DEF DrainStopping
    <2>2. num' \in NumType
      BY <1>1, <1>3, <1>7 DEF DrainStopping, NumType
    <2>3. ShutdownOK
      BY <1>1, <2>1, <2>2, DrainingType DEF ShutdownOK, SplitsAreLong
    <2>4. QED
      BY <2>3, ShutdownInv
  <1>8. CASE CloseStreams
    <2>1. /\ stream' \in [Stream -> StreamFields]
          /\ \A s \in Stream : stream'[s].next = stream[s].next
      BY <1>1, <1>2, <1>8, SetErrType DEF CloseStreams
    <2>2. ShutdownOK
      BY <1>1, <1>8, <2>1
         DEF CloseStreams, ShutdownOK, userVars, workerVars, SplitsAreLong
    <2>3. QED
      BY <2>2, ShutdownInv
  <1>9. CASE DrainStop
    <2>1. num' \in NumType
      BY <1>1, <1>3, <1>9 DEF DrainStop, NumType
    <2>2. update' \in Seq(Chunk)
      BY <1>1, <1>9, HeadTail DEF DrainStop
    <2>3. /\ loop' = "drainStop"
          /\ UNCHANGED <<closing, accepted, reported, ring, pc, parallel, pq,
                         ready, in, chunk, stream, remote>>
      BY <1>9 DEF DrainStop, userVars, workerVars
    <2>4. ShutdownOK
      BY <1>1, <2>1, <2>2, <2>3 DEF ShutdownOK, SplitsAreLong
    <2>5. QED
      BY <2>4, ShutdownInv
  <1>10. QED
    BY <1>4, <1>5, <1>6, <1>7, <1>8, <1>9

(* The workers. *)

Points == {"pop", "wait", "call", "release", "done", "panic"}
RemoteStates == {"none", "running", "ended"}

\* What a worker's step leaves alone, and what keeps its type.
WorkerOK ==
    /\ UNCHANGED <<loop, parallel, num, pq, ready, closing, accepted, reported>>
    /\ pc' \in [Worker -> Points]
    /\ in' \in [Worker -> Seq(Chunk)]
    /\ ring' \in [Worker -> Seq(Chunk)]
    /\ WorkersHaveChunk'
    /\ update' \in Seq(Chunk)
    /\ chunk' \in [Chunk -> ChunkFields]
    /\ SplitsAreLong'
    /\ stream' \in [Stream -> StreamFields]
    /\ \A s \in Stream : stream'[s].next = stream[s].next
    /\ remote' \in [Chunk -> RemoteStates]

LEMMA WorkerInv ==
    ASSUME IndTypeOK, WorkerOK
    PROVE  IndTypeOK'
  <1>1. TypeOK'
    BY DEF IndTypeOK, TypeOK, WorkerOK, Points, RemoteStates
  <1>2. HeapHasRoots'
    BY DEF IndTypeOK, TypeOK, HeapHasRoots, WorkerOK
  <1>3. QED
    BY <1>1, <1>2 DEF IndTypeOK, WorkerOK

LEMMA WorkerTypes ==
    ASSUME IndTypeOK
    PROVE  /\ pc \in [Worker -> Points] /\ WorkersHaveChunk
           /\ in \in [Worker -> Seq(Chunk)] /\ ring \in [Worker -> Seq(Chunk)]
           /\ update \in Seq(Chunk)
           /\ chunk \in [Chunk -> ChunkFields] /\ SplitsAreLong
           /\ stream \in [Stream -> StreamFields]
           /\ remote \in [Chunk -> RemoteStates]
  BY DEF IndTypeOK, TypeOK, Points, RemoteStates

LEMMA CurrentType ==
    ASSUME IndTypeOK, NEW w \in Worker, ring[w] # <<>>
    PROVE  Current(w) \in Chunk /\ Tail(ring[w]) \in Seq(Chunk)
  BY WorkerTypes, HeadTail DEF Current

\* The current chunk goes back into the ring, or to the manager loop.
LEMMA PassOn ==
    ASSUME IndTypeOK, NEW w \in Worker, ring[w] # <<>>,
           PushBack(w) \/ SendOut(w)
    PROVE  /\ ring' \in [Worker -> Seq(Chunk)] /\ update' \in Seq(Chunk)
           /\ \A v \in Worker : v # w => ring'[v] = ring[v]
  <1>1. Current(w) \in Chunk /\ Tail(ring[w]) \in Seq(Chunk)
    BY CurrentType
  <1>2. Append(Tail(ring[w]), Current(w)) \in Seq(Chunk)
        /\ Append(update, Current(w)) \in Seq(Chunk)
    BY <1>1, AppendType, WorkerTypes
  <1>3. CASE PushBack(w)
    <2>1. ring' = [ring EXCEPT ![w] = Append(Tail(ring[w]), Current(w))]
          /\ UNCHANGED update
      BY <1>3 DEF PushBack, Current
    <2>2. QED
      BY <1>2, <2>1, WorkerTypes
  <1>4. CASE SendOut(w)
    BY <1>1, <1>2, <1>4, WorkerTypes DEF SendOut
  <1>5. QED
    BY <1>3, <1>4

\* The worker goes on to a point where it needs no current chunk.
LEMMA MovesOn ==
    ASSUME IndTypeOK, NEW w \in Worker, NEW point \in {"pop", "release", "done"},
           pc' = [pc EXCEPT ![w] = point],
           \A v \in Worker : v # w => ring'[v] = ring[v]
    PROVE  pc' \in [Worker -> Points] /\ WorkersHaveChunk'
  BY WorkerTypes DEF WorkersHaveChunk, Points

LEMMA PopInv ==
    ASSUME IndTypeOK, NEW w \in Worker, Pop(w)
    PROVE  IndTypeOK'
  <1>1. /\ UNCHANGED <<loop, parallel, num, pq, ready, closing, accepted,
                       reported, update, stream, remote>>
        /\ pc[w] = "pop"
    BY DEF Pop, mgrVars, userVars
  <1>2. CASE /\ in[w] # <<>>
             /\ in' = [in EXCEPT ![w] = Tail(@)]
             /\ ring' = [ring EXCEPT ![w] = Append(@, Head(in[w]))]
             /\ chunk' = [chunk EXCEPT ![Head(in[w])].tmp = 0]
             /\ pc' = [pc EXCEPT ![w] = "wait"]
    <2>1. Head(in[w]) \in Chunk /\ Tail(in[w]) \in Seq(Chunk)
      BY <1>2, WorkerTypes, HeadTail
    <2>2. in' \in [Worker -> Seq(Chunk)]
      BY <1>2, <2>1, WorkerTypes
    <2>3. Append(ring[w], Head(in[w])) \in Seq(Chunk)
          /\ Append(ring[w], Head(in[w])) # <<>>
      <3>1. ring[w] \in Seq(Chunk)
        BY WorkerTypes
      <3>2. QED
        BY <2>1, <3>1, AppendType
    <2>4. /\ ring' \in [Worker -> Seq(Chunk)] /\ ring'[w] # <<>>
          /\ \A v \in Worker : v # w => ring'[v] = ring[v]
      BY <1>2, <2>3, WorkerTypes
    <2>5. chunk' \in [Chunk -> ChunkFields] /\ SplitsAreLong'
      BY <1>2, <2>1, WorkerTypes DEF ChunkFields, SplitsAreLong
    <2>6. pc' \in [Worker -> Points] /\ WorkersHaveChunk'
      BY <1>2, <2>4, WorkerTypes DEF WorkersHaveChunk, Points
    <2>7. WorkerOK
      BY <1>1, <2>2, <2>4, <2>5, <2>6, WorkerTypes DEF WorkerOK
    <2>8. QED
      BY <2>7, WorkerInv
  <1>3. CASE /\ ring[w] # <<>> /\ pc' = [pc EXCEPT ![w] = "wait"]
             /\ UNCHANGED <<in, ring, chunk>>
    <2>1. pc' \in [Worker -> Points] /\ WorkersHaveChunk'
      BY <1>3, WorkerTypes DEF WorkersHaveChunk, Points
    <2>2. WorkerOK
      BY <1>1, <1>3, <2>1, WorkerTypes DEF WorkerOK, SplitsAreLong
    <2>3. QED
      BY <2>2, WorkerInv
  <1>4. CASE /\ pc' = [pc EXCEPT ![w] = "release"]
             /\ UNCHANGED <<in, ring, chunk>>
    <2>1. pc' \in [Worker -> Points] /\ WorkersHaveChunk'
      BY <1>4, MovesOn
    <2>2. WorkerOK
      BY <1>1, <1>4, <2>1, WorkerTypes DEF WorkerOK, SplitsAreLong
    <2>3. QED
      BY <2>2, WorkerInv
  <1>5. QED
    BY <1>2, <1>3, <1>4 DEF Pop

LEMMA WaitClosingInv ==
    ASSUME IndTypeOK, NEW w \in Worker, WaitClosing(w)
    PROVE  IndTypeOK'
  <1>1. ring[w] # <<>>
    BY WorkerTypes DEF WaitClosing, WorkersHaveChunk
  <1>2. /\ PushBack(w) /\ pc' = [pc EXCEPT ![w] = "release"]
        /\ UNCHANGED <<loop, parallel, num, pq, ready, closing, accepted,
                       reported, in, chunk, stream, remote>>
    BY DEF WaitClosing, mgrVars, userVars
  <1>3. /\ ring' \in [Worker -> Seq(Chunk)] /\ update' \in Seq(Chunk)
        /\ \A v \in Worker : v # w => ring'[v] = ring[v]
    BY <1>1, <1>2, PassOn
  <1>4. pc' \in [Worker -> Points] /\ WorkersHaveChunk'
    BY <1>2, <1>3, MovesOn
  <1>5. WorkerOK
    BY <1>2, <1>3, <1>4, WorkerTypes DEF WorkerOK, SplitsAreLong
  <1>6. QED
    BY <1>5, WorkerInv

LEMMA BeginInv ==
    ASSUME IndTypeOK, NEW w \in Worker, Begin(w)
    PROVE  IndTypeOK'
  <1>1. ring[w] # <<>> /\ Current(w) \in Chunk
    BY WorkerTypes, CurrentType DEF Begin, WorkersHaveChunk
  <1>2. UNCHANGED <<loop, parallel, num, pq, ready, closing, accepted,
                    reported, in, stream, remote>>
    BY DEF Begin, mgrVars, userVars
  <1>3. CASE /\ pc' = [pc EXCEPT ![w] = "call"]
             /\ UNCHANGED <<ring, update, chunk>>
    <2>1. pc' \in [Worker -> Points] /\ WorkersHaveChunk'
      BY <1>1, <1>3, WorkerTypes DEF WorkersHaveChunk, Points
    <2>2. WorkerOK
      BY <1>2, <1>3, <2>1, WorkerTypes DEF WorkerOK, SplitsAreLong
    <2>3. QED
      BY <2>2, WorkerInv
  <1>4. CASE /\ pc' = [pc EXCEPT ![w] = "pop"] /\ SendOut(w)
             /\ chunk' = IF w = "poller"
                         THEN [chunk EXCEPT ![Current(w)].err = "errStopChunk"]
                         ELSE chunk
    <2>1. /\ ring' \in [Worker -> Seq(Chunk)] /\ update' \in Seq(Chunk)
          /\ \A v \in Worker : v # w => ring'[v] = ring[v]
      BY <1>1, <1>4, PassOn
    <2>2. pc' \in [Worker -> Points] /\ WorkersHaveChunk'
      BY <1>4, <2>1, MovesOn
    <2>3. chunk' \in [Chunk -> ChunkFields] /\ SplitsAreLong'
      <3>1. "errStopChunk" \in Err
        BY DEF Err, InternalErr
      <3>2. CASE chunk' = chunk
        BY <3>2, WorkerTypes DEF SplitsAreLong
      <3>3. CASE chunk' = [chunk EXCEPT ![Current(w)].err = "errStopChunk"]
        BY <1>1, <3>1, <3>3, WorkerTypes DEF ChunkFields, SplitsAreLong
      <3>4. QED
        BY <1>4, <3>2, <3>3
    <2>4. WorkerOK
      BY <1>2, <2>1, <2>2, <2>3, WorkerTypes DEF WorkerOK
    <2>5. QED
      BY <2>4, WorkerInv
  <1>5. QED
    BY <1>3, <1>4 DEF Begin

(* The answers. *)

\* What is left to show of an answer about the worker's current chunk.
AnswerOK ==
    /\ chunk' \in [Chunk -> ChunkFields]
    /\ SplitsAreLong'
    /\ stream' \in [Stream -> StreamFields]
    /\ \A s \in Stream : stream'[s].next = stream[s].next
    /\ remote' \in [Chunk -> RemoteStates]

LEMMA AnsweredInv ==
    ASSUME IndTypeOK, NEW w \in Worker, Answered(w), PushBack(w) \/ SendOut(w),
           AnswerOK
    PROVE  IndTypeOK'
  <1>1. ring[w] # <<>>
    BY WorkerTypes DEF Answered, WorkersHaveChunk
  <1>2. /\ pc' = [pc EXCEPT ![w] = "pop"]
        /\ UNCHANGED <<loop, parallel, num, pq, ready, closing, accepted,
                       reported, in>>
    BY DEF Answered, mgrVars, userVars
  <1>3. /\ ring' \in [Worker -> Seq(Chunk)] /\ update' \in Seq(Chunk)
        /\ \A v \in Worker : v # w => ring'[v] = ring[v]
    BY <1>1, PassOn
  <1>4. pc' \in [Worker -> Points] /\ WorkersHaveChunk'
    BY <1>2, <1>3, MovesOn
  <1>5. WorkerOK
    BY <1>2, <1>3, <1>4, WorkerTypes DEF WorkerOK, AnswerOK
  <1>6. QED
    BY <1>5, WorkerInv

\* The chunk an answer is about.
LEMMA AnsweredChunk ==
    ASSUME IndTypeOK, NEW w \in Worker, Answered(w)
    PROVE  Current(w) \in Chunk
  BY WorkerTypes, CurrentType DEF Answered, WorkersHaveChunk

\* A chunk gets an error that is no request to be split.
LEMMA ErrorType ==
    ASSUME IndTypeOK, NEW c \in Chunk, NEW e \in Err \ {"errSplitChunk"},
           chunk' = [chunk EXCEPT ![c].err = e]
    PROVE  chunk' \in [Chunk -> ChunkFields] /\ SplitsAreLong'
  BY WorkerTypes DEF ChunkFields, SplitsAreLong

LEMMA RemoteType ==
    ASSUME IndTypeOK, NEW c \in Chunk, NEW r \in RemoteStates
    PROVE  [remote EXCEPT ![c] = r] \in [Chunk -> RemoteStates]
  BY WorkerTypes

LEMMA RetryType ==
    ASSUME IndTypeOK, NEW w \in Worker, Answered(w), NEW e \in Err, Retry(w, e),
           e = "errSplitChunk" => e = chunk[Current(w)].err
    PROVE  /\ chunk' \in [Chunk -> ChunkFields] /\ SplitsAreLong'
           /\ PushBack(w) \/ SendOut(w)
  <1> DEFINE c == Current(w)
  <1>1. c \in Chunk
    BY AnsweredChunk
  <1>2. chunk' = [chunk EXCEPT ![c].tmp = @ + 1, ![c].err = e]
    BY DEF Retry
  <1> HIDE DEF c
  <1>3. chunk[c].tmp + 1 \in Nat
    BY <1>1, WorkerTypes DEF ChunkFields
  <1>4. chunk' \in [Chunk -> ChunkFields]
    BY <1>1, <1>2, <1>3, WorkerTypes DEF ChunkFields
  <1>5. SplitsAreLong'
    BY <1>1, <1>2, WorkerTypes DEF SplitsAreLong, ChunkFields, c
  <1>6. QED
    BY <1>4, <1>5 DEF Retry

LEMMA StarterAnswerInv ==
    ASSUME IndTypeOK, StarterAnswer
    PROVE  IndTypeOK'
  <1> DEFINE c == Current("starter")
  <1>1. Answered("starter")
    BY DEF StarterAnswer, StarterRetry, StarterLimited, StarterFails,
           StarterStarts
  <1>2. c \in Chunk /\ "starter" \in Worker
    BY <1>1, AnsweredChunk, WorkerNames
  <1>3. /\ stream \in [Stream -> StreamFields]
        /\ remote \in [Chunk -> RemoteStates]
    BY WorkerTypes
  <1>4. CASE StarterRetry
    <2>1. /\ chunk' \in [Chunk -> ChunkFields] /\ SplitsAreLong'
          /\ PushBack("starter") \/ SendOut("starter")
      BY <1>1, <1>2, <1>4, RetryType DEF StarterRetry, Err, PublicErr
    <2>2. AnswerOK
      BY <1>3, <1>4, <2>1 DEF StarterRetry, AnswerOK
    <2>3. QED
      BY <1>1, <1>2, <2>1, <2>2, AnsweredInv
  <1>5. CASE StarterLimited
    <2>1. chunk' \in [Chunk -> ChunkFields] /\ SplitsAreLong'
      BY <1>2, <1>5, ErrorType DEF StarterLimited, Err, InternalErr
    <2>2. AnswerOK
      BY <1>3, <1>5, <2>1 DEF StarterLimited, AnswerOK
    <2>3. QED
      BY <1>1, <1>2, <1>5, <2>2, AnsweredInv DEF StarterLimited
  <1>6. CASE StarterFails
    <2>1. chunk' \in [Chunk -> ChunkFields] /\ SplitsAreLong'
      BY <1>2, <1>6, ErrorType DEF StarterFails, Err, PublicErr
    <2>2. AnswerOK
      BY <1>3, <1>6, <2>1 DEF StarterFails, AnswerOK
    <2>3. QED
      BY <1>1, <1>2, <1>6, <2>2, AnsweredInv DEF StarterFails
  <1>7. CASE StarterStarts
    <2>1. chunk' = [chunk EXCEPT ![c].state = "started", ![c].err = "nil"]
          /\ UNCHANGED stream /\ remote' = [remote EXCEPT ![c] = "running"]
      BY <1>7 DEF StarterStarts
    <2> HIDE DEF c
    <2>2. chunk' \in [Chunk -> ChunkFields] /\ SplitsAreLong'
      BY <1>2, <2>1, WorkerTypes, ErrNames
         DEF ChunkFields, SplitsAreLong, PublicErr
    <2>3. remote' \in [Chunk -> RemoteStates]
      BY <1>2, <2>1, RemoteType DEF RemoteStates
    <2>4. AnswerOK
      BY <1>3, <2>1, <2>2, <2>3 DEF AnswerOK
    <2>5. QED
      BY <1>1, <1>2, <1>7, <2>4, AnsweredInv DEF StarterStarts
  <1>8. QED
    BY <1>4, <1>5, <1>6, <1>7 DEF StarterAnswer

LEMMA PollerAnswerInv ==
    ASSUME IndTypeOK, PollerAnswer
    PROVE  IndTypeOK'
  <1> DEFINE c == Current("poller")
  <1>1. Answered("poller")
    BY DEF PollerAnswer, PollerRetry, PollerInconclusive, PollerUnexpected,
           PollerMaxed, PollerCompletes, PollerRestarts, PollerTerminal
  <1>2. c \in Chunk /\ "poller" \in Worker
    BY <1>1, AnsweredChunk, WorkerNames
  <1>3. /\ stream \in [Stream -> StreamFields]
        /\ remote \in [Chunk -> RemoteStates]
    BY WorkerTypes
  <1>4. [remote EXCEPT ![c] = "ended"] \in [Chunk -> RemoteStates]
    BY <1>2, RemoteType DEF RemoteStates
  <1>5. CASE PollerRetry
    <2>1. /\ chunk' \in [Chunk -> ChunkFields] /\ SplitsAreLong'
          /\ PushBack("poller") \/ SendOut("poller")
      BY <1>1, <1>2, <1>5, RetryType DEF PollerRetry, Err, PublicErr
    <2>2. AnswerOK
      BY <1>3, <1>5, <2>1 DEF PollerRetry, AnswerOK
    <2>3. QED
      BY <1>1, <1>2, <2>1, <2>2, AnsweredInv
  <1>6. CASE PollerInconclusive
    <2>1. chunk' \in [Chunk -> ChunkFields] /\ SplitsAreLong'
      BY <1>2, <1>6, ErrorType DEF PollerInconclusive, Err, PublicErr
    <2>2. AnswerOK
      BY <1>3, <1>6, <2>1 DEF PollerInconclusive, AnswerOK
    <2>3. QED
      BY <1>1, <1>2, <1>6, <2>2, AnsweredInv DEF PollerInconclusive
  <1>7. CASE \E ended \in BOOLEAN : PollerUnexpected(ended)
    <2>1. /\ chunk' = [chunk EXCEPT ![c].err = "UnexpectedQueryError"]
          /\ remote' \in {remote, [remote EXCEPT ![c] = "ended"]}
          /\ SendOut("poller") /\ UNCHANGED stream
      BY <1>7 DEF PollerUnexpected
    <2> HIDE DEF c
    <2>2. chunk' \in [Chunk -> ChunkFields] /\ SplitsAreLong'
      BY <1>2, <2>1, ErrorType DEF Err, PublicErr
    <2>3. AnswerOK
      BY <1>3, <1>4, <2>1, <2>2 DEF AnswerOK
    <2>4. QED
      BY <1>1, <1>2, <2>1, <2>3, AnsweredInv
  <1>8. CASE PollerMaxed
    <2>1. /\ chunk' = [chunk EXCEPT ![c].err = "errSplitChunk"]
          /\ Splittable(QueryOf(c), c)
          /\ remote' = [remote EXCEPT ![c] = "ended"]
          /\ SendOut("poller") /\ UNCHANGED stream
      BY <1>8 DEF PollerMaxed
    <2> HIDE DEF c
    <2>2. chunk' \in [Chunk -> ChunkFields] /\ SplitsAreLong'
      BY <1>2, <2>1, WorkerTypes, ErrNames
         DEF ChunkFields, SplitsAreLong, InternalErr
    <2>3. AnswerOK
      BY <1>3, <1>4, <2>1, <2>2 DEF AnswerOK
    <2>4. QED
      BY <1>1, <1>2, <2>1, <2>3, AnsweredInv
  <1>9. CASE PollerCompletes
    <2>1. /\ chunk' = [chunk EXCEPT ![c].state = "complete", ![c].err = "nil"]
          /\ stream' = [stream EXCEPT ![c.stream].blocks = Append(@, c)]
          /\ remote' = [remote EXCEPT ![c] = "ended"]
          /\ SendOut("poller")
      BY <1>9 DEF PollerCompletes
    <2> HIDE DEF c
    <2>2. chunk' \in [Chunk -> ChunkFields] /\ SplitsAreLong'
      BY <1>2, <2>1, WorkerTypes, ErrNames
         DEF ChunkFields, SplitsAreLong, PublicErr
    <2>3. /\ stream' \in [Stream -> StreamFields]
          /\ \A s \in Stream : stream'[s].next = stream[s].next
      <3>1. c.stream \in Stream
        BY <1>2, ChunkElim
      <3>2. stream[c.stream].blocks \in Seq(Chunk)
        BY <1>3, <3>1 DEF StreamFields
      <3>3. Append(stream[c.stream].blocks, c) \in Seq(Chunk)
        BY <1>2, <3>2, AppendType
      <3>4. QED
        BY <1>3, <2>1, <3>1, <3>3 DEF StreamFields
    <2>4. AnswerOK
      BY <1>4, <2>1, <2>2, <2>3 DEF AnswerOK
    <2>5. QED
      BY <1>1, <1>2, <2>1, <2>4, AnsweredInv
  <1>10. CASE PollerRestarts
    <2>1. /\ chunk' = [chunk EXCEPT ![c].restart = @ + 1,
                                    ![c].err = "errRestartChunk"]
          /\ chunk[c].restart < MaxRestart
          /\ remote' = [remote EXCEPT ![c] = "ended"]
          /\ SendOut("poller") /\ UNCHANGED stream
      BY <1>10 DEF PollerRestarts
    <2> HIDE DEF c
    <2>2. chunk[c].restart + 1 \in 0 .. MaxRestart
      BY <1>2, <2>1, WorkerTypes, LimitAssumption DEF ChunkFields
    <2>3. chunk' \in [Chunk -> ChunkFields] /\ SplitsAreLong'
      <3>1. "errRestartChunk" \in Err
        BY ErrNames DEF InternalErr
      <3>2. chunk' \in [Chunk -> ChunkFields]
        BY <1>2, <2>1, <2>2, <3>1, WorkerTypes DEF ChunkFields
      <3>3. SplitsAreLong'
        BY <1>2, <2>1, WorkerTypes DEF ChunkFields, SplitsAreLong
      <3>4. QED
        BY <3>2, <3>3
    <2>4. AnswerOK
      BY <1>3, <1>4, <2>1, <2>3 DEF AnswerOK
    <2>5. QED
      BY <1>1, <1>2, <2>1, <2>4, AnsweredInv
  <1>11. CASE PollerTerminal
    <2>1. /\ chunk' = [chunk EXCEPT ![c].err = "TerminalQueryStatusError"]
          /\ remote' = [remote EXCEPT ![c] = "ended"]
          /\ SendOut("poller") /\ UNCHANGED stream
      BY <1>11 DEF PollerTerminal
    <2> HIDE DEF c
    <2>2. chunk' \in [Chunk -> ChunkFields] /\ SplitsAreLong'
      BY <1>2, <2>1, ErrorType DEF Err, PublicErr
    <2>3. AnswerOK
      BY <1>3, <1>4, <2>1, <2>2 DEF AnswerOK
    <2>4. QED
      BY <1>1, <1>2, <2>1, <2>3, AnsweredInv
  <1>12. QED
    BY <1>5, <1>6, <1>7, <1>8, <1>9, <1>10, <1>11 DEF PollerAnswer

LEMMA StopperAnswerInv ==
    ASSUME IndTypeOK, StopperAnswer
    PROVE  IndTypeOK'
  <1> DEFINE c == Current("stopper")
  <1>1. CASE StopperPanics
    <2>1. /\ pc' = [w \in Worker |-> "panic"] /\ loop' = "panic"
          /\ UNCHANGED <<closing, accepted, reported, parallel, num, pq, ready,
                         in, ring, update, chunk, stream, remote>>
      BY <1>1 DEF StopperPanics, userVars
    <2>2. pc' \in [Worker -> {"pop", "wait", "call", "release", "done", "panic"}]
      BY <2>1
    <2>3. TypeOK'
      BY <2>1, <2>2 DEF IndTypeOK, TypeOK
    <2>4. WorkersHaveChunk' /\ SplitsAreLong' /\ HeapHasRoots'
      BY <2>1 DEF IndTypeOK, WorkersHaveChunk, SplitsAreLong, HeapHasRoots
    <2>5. QED
      BY <2>3, <2>4 DEF IndTypeOK
  <1>2. CASE StopperRetry \/ StopperFinishes
    <2>1. Answered("stopper") /\ UNCHANGED stream
      BY <1>2 DEF StopperRetry, StopperFinishes
    <2>2. c \in Chunk /\ "stopper" \in Worker
      BY <2>1, AnsweredChunk, WorkerNames
    <2>3. remote' \in [Chunk -> RemoteStates]
      <3>1. remote' \in {remote, [remote EXCEPT ![c] = "ended"]}
        BY <1>2 DEF StopperRetry, StopperFinishes
      <3>2. QED
        BY <2>2, <3>1, RemoteType, WorkerTypes DEF RemoteStates
    <2>4. /\ chunk' \in [Chunk -> ChunkFields] /\ SplitsAreLong'
          /\ PushBack("stopper") \/ SendOut("stopper")
      <3>1. CASE StopperRetry
        <4>1. chunk[c].err \in Err
          BY <2>2, WorkerTypes DEF ChunkFields
        <4>2. QED
          BY <2>1, <2>2, <3>1, <4>1, RetryType DEF StopperRetry
      <3>2. CASE StopperFinishes
        BY <3>2, WorkerTypes DEF StopperFinishes, SplitsAreLong
      <3>3. QED
        BY <1>2, <3>1, <3>2
    <2>5. AnswerOK
      BY <2>1, <2>3, <2>4, WorkerTypes DEF AnswerOK
    <2>6. QED
      BY <2>1, <2>2, <2>4, <2>5, AnsweredInv
  <1>3. QED
    BY <1>1, <1>2 DEF StopperAnswer

(* worker.shutdown. *)

LEMMA ReleaseChunkType ==
    ASSUME IndTypeOK, NEW w \in Worker, NEW c \in Chunk, ReleaseChunk(w, c)
    PROVE  /\ AnswerOK /\ update' \in Seq(Chunk)
           /\ UNCHANGED <<loop, parallel, num, pq, ready, closing, accepted,
                          reported, pc>>
  <1>1. /\ UNCHANGED <<loop, parallel, num, pq, ready, closing, accepted,
                       reported, pc, stream>>
        /\ update' = Append(update, c)
        /\ chunk' = [chunk EXCEPT ![c].err = "ErrClosed"]
        /\ remote' \in {remote, [remote EXCEPT ![c] = "ended"]}
    BY DEF ReleaseChunk, mgrVars, userVars
  <1>2. update' \in Seq(Chunk)
    BY <1>1, AppendType, WorkerTypes
  <1>3. chunk' \in [Chunk -> ChunkFields] /\ SplitsAreLong'
    BY <1>1, ErrorType DEF Err, PublicErr
  <1>4. remote' \in [Chunk -> RemoteStates]
    BY <1>1, RemoteType, WorkerTypes DEF RemoteStates
  <1>5. QED
    BY <1>1, <1>2, <1>3, <1>4, WorkerTypes DEF AnswerOK

LEMMA ReleaseInv ==
    ASSUME IndTypeOK, NEW w \in Worker,
           ReleaseInProgress(w) \/ ReleaseStray(w) \/ WorkerDone(w)
    PROVE  IndTypeOK'
  <1>1. CASE ReleaseInProgress(w)
    <2>1. /\ pc[w] = "release" /\ ring[w] # <<>> /\ UNCHANGED in
          /\ ReleaseChunk(w, Current(w))
          /\ ring' = [ring EXCEPT ![w] = Tail(@)]
      BY <1>1 DEF ReleaseInProgress
    <2>2. Current(w) \in Chunk /\ Tail(ring[w]) \in Seq(Chunk)
      BY <2>1, CurrentType
    <2>3. /\ AnswerOK /\ update' \in Seq(Chunk)
          /\ UNCHANGED <<loop, parallel, num, pq, ready, closing, accepted,
                         reported, pc>>
      BY <2>1, <2>2, ReleaseChunkType
    <2>4. ring' \in [Worker -> Seq(Chunk)]
      BY <2>1, <2>2, WorkerTypes
    <2>5. pc' \in [Worker -> Points] /\ WorkersHaveChunk'
      BY <2>1, <2>3, WorkerTypes DEF WorkersHaveChunk
    <2>6. WorkerOK
      BY <2>1, <2>3, <2>4, <2>5, WorkerTypes DEF WorkerOK, AnswerOK
    <2>7. QED
      BY <2>6, WorkerInv
  <1>2. CASE ReleaseStray(w)
    <2>1. /\ in[w] # <<>> /\ UNCHANGED ring
          /\ ReleaseChunk(w, Head(in[w]))
          /\ in' = [in EXCEPT ![w] = Tail(@)]
      BY <1>2 DEF ReleaseStray
    <2>2. Head(in[w]) \in Chunk /\ Tail(in[w]) \in Seq(Chunk)
      BY <2>1, WorkerTypes, HeadTail
    <2>3. /\ AnswerOK /\ update' \in Seq(Chunk)
          /\ UNCHANGED <<loop, parallel, num, pq, ready, closing, accepted,
                         reported, pc>>
      BY <2>1, <2>2, ReleaseChunkType
    <2>4. in' \in [Worker -> Seq(Chunk)]
      BY <2>1, <2>2, WorkerTypes
    <2>5. pc' \in [Worker -> Points] /\ WorkersHaveChunk'
      BY <2>1, <2>3, WorkerTypes DEF WorkersHaveChunk
    <2>6. WorkerOK
      BY <2>1, <2>3, <2>4, <2>5, WorkerTypes DEF WorkerOK, AnswerOK
    <2>7. QED
      BY <2>6, WorkerInv
  <1>3. CASE WorkerDone(w)
    <2>1. /\ pc' = [pc EXCEPT ![w] = "done"]
          /\ UNCHANGED <<loop, parallel, num, pq, ready, closing, accepted,
                         reported, in, ring, update, chunk, stream, remote>>
      BY <1>3 DEF WorkerDone, mgrVars, userVars
    <2>2. pc' \in [Worker -> Points] /\ WorkersHaveChunk'
      BY <2>1, MovesOn
    <2>3. WorkerOK
      BY <2>1, <2>2, WorkerTypes DEF WorkerOK, SplitsAreLong
    <2>4. QED
      BY <2>3, WorkerInv
  <1>4. QED
    BY <1>1, <1>2, <1>3

(* The program. *)

LEMMA ProgramInv ==
    ASSUME IndTypeOK, ProgramStep
    PROVE  IndTypeOK'
  <1>1. CASE Close
    <2>1. /\ closing' = TRUE
          /\ UNCHANGED <<loop, parallel, num, pq, ready, ring, pc, accepted,
                         reported, in, update, chunk, stream, remote>>
      BY <1>1 DEF Close, mgrVars, workerVars
    <2>2. closing' \in BOOLEAN
      BY <2>1, Zenon
    <2>3. TypeOK'
      BY <2>1, <2>2 DEF IndTypeOK, TypeOK
    <2>4. QED
      BY <2>1, <2>3 DEF IndTypeOK, WorkersHaveChunk, SplitsAreLong, HeapHasRoots
  <1>2. ASSUME NEW s \in Stream, SubmitQuery(s)
        PROVE  IndTypeOK'
    <2>1. /\ accepted' = accepted \cup {s} /\ pq' = pq \cup {s}
          /\ s \notin accepted /\ loop' = "fill"
          /\ UNCHANGED <<closing, parallel, num, ready, in, ring, pc, update,
                         chunk, stream, remote, reported>>
      BY <1>2 DEF SubmitQuery
    <2>2. TypeOK'
      BY <2>1 DEF IndTypeOK, TypeOK
    <2>3. stream[s].next = 0 /\ 0 < NumRoots(Query[s])
      <3>1. NumRoots(Query[s]) \in Nat \ {0}
        BY StreamQuery, RootsPartition
      <3>2. QED
        BY <2>1, <3>1 DEF IndTypeOK, HeapHasRoots
    <2>4. HeapHasRoots'
      BY <2>1, <2>3 DEF IndTypeOK, HeapHasRoots
    <2>5. QED
      BY <2>1, <2>2, <2>4 DEF IndTypeOK, WorkersHaveChunk, SplitsAreLong
  <1>3. ASSUME NEW s \in Stream, StreamClose(s)
        PROVE  IndTypeOK'
    <2>1. /\ stream' = [stream EXCEPT ![s].err = "ErrClosed", ![s].blocks = <<>>]
          /\ UNCHANGED <<loop, parallel, num, pq, ready, ring, pc, closing,
                         accepted, reported, in, update, chunk, remote>>
      BY <1>3 DEF StreamClose, mgrVars, workerVars, userVars
    <2>2. /\ stream' \in [Stream -> StreamFields]
          /\ \A t \in Stream : stream'[t].next = stream[t].next
      <3>1. "ErrClosed" \in Err /\ <<>> \in Seq(Chunk)
        BY DEF Err, PublicErr
      <3>2. QED
        BY <2>1, <3>1, WorkerTypes DEF StreamFields
    <2>3. TypeOK'
      BY <2>1, <2>2 DEF IndTypeOK, TypeOK
    <2>4. HeapHasRoots'
      BY <2>1, <2>2 DEF IndTypeOK, TypeOK, HeapHasRoots
    <2>5. QED
      BY <2>1, <2>3, <2>4 DEF IndTypeOK, WorkersHaveChunk, SplitsAreLong
  <1>4. ASSUME NEW s \in Stream, ReadError(s)
        PROVE  IndTypeOK'
    <2>1. /\ reported' = [reported EXCEPT ![s] = stream[s].err]
          /\ UNCHANGED <<loop, parallel, num, pq, ready, ring, pc, closing,
                         accepted, in, update, chunk, stream, remote>>
      BY <1>4 DEF ReadError, mgrVars, workerVars
    <2>2. reported' \in [Stream -> Err]
      BY <2>1 DEF IndTypeOK, TypeOK, StreamFields
    <2>3. TypeOK'
      BY <2>1, <2>2 DEF IndTypeOK, TypeOK
    <2>4. QED
      BY <2>1, <2>3 DEF IndTypeOK, WorkersHaveChunk, SplitsAreLong, HeapHasRoots
  <1>5. QED
    BY <1>1, <1>2, <1>3, <1>4 DEF ProgramStep

(* The theorems. *)

LEMMA StepInv == IndTypeOK /\ [Next]_vars => IndTypeOK'
  <1> SUFFICES ASSUME IndTypeOK, [Next]_vars PROVE IndTypeOK'
    OBVIOUS
  <1>1. CASE LoopStep
    BY <1>1, HandleChunkInv, FillInv, ExitInv DEF LoopStep
  <1>2. ASSUME NEW w \in Worker, CommonStep(w)
        PROVE  IndTypeOK'
    BY <1>2, PopInv, WaitClosingInv, BeginInv, ReleaseInv DEF CommonStep
  <1>3. CASE StarterStep \/ PollerStep \/ StopperStep
    BY <1>2, <1>3, WorkerNames, StarterAnswerInv, PollerAnswerInv,
       StopperAnswerInv DEF StarterStep, PollerStep, StopperStep
  <1>4. CASE ProgramStep
    BY <1>4, ProgramInv
  <1>5. CASE UNCHANGED vars
    BY <1>5 DEF vars, IndTypeOK, TypeOK, WorkersHaveChunk, HeapHasRoots,
                SplitsAreLong
  <1>6. QED
    BY <1>1, <1>3, <1>4, <1>5 DEF Next, SystemStep

\* Whatever the queries and the configuration, IndTypeOK is invariant: the
\* chunks that the loop makes, restarts and splits are proper parts of their
\* queries, a worker that waits or calls has a chunk, the heap never holds a
\* stream without chunks to make (Issue #25), and m.parallel stays between
\* parallelMin and Config.Parallel.
THEOREM InductiveType == Spec => []IndTypeOK
  <1>1. QED
    BY InitType, StepInv, PTL DEF Spec

\* The type invariant.
THEOREM TypeCorrect == Spec => []TypeOK
  <1>1. IndTypeOK => TypeOK
    BY DEF IndTypeOK
  <1>2. QED
    BY <1>1, InductiveType, PTL

(* Parallelism. *)

\* A step that moves at most one chunk between the counts, or takes chunks
\* out of them.
NoMoreInFlight == num' \in NumType /\ InFlight' <= InFlight

\* A chunk given up, and one handed over.
GivesUp ==
    \/ num' = [num EXCEPT !.starting = @ - 1]
    \/ num' = [num EXCEPT !.polling = @ - 1]
    \/ num' = [num EXCEPT !.stopping = @ - 1]

HandsOver ==
    \/ num' = [num EXCEPT !.starting = @ - 1, !.polling = @ + 1]
    \/ num' = [num EXCEPT !.starting = @ - 1, !.stopping = @ + 1]
    \/ num' = [num EXCEPT !.polling = @ - 1, !.stopping = @ + 1]

LEMMA MoveInFlight ==
    ASSUME num \in NumType, GivesUp \/ HandsOver
    PROVE  NoMoreInFlight
  <1>1. /\ num.starting \in Int /\ num.polling \in Int
        /\ num.stopping \in Int
    BY DEF NumType
  <1>2. CASE GivesUp
    <2>1. num' \in NumType
      BY <1>1, <1>2 DEF GivesUp, NumType
    <2>2. InFlight' = InFlight - 1
      BY <1>1, <1>2 DEF GivesUp, NumType, InFlight
    <2>3. QED
      BY <1>1, <2>1, <2>2 DEF NoMoreInFlight, InFlight
  <1>3. CASE HandsOver
    <2>1. num' \in NumType
      BY <1>3, NumMove DEF HandsOver
    <2>2. InFlight' = InFlight
      <3>1. CASE num' = [num EXCEPT !.starting = @ - 1, !.polling = @ + 1]
        BY <1>1, <3>1 DEF NumType, InFlight
      <3>2. CASE num' = [num EXCEPT !.starting = @ - 1, !.stopping = @ + 1]
        BY <1>1, <3>2 DEF NumType, InFlight
      <3>3. CASE num' = [num EXCEPT !.polling = @ - 1, !.stopping = @ + 1]
        BY <1>1, <3>3 DEF NumType, InFlight
      <3>4. QED
        BY <1>3, <3>1, <3>2, <3>3 DEF HandsOver
    <2>3. QED
      BY <1>1, <2>1, <2>2 DEF NoMoreInFlight, InFlight
  <1>4. QED
    BY <1>2, <1>3

LEMMA LoopInFlight ==
    ASSUME IndTypeOK, LoopStep
    PROVE  NoMoreInFlight \/ (HasCapacity /\ InFlight' = InFlight + 1)
  <1>1. num \in NumType
    BY DEF IndTypeOK, TypeOK, NumType
  <1>2. /\ num.starting \in Int /\ num.polling \in Int
        /\ num.stopping \in Int
    BY <1>1 DEF NumType
  <1>3. CASE HandleChunk
    <2>1. GivesUp \/ HandsOver
      BY <1>3, Zenon
         DEF HandleChunk, HandleReduceParallel, HandleStartFailure,
             HandleChunkStarted, HandleRestart, HandleSplit, HandleStop,
             HandleUnexpected, HandleTerminal, HandleChunkCompletion,
             HandleStopped, GivesUp, HandsOver
    <2>2. QED
      BY <1>1, <2>1, MoveInFlight
  <1>4. CASE FillReady \/ FillNext
    <2>1. HasCapacity /\ num' = [num EXCEPT !.starting = @ + 1]
      BY <1>4 DEF FillReady, FillNext, Launch
    <2>2. InFlight' = InFlight + 1
      BY <1>1, <1>2, <2>1 DEF InFlight, NumType
    <2>3. QED
      BY <2>1, <2>2
  <1>5. CASE FillDone \/ Exit \/ CloseStreams \/ Stopped
    BY <1>1, <1>2, <1>5
       DEF FillDone, Exit, CloseStreams, Stopped, NoMoreInFlight, InFlight
  <1>6. CASE DrainLive \/ DrainDead \/ DrainStopping \/ DrainStop
    <2>1. GivesUp \/ HandsOver
      BY <1>6, Zenon
         DEF DrainLive, DrainDead, DrainStopping, DrainStop, GivesUp, HandsOver
    <2>2. QED
      BY <1>1, <2>1, MoveInFlight
  <1>7. QED
    BY <1>3, <1>4, <1>5, <1>6 DEF LoopStep

LEMMA OthersInFlight ==
    ASSUME [Next]_vars, ~LoopStep
    PROVE  UNCHANGED num
  <1>1. CASE StarterStep \/ PollerStep \/ StopperStep
    <2>1. ASSUME NEW w \in Worker, CommonStep(w)
          PROVE  UNCHANGED num
      BY <2>1 DEF CommonStep, Pop, WaitClosing, Begin, ReleaseInProgress,
                  ReleaseStray, ReleaseChunk, WorkerDone, mgrVars
    <2>2. CASE StarterAnswer
      BY <2>2 DEF StarterAnswer, StarterRetry, StarterLimited, StarterFails,
                  StarterStarts, Answered, mgrVars
    <2>3. CASE PollerAnswer
      BY <2>3 DEF PollerAnswer, PollerRetry, PollerInconclusive,
                  PollerUnexpected, PollerMaxed, PollerCompletes,
                  PollerRestarts, PollerTerminal, Answered, mgrVars
    <2>4. CASE StopperAnswer
      BY <2>4 DEF StopperAnswer, StopperRetry, StopperPanics, StopperFinishes,
                  Answered, mgrVars
    <2>5. QED
      BY <1>1, <2>1, <2>2, <2>3, <2>4, WorkerNames
         DEF StarterStep, PollerStep, StopperStep
  <1>2. CASE ProgramStep
    BY <1>2 DEF ProgramStep, Close, SubmitQuery, StreamClose, ReadError, mgrVars
  <1>3. QED
    BY <1>1, <1>2 DEF Next, SystemStep, vars

\* The chunks in flight never outnumber Config.Parallel: the loop launches a
\* chunk only below m.parallel, which never exceeds Config.Parallel, and all
\* other steps hand chunks over or give them up.
THEOREM InFlightBounded == Spec => []InFlightWithinParallel
  <1>1. Init => InFlightWithinParallel
    BY LimitAssumption DEF Init, InFlightWithinParallel, InFlight
  <1>2. IndTypeOK /\ InFlightWithinParallel /\ [Next]_vars
            => InFlightWithinParallel'
    <2> SUFFICES ASSUME IndTypeOK, InFlightWithinParallel, [Next]_vars
                 PROVE  InFlightWithinParallel'
      OBVIOUS
    <2>1. /\ num \in NumType /\ parallel \in 1 .. Parallel
          /\ Parallel \in Nat /\ InFlight \in Int
      BY LimitAssumption DEF IndTypeOK, TypeOK, NumType, InFlight
    <2>2. CASE LoopStep
      <3>1. CASE NoMoreInFlight
        <4>1. InFlight' \in Int
          BY <3>1 DEF NoMoreInFlight, NumType, InFlight
        <4>2. QED
          BY <2>1, <3>1, <4>1 DEF NoMoreInFlight, InFlightWithinParallel
      <3>2. CASE HasCapacity /\ InFlight' = InFlight + 1
        BY <2>1, <3>2 DEF HasCapacity, InFlightWithinParallel
      <3>3. QED
        BY <2>2, <3>1, <3>2, LoopInFlight
    <2>3. CASE ~LoopStep
      BY <2>3, OthersInFlight DEF InFlightWithinParallel, InFlight
    <2>4. QED
      BY <2>2, <2>3
  <1>3. QED
    BY <1>1, <1>2, InductiveType, PTL DEF Spec
=============================================================================
