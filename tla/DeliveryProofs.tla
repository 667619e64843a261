--------------------------- MODULE DeliveryProofs ---------------------------
(***************************************************************************)
(* Theorems about what QueryManager delivers: no millisecond of a query    *)
(* twice, all of them by EOF, and EOF only when nothing of the query is    *)
(* left in the manager or in CloudWatch Logs.  From these, QueryManager    *)
(* implements QueryContract: each step does to the streams a step of the   *)
(* contract, or nothing the program could see.                             *)
(***************************************************************************)
EXTENDS ContractRefinement, PlacesProofs

(* Chunks, stages and streams. *)

LEMMA ChunksOfStream ==
    ASSUME NEW s \in Stream, NEW c
    PROVE  c \in ChunksOf(s) <=> c \in Chunk /\ c.stream = s
  <1>1. \A t \in Stream : c \in ChunksOf(t) => c.stream = t
    BY DEF ChunksOf
  <1>2. QED
    BY <1>1 DEF Chunk

LEMMA PendingStage ==
    ASSUME NEW c
    PROVE  /\ Pending(c) <=> Stage(c) = "pending"
           /\ Pending(c)' <=> Stage(c)' = "pending"
  BY DEF Pending, Stage, StateStage

LEMMA OwedStage ==
    ASSUME NEW s, NEW c
    PROVE  /\ c \in Owed(s) <=> c \in ChunksOf(s) /\ Stage(c) # "out"
           /\ c \in Owed(s)' <=> c \in ChunksOf(s) /\ Stage(c)' # "out"
  BY DEF Owed, Stage, StateStage

LEMMA StreamTypes ==
    ASSUME IndTypeOK, NEW s \in Stream
    PROVE  /\ stream[s] \in StreamFields /\ stream \in [Stream -> StreamFields]
           /\ stream[s].n \in Nat /\ stream[s].m \in Nat
           /\ stream[s].next \in Nat /\ stream[s].blocks \in Seq(Chunk)
           /\ NumRoots(Query[s]) \in Nat
           /\ MadeUpTo(s) \in Int
           /\ Times(s) \subseteq Int
           /\ Query[s].start \in Nat /\ Query[s].end \in Nat
  <1>1. /\ stream[s] \in StreamFields /\ stream \in [Stream -> StreamFields]
        /\ stream[s].next \in Nat
        /\ Query[s].start \in Nat /\ Query[s].end \in Nat
        /\ NumRoots(Query[s]) \in Nat
    BY StreamQuery, QueryDurations, RootsPartition
       DEF IndTypeOK, TypeOK, StreamFields
  <1>2. MadeUpTo(s) \in Int
    BY <1>1, RootIsChunk, ChunkElim DEF MadeUpTo
  <1>3. QED
    BY <1>1, <1>2 DEF StreamFields, Times

LEMMA OwedFinite ==
    ASSUME NEW s \in Stream
    PROVE  /\ IsFiniteSet(Owed(s)) /\ Cardinality(Owed(s)) \in Nat
           /\ IsFiniteSet(Owed(s)') /\ Cardinality(Owed(s)') \in Nat
  <1>1. Owed(s) \in SUBSET ChunksOf(s) /\ Owed(s)' \in SUBSET ChunksOf(s)
    BY DEF Owed
  <1>2. QED
    BY <1>1, ChunksOfFinite, FS_Subset, FS_CardinalityType

(* The blocks of a stream. *)

LEMMA BlocksKeep ==
    ASSUME NEW s \in Stream, BlocksOK(s),
           stream'[s].blocks \in {stream[s].blocks, <<>>},
           stream'[s].next = stream[s].next,
           \A c \in Chunk : c.stream = s /\ Stage(c)' = "pending"
                                => Stage(c) = "pending"
    PROVE  BlocksOK(s)'
  <1>1. MadeUpTo(s)' = MadeUpTo(s)
    BY DEF MadeUpTo
  <1>2. \A c \in Chunk : c.stream = s /\ Pending(c)' => Pending(c)
    BY PendingStage
  <1>3. CASE stream'[s].blocks = stream[s].blocks
    BY <1>1, <1>2, <1>3 DEF BlocksOK
  <1>4. CASE stream'[s].blocks = <<>>
    BY <1>4 DEF BlocksOK
  <1>5. QED
    BY <1>3, <1>4

LEMMA DeliveredBlocks ==
    ASSUME IndTypeOK, RangesFresh, NEW s \in Stream, BlocksOK(s),
           NEW x, Delivered(x), x.stream = s
    PROVE  BlocksOK(s)'
  <1> DEFINE old == stream[s].blocks
             new == stream'[s].blocks
             n == Len(old)
  <1>1. /\ x \in Chunk /\ Held(x) /\ Stage(x) = "pending" /\ Stage(x)' = "complete"
        /\ \A c \in Chunk \ {x} : Stage(c)' = Stage(c)
        /\ stream' = [stream EXCEPT ![s].blocks = Append(@, x)]
    BY DEF Delivered, Turns
  <1>2. old \in Seq(Chunk) /\ stream \in [Stream -> StreamFields]
    BY StreamTypes
  <1>3. new = Append(old, x) /\ stream'[s].next = stream[s].next
    BY <1>1, <1>2 DEF StreamFields
  <1>4. MadeUpTo(s)' = MadeUpTo(s)
    BY <1>3 DEF MadeUpTo
  <1>5. /\ DOMAIN old = 1 .. n /\ n \in Nat
        /\ DOMAIN new = 1 .. n + 1 /\ new[n + 1] = x
        /\ \A i \in 1 .. n : new[i] = old[i]
    BY <1>2, <1>3
  <1>6. \A i \in DOMAIN old :
            /\ old[i].end <= MadeUpTo(s)
            /\ \A j \in DOMAIN old : i # j => Apart(old[i], old[j])
            /\ \A c \in Chunk : Stage(c) = "pending" /\ c.stream = s
                                    => Apart(old[i], c)
    BY PendingStage DEF BlocksOK
  <1>7. /\ x.end <= MadeUpTo(s)
        /\ \A c \in Chunk : Stage(c) = "pending" /\ c.stream = s /\ c # x
                                => Apart(x, c)
    BY <1>1 DEF RangesFresh, Stage
  <1> HIDE DEF old, new, n
  <1>8. ASSUME NEW i \in DOMAIN new
        PROVE  /\ new[i].end <= MadeUpTo(s)
               /\ \A j \in DOMAIN new : i # j => Apart(new[i], new[j])
               /\ \A c \in Chunk : Stage(c)' = "pending" /\ c.stream = s
                                       => Apart(new[i], c)
    <2>1. CASE i \in 1 .. n
      <3>1. \A j \in DOMAIN new : i # j => Apart(new[i], new[j])
        <4> SUFFICES ASSUME NEW j \in DOMAIN new, i # j
                     PROVE  Apart(new[i], new[j])
          OBVIOUS
        <4>1. CASE j \in 1 .. n
          BY <1>5, <1>6, <2>1, <4>1
        <4>2. CASE j = n + 1
          BY <1>1, <1>5, <1>6, <2>1, <4>2
        <4>3. QED
          BY <1>5, <4>1, <4>2
      <3>2. QED
        BY <1>1, <1>5, <1>6, <2>1, <3>1
    <2>2. CASE i = n + 1
      <3>1. \A j \in DOMAIN new : i # j => j \in 1 .. n
        BY <1>5, <2>2
      <3>2. \A j \in 1 .. n : Apart(old[j], x)
        BY <1>1, <1>5, <1>6
      <3>3. \A j \in 1 .. n : Apart(x, old[j])
        BY <3>2 DEF Apart
      <3>4. QED
        BY <1>1, <1>5, <1>7, <2>2, <3>1, <3>3
    <2>3. QED
      BY <1>5, <2>1, <2>2
  <1>9. QED
    BY <1>4, <1>8, PendingStage DEF BlocksOK, new

LEMMA SplitBlocks ==
    ASSUME IndTypeOK, NEW s \in Stream, BlocksOK(s),
           NEW x, SplitUp(x), x.stream = s
    PROVE  BlocksOK(s)'
  <1> DEFINE kids == Children(x)
             old == stream[s].blocks
  <1>1. /\ x \in Chunk /\ Splittable(QueryOf(x), x)
        /\ Stage(x) = "pending" /\ Stage(x)' = "out"
        /\ \A c \in Chunk : InSeq(c, kids) => PartOf(c, x)
        /\ \A c \in Chunk \ {x} : ~InSeq(c, kids) => Stage(c)' = Stage(c)
        /\ stream' = [stream EXCEPT ![s] = Completed(@, Len(kids))]
    BY DEF SplitUp
  <1>2. Len(kids) \in Nat
    BY <1>1, ChildrenAreChunks
  <1>3. stream[s] \in StreamFields /\ stream \in [Stream -> StreamFields]
    BY StreamTypes
  <1>4. stream'[s].next = stream[s].next /\ stream'[s].blocks = old
    BY <1>1, <1>2, <1>3, CompletedFields
  <1> HIDE DEF kids, old
  <1>5. MadeUpTo(s)' = MadeUpTo(s)
    BY <1>4 DEF MadeUpTo
  <1>6. \A i \in DOMAIN old :
            /\ old[i].end <= MadeUpTo(s)
            /\ \A j \in DOMAIN old : i # j => Apart(old[i], old[j])
            /\ \A c \in Chunk : Stage(c) = "pending" /\ c.stream = s
                                    => Apart(old[i], c)
    BY PendingStage DEF BlocksOK, old
  <1>7. ASSUME NEW i \in DOMAIN old, NEW c \in Chunk,
               Stage(c)' = "pending", c.stream = s
        PROVE  Apart(old[i], c)
    <2>1. CASE InSeq(c, kids)
      <3>1. old[i] \in Chunk /\ old[i].start \in Nat /\ old[i].end \in Nat
        BY StreamTypes, ChunkElim DEF old
      <3>2. Apart(old[i], x) /\ PartOf(c, x)
        BY <1>1, <1>6, <2>1
      <3>3. /\ c.start \in Nat /\ c.end \in Nat
            /\ x.start \in Nat /\ x.end \in Nat
        BY <1>1, ChunkElim
      <3>4. QED
        BY <3>1, <3>2, <3>3 DEF Apart, PartOf
    <2>2. CASE ~InSeq(c, kids)
      BY <1>1, <1>6, <1>7, <2>2
    <2>3. QED
      BY <2>1, <2>2
  <1>8. QED
    BY <1>4, <1>5, <1>6, <1>7, PendingStage DEF BlocksOK

LEMMA MadeBlocks ==
    ASSUME IndTypeOK, NEW s \in pq, s \in Stream, BlocksOK(s),
           NEW x, x = Root(s, stream[s].next),
           \A c \in Chunk \ {x} : Stage(c)' = Stage(c),
           stream' = [stream EXCEPT ![s].next = @ + 1]
    PROVE  BlocksOK(s)'
  <1> DEFINE old == stream[s].blocks
  <1>1. /\ x \in Chunk /\ x.stream = s
        /\ MadeUpTo(s) = x.start /\ MadeUpTo(s)' = x.end
    <2>1. MakesRoot(s, x)
      BY DEF MakesRoot
    <2>2. RootMade(s, x)
      BY <2>1, MadeFacts
    <2>3. QED
      BY <2>2, Zenon DEF RootMade
  <1>2. /\ x.start \in Nat /\ x.end \in Nat /\ x.start < x.end
        /\ stream'[s].blocks = old
        /\ \A i \in DOMAIN old : old[i].end \in Nat
    BY <1>1, ChunkElim, StreamTypes DEF StreamFields
  <1>3. \A i \in DOMAIN old :
            /\ old[i].end <= x.start
            /\ \A j \in DOMAIN old : i # j => Apart(old[i], old[j])
            /\ \A c \in Chunk : Stage(c) = "pending" /\ c.stream = s
                                    => Apart(old[i], c)
    BY <1>1, PendingStage DEF BlocksOK
  <1> HIDE DEF old
  <1>4. \A i \in DOMAIN old :
            /\ old[i].end <= x.end
            /\ \A c \in Chunk : Stage(c)' = "pending" /\ c.stream = s
                                    => Apart(old[i], c)
    BY <1>2, <1>3 DEF Apart
  <1>5. QED
    BY <1>1, <1>2, <1>3, <1>4, PendingStage DEF BlocksOK

(* What a step does to one stream. *)

\* The stream's chunks stay in their stages; the stream may be closed.
Unmoved(s) ==
    /\ \A c \in ChunksOf(s) : Stage(c)' = Stage(c)
    /\ StartsPending
    /\ \/ stream'[s] = stream[s]
       \/ /\ s \in accepted /\ stream'[s].err = "ErrClosed"
          /\ stream'[s].blocks \in {stream[s].blocks, <<>>}
          /\ stream'[s].next = stream[s].next
          /\ stream'[s].n = stream[s].n /\ stream'[s].m = stream[s].m
    /\ accepted \subseteq accepted'
    /\ \/ reported'[s] = reported[s]
       \/ s \in accepted /\ reported'[s] = stream[s].err

\* One chunk of the stream goes to another stage.
Moved(s) ==
    /\ UNCHANGED <<accepted, reported>>
    /\ \E x \in Chunk :
          /\ x.stream = s
          /\ Delivered(x) \/ GivenUp(x) \/ Finishes(x) \/ SplitUp(x) \/ Made(x)

LEMMA SystemKeepsUser ==
    ASSUME SystemStep
    PROVE  UNCHANGED <<closing, accepted, reported>>
  <1>1. CASE HandleChunk
    BY <1>1 DEF HandleChunk, HandleReduceParallel, HandleStartFailure,
       HandleChunkStarted, HandleRestart, HandleSplit, HandleStop,
       HandleUnexpected, HandleTerminal, HandleChunkCompletion, HandleStopped,
       Receive, userVars
  <1>2. CASE FillReady \/ FillNext \/ FillDone
    BY <1>2 DEF FillReady, FillNext, FillDone, Launch, userVars
  <1>3. CASE \/ Exit \/ DrainLive \/ DrainDead \/ DrainStopping \/ CloseStreams
             \/ DrainStop \/ Stopped
    BY <1>3 DEF Exit, DrainLive, DrainDead, DrainStopping, CloseStreams,
       DrainStop, Stopped, Draining, userVars
  <1>4. ASSUME NEW w \in Worker, CommonStep(w)
        PROVE  UNCHANGED <<closing, accepted, reported>>
    BY <1>4 DEF CommonStep, Pop, WaitClosing, Begin, ReleaseInProgress,
       ReleaseStray, ReleaseChunk, WorkerDone, userVars
  <1>5. CASE StarterAnswer \/ StopperAnswer
    BY <1>5 DEF StarterAnswer, StarterRetry, StarterLimited, StarterFails,
       StarterStarts, StopperAnswer, StopperRetry, StopperPanics,
       StopperFinishes, Answered, userVars
  <1>6. CASE PollerAnswer
    BY <1>6 DEF PollerAnswer, PollerRetry, PollerInconclusive,
       PollerUnexpected, PollerMaxed, PollerCompletes, PollerRestarts,
       PollerTerminal, Answered, userVars
  <1>7. QED
    BY <1>1, <1>2, <1>3, <1>4, <1>5, <1>6, WorkerNames
       DEF SystemStep, LoopStep, StarterStep, PollerStep, StopperStep

LEMMA StreamEffect ==
    ASSUME PlacesOK, RangesFresh, [Next]_vars, NEW s \in Stream
    PROVE  Unmoved(s) \/ Moved(s)
  <1>1. /\ IndTypeOK /\ stream \in [Stream -> StreamFields] /\ pq \subseteq accepted
    BY DEF PlacesOK, IndTypeOK, TypeOK, HeapHasRoots
  <1>2. CASE SystemStep
    <2>1. UNCHANGED <<accepted, reported>>
      BY <1>2, SystemKeepsUser
    <2>2. CASE Quiet
      BY <2>1, <2>2, ChunksOfStream DEF Quiet, Unmoved
    <2>3. ASSUME NEW x \in Chunk,
                 \/ Delivered(x) \/ GivenUp(x) \/ Finishes(x)
                 \/ SplitUp(x) \/ Made(x)
          PROVE  Unmoved(s) \/ Moved(s)
      <3>1. CASE x.stream = s
        BY <2>1, <2>3, <3>1 DEF Moved
      <3>2. CASE x.stream # s
        <4>1. x.stream \in Stream
          BY ChunkElim
        <4>2. \A c \in ChunksOf(s) : c \in Chunk /\ c.stream = s /\ c # x
          BY <3>2, ChunksOfStream
        <4>3. CASE Delivered(x) \/ GivenUp(x) \/ Finishes(x)
          <5>1. stream'[s] = stream[s]
            BY <1>1, <3>2, <4>3 DEF Delivered, GivenUp, Finishes, KillStream
          <5>2. StartsPending /\ \A c \in Chunk \ {x} : Stage(c)' = Stage(c)
            BY <4>3 DEF Delivered, GivenUp, Finishes, Turns
          <5>3. QED
            BY <2>1, <4>2, <5>1, <5>2 DEF Unmoved
        <4>4. CASE SplitUp(x)
          <5>1. /\ stream'[s] = stream[s] /\ StartsPending
            BY <1>1, <3>2, <4>4 DEF SplitUp, StartsPending
          <5>2. \A c \in ChunksOf(s) : ~InSeq(c, Children(x))
            BY <3>2, <4>2, <4>4 DEF SplitUp, PartOf
          <5>3. \A c \in ChunksOf(s) : Stage(c)' = Stage(c)
            BY <4>2, <4>4, <5>2 DEF SplitUp
          <5>4. QED
            BY <2>1, <5>1, <5>3 DEF Unmoved
        <4>5. CASE Made(x)
          <5>1. PICK t \in pq :
                    /\ x = Root(t, stream[t].next)
                    /\ \A c \in Chunk \ {x} : Stage(c)' = Stage(c)
                    /\ UNCHANGED remote
                    /\ stream' = [stream EXCEPT ![t].next = @ + 1]
            BY <4>5 DEF Made
          <5>2. x.stream = t
            BY <5>1 DEF Root
          <5>3. stream'[s] = stream[s] /\ StartsPending
            BY <1>1, <3>2, <5>1, <5>2 DEF StartsPending
          <5>4. QED
            BY <2>1, <4>2, <5>1, <5>3 DEF Unmoved
        <4>6. QED
          BY <2>3, <4>3, <4>4, <4>5
      <3>3. QED
        BY <3>1, <3>2
    <2>4. CASE CloseStreams
      <3>1. AllStay
        BY <2>4 DEF CloseStreams, AllStay, workerVars
      <3>2. stream'[s] = IF s \in pq THEN SetErr(stream[s], "ErrClosed")
                                     ELSE stream[s]
        BY <2>4 DEF CloseStreams
      <3>3. QED
        BY <1>1, <2>1, <3>1, <3>2, StayStages, ChunksOfStream, SetErrFields
           DEF Unmoved
    <2>5. QED
      BY <1>2, <2>2, <2>3, <2>4, SystemEffect
  <1>3. CASE ProgramStep \/ UNCHANGED vars
    <2>1. AllStay
      BY <1>3 DEF ProgramStep, Close, SubmitQuery, StreamClose, ReadError,
                  AllStay, mgrVars, workerVars, vars
    <2>2. /\ \A c \in ChunksOf(s) : Stage(c)' = Stage(c)
          /\ StartsPending
      BY <2>1, StayStages, ChunksOfStream
    <2>3. CASE Close \/ UNCHANGED vars
      BY <2>2, <2>3 DEF Close, vars, Unmoved
    <2>4. ASSUME NEW t \in Stream, SubmitQuery(t) \/ StreamClose(t) \/ ReadError(t)
          PROVE  Unmoved(s)
      <3>1. CASE SubmitQuery(t)
        BY <2>2, <3>1 DEF SubmitQuery, Unmoved
      <3>2. CASE StreamClose(t)
        <4>1. \/ stream'[s] = stream[s]
              \/ /\ s = t /\ stream'[s].err = "ErrClosed"
                 /\ stream'[s].blocks = <<>>
                 /\ stream'[s].next = stream[s].next
                 /\ stream'[s].n = stream[s].n /\ stream'[s].m = stream[s].m
          BY <1>1, <3>2 DEF StreamClose, StreamFields
        <4>2. QED
          BY <2>2, <3>2, <4>1 DEF StreamClose, Unmoved, userVars
      <3>3. CASE ReadError(t)
        <4>1. reported \in [Stream -> Err]
          BY <1>1 DEF IndTypeOK, TypeOK
        <4>2. QED
          BY <2>2, <3>3, <4>1 DEF ReadError, Unmoved
      <3>4. QED
        BY <2>4, <3>1, <3>2, <3>3
    <2>5. QED
      BY <1>3, <2>3, <2>4 DEF ProgramStep
  <1>4. QED
    BY <1>2, <1>3 DEF Next

\* A step of one chunk, and what it leaves of the stream.
LEMMA GivenUpFields ==
    ASSUME IndTypeOK, NEW x \in Chunk, GivenUp(x), NEW s, s = x.stream
    PROVE  /\ stream'[s].next = stream[s].next
           /\ stream'[s].blocks = stream[s].blocks
           /\ stream'[s].n = stream[s].n /\ stream'[s].m = stream[s].m
           /\ \/ stream'[s].err = stream[s].err
              \/ /\ stream[s].err # "ErrClosed"
                 /\ stream'[s].err \in PublicErr
           /\ stream[s].err = "ErrClosed" => stream'[s].err = "ErrClosed"
  <1>1. s \in Stream /\ stream \in [Stream -> StreamFields]
    BY ChunkElim DEF IndTypeOK, TypeOK
  <1>2. CASE UNCHANGED stream
    BY <1>2
  <1>3. CASE \E e \in PublicErr : KillStream(x, e)
    <2>1. PICK e \in PublicErr : stream'[s] = SetErr(stream[s], e)
      BY <1>1, <1>3 DEF KillStream
    <2>2. stream[s] \in StreamFields
      BY <1>1
    <2>3. QED
      BY <2>1, <2>2, SetErrFields
  <1>4. QED
    BY <1>2, <1>3 DEF GivenUp

LEMMA EndedFields ==
    ASSUME IndTypeOK, NEW x \in Chunk, Finishes(x), NEW s, s = x.stream
    PROVE  /\ stream'[s].next = stream[s].next
           /\ stream'[s].blocks = stream[s].blocks
           /\ stream'[s].n = stream[s].n /\ stream'[s].m = stream[s].m + 1
           /\ stream'[s].err = IF stream[s].err = "ErrClosed" THEN "ErrClosed"
                               ELSE IF stream'[s].m = stream'[s].n
                                    THEN "EOF" ELSE "nil"
  <1>1. s \in Stream /\ stream \in [Stream -> StreamFields]
    BY ChunkElim DEF IndTypeOK, TypeOK
  <1>2. stream'[s] = Completed(stream[s], 0) /\ stream[s] \in StreamFields
    BY <1>1 DEF Finishes
  <1>3. stream[s].n + 0 = stream[s].n
    BY <1>2 DEF StreamFields
  <1>4. QED
    BY <1>2, <1>3, CompletedFields

LEMMA SplitFields ==
    ASSUME IndTypeOK, NEW x \in Chunk, SplitUp(x), NEW s, s = x.stream
    PROVE  LET k == Len(Children(x))
           IN  /\ k \in Nat
               /\ stream'[s].next = stream[s].next
               /\ stream'[s].blocks = stream[s].blocks
               /\ stream'[s].n = stream[s].n + k
               /\ stream'[s].m = stream[s].m + 1
               /\ stream'[s].err = IF stream[s].err = "ErrClosed"
                                   THEN "ErrClosed"
                                   ELSE IF stream'[s].m = stream'[s].n
                                        THEN "EOF" ELSE "nil"
  <1> DEFINE k == Len(Children(x))
  <1>1. s \in Stream /\ stream \in [Stream -> StreamFields]
    BY ChunkElim DEF IndTypeOK, TypeOK
  <1>2. k \in Nat
    BY ChildrenFacts DEF SplitUp
  <1>3. stream' = [stream EXCEPT ![s] = Completed(@, k)]
    BY DEF SplitUp
  <1> HIDE DEF k
  <1>4. stream'[s] = Completed(stream[s], k) /\ stream[s] \in StreamFields
    BY <1>1, <1>3
  <1>5. QED
    BY <1>2, <1>4, CompletedFields DEF k

LEMMA BlocksStep ==
    ASSUME PlacesOK, RangesFresh, [Next]_vars, NEW s \in Stream, BlocksOK(s)
    PROVE  BlocksOK(s)'
  <1>1. IndTypeOK
    BY DEF PlacesOK
  <1>2. CASE Unmoved(s)
    <2>1. \A c \in Chunk : c.stream = s /\ Stage(c)' = "pending"
                               => Stage(c) = "pending"
      BY <1>2, ChunksOfStream DEF Unmoved
    <2>2. /\ stream'[s].blocks \in {stream[s].blocks, <<>>}
          /\ stream'[s].next = stream[s].next
      BY <1>2 DEF Unmoved
    <2>3. QED
      BY <2>1, <2>2, BlocksKeep
  <1>3. ASSUME NEW x \in Chunk, x.stream = s,
               \/ Delivered(x) \/ GivenUp(x) \/ Finishes(x) \/ SplitUp(x) \/ Made(x)
        PROVE  BlocksOK(s)'
    <2>1. CASE Delivered(x)
      BY <1>1, <1>3, <2>1, DeliveredBlocks
    <2>2. CASE GivenUp(x) \/ Finishes(x)
      <3>1. \A c \in Chunk : c.stream = s /\ Stage(c)' = "pending"
                                 => Stage(c) = "pending"
        BY <2>2 DEF GivenUp, Finishes, Turns
      <3>2. /\ stream'[s].blocks = stream[s].blocks
            /\ stream'[s].next = stream[s].next
        BY <1>1, <1>3, <2>2, GivenUpFields, EndedFields
      <3>3. QED
        BY <3>1, <3>2, BlocksKeep
    <2>3. CASE SplitUp(x)
      BY <1>1, <1>3, <2>3, SplitBlocks
    <2>4. CASE Made(x)
      <3>1. PICK t \in pq :
                /\ x = Root(t, stream[t].next)
                /\ \A c \in Chunk \ {x} : Stage(c)' = Stage(c)
                /\ stream' = [stream EXCEPT ![t].next = @ + 1]
        BY <2>4 DEF Made
      <3>2. x.stream = t
        BY <3>1 DEF Root
      <3>3. t = s
        BY <1>3, <3>2
      <3>4. QED
        BY <1>1, <3>1, <3>3, MadeBlocks
    <2>5. QED
      BY <1>3, <2>1, <2>2, <2>3, <2>4
  <1>4. QED
    BY <1>2, <1>3, StreamEffect DEF Moved

(* The counts of a stream. *)

LEMMA ServedStage ==
    ASSUME NEW s \in Stream, NEW t
    PROVE  /\ Served(s, t) <=>
                 \/ \E i \in DOMAIN stream[s].blocks : Covers(stream[s].blocks[i], t)
                 \/ \E c \in ChunksOf(s) : Stage(c) = "pending" /\ Covers(c, t)
                 \/ MadeUpTo(s) <= t
           /\ Served(s, t)' <=>
                 \/ \E i \in DOMAIN stream'[s].blocks : Covers(stream'[s].blocks[i], t)
                 \/ \E c \in ChunksOf(s) : Stage(c)' = "pending" /\ Covers(c, t)
                 \/ MadeUpTo(s)' <= t
  BY DEF Served, Owed, Stage, StateStage

\* What is expected, when one chunk of the stream may come or go.
LEMMA ExpectedOne ==
    ASSUME IndTypeOK, RangesFresh, NEW s \in Stream, NEW x \in ChunksOf(s),
           \A c \in ChunksOf(s) \ {x} : Stage(c)' = Stage(c)
    PROVE  /\ Cardinality(Owed(s)') = Cardinality(Owed(s))
                  + (IF Stage(x)' # "out" THEN 1 ELSE 0)
                  - (IF Stage(x) # "out" THEN 1 ELSE 0)
           /\ Cardinality(Owed(s)') \in Nat /\ Cardinality(Owed(s)) \in Nat
           /\ Stage(x) # "out" => Cardinality(Owed(s)) >= 1
  <1> DEFINE A == Owed(s)
             B == Owed(s)'
  <1>1. /\ IsFiniteSet(A) /\ Cardinality(A) \in Nat /\ Cardinality(B) \in Nat
    BY OwedFinite
  <1>2. /\ x \in A <=> Stage(x) # "out"
        /\ x \in B <=> Stage(x)' # "out"
        /\ A \ {x} = B \ {x}
    BY OwedStage
  <1> HIDE DEF A, B
  <1>3. Cardinality(B) = Cardinality(A)
                  + (IF x \in B THEN 1 ELSE 0) - (IF x \in A THEN 1 ELSE 0)
    BY <1>1, <1>2, OneMore
  <1>4. x \in A => Cardinality(A) >= 1
    BY <1>1, FS_EmptySet
  <1>5. QED
    BY <1>1, <1>2, <1>3, <1>4 DEF A, B

LEMMA RunningOwed ==
    ASSUME NEW s \in Stream, StartsPending, NEW c \in ChunksOf(s),
           remote'[c] = "running"
    PROVE  remote[c] = "running" \/ c \in Owed(s)'
  <1>1. c \in Chunk
    BY ChunksOfStream
  <1>2. QED
    BY <1>1, OwedStage DEF StartsPending

LEMMA UnmovedExact ==
    ASSUME NEW s \in Stream, Unmoved(s), StreamExact(s)
    PROVE  StreamExact(s)'
  <1>1. Owed(s)' = Owed(s)
    BY OwedStage DEF Unmoved, Owed
  <1>2. /\ stream'[s].next = stream[s].next
        /\ stream'[s].n = stream[s].n /\ stream'[s].m = stream[s].m
    BY DEF Unmoved
  <1>3. Expected(s)' = Expected(s) /\ Missing(s)' = Missing(s)
    BY <1>1, <1>2 DEF Expected, Missing
  <1>4. Expected(s)' <= Missing(s)'
    BY <1>3 DEF StreamExact
  <1>5. ASSUME Intact(s)'
        PROVE  /\ \A c \in ChunksOf(s) :
                      remote'[c] = "running" => c \in Owed(s)'
               /\ stream'[s].err # "ErrClosed" =>
                      \A t \in Times(s) : Served(s, t)'
    <2>1. Intact(s)
      BY <1>3, <1>5 DEF Intact
    <2>2. \A c \in ChunksOf(s) : remote'[c] = "running" => c \in Owed(s)'
      BY <1>1, <2>1, RunningOwed DEF StreamExact, Unmoved
    <2>3. ASSUME stream'[s].err # "ErrClosed", NEW t \in Times(s)
          PROVE  Served(s, t)'
      <3>1. stream'[s] = stream[s]
        BY <2>3 DEF Unmoved
      <3>2. Served(s, t)
        BY <2>1, <2>3, <3>1 DEF StreamExact
      <3>3. MadeUpTo(s)' = MadeUpTo(s)
        BY <3>1 DEF MadeUpTo
      <3>4. QED
        BY <3>1, <3>2, <3>3, ServedStage DEF Unmoved
    <2>4. QED
      BY <2>2, <2>3
  <1>6. stream'[s].err \in Failures => ~Intact(s)'
    <2>1. stream'[s].err \in Failures => stream[s].err \in Failures
      BY DEF Unmoved, Failures
    <2>2. QED
      BY <1>3, <2>1 DEF StreamExact, Intact
  <1>7. "EOF" \in {stream'[s].err, reported'[s]} => Missing(s)' = 0
    <2>1. "EOF" \in {stream'[s].err, reported'[s]} =>
              "EOF" \in {stream[s].err, reported[s]}
      BY DEF Unmoved
    <2>2. QED
      BY <1>3, <2>1 DEF StreamExact
  <1>8. s \notin accepted' =>
            stream'[s] = NewStream(s) /\ reported'[s] = "nil" /\ Owed(s)' = {}
    BY <1>1 DEF Unmoved, StreamExact
  <1>9. QED
    BY <1>4, <1>5, <1>6, <1>7, <1>8 DEF StreamExact, Times

LEMMA DeliveredExact ==
    ASSUME IndTypeOK, NEW s \in Stream, StreamExact(s),
           UNCHANGED <<accepted, reported>>,
           NEW x \in Chunk, x.stream = s, Delivered(x)
    PROVE  StreamExact(s)'
  <1>1. /\ Stage(x) = "pending" /\ Stage(x)' = "complete" /\ StartsPending
        /\ \A c \in Chunk \ {x} : Stage(c)' = Stage(c)
        /\ x \in ChunksOf(s)
    BY ChunksOfStream DEF Delivered, Turns
  <1>2. Owed(s)' = Owed(s)
    BY <1>1, OwedStage, ChunksOfStream DEF Owed
  <1>3. /\ stream'[s].next = stream[s].next /\ stream'[s].err = stream[s].err
        /\ stream'[s].n = stream[s].n /\ stream'[s].m = stream[s].m
        /\ stream'[s].blocks = Append(stream[s].blocks, x)
        /\ stream[s].blocks \in Seq(Chunk)
    BY StreamTypes DEF Delivered, StreamFields
  <1>4. Expected(s)' = Expected(s) /\ Missing(s)' = Missing(s)
    BY <1>2, <1>3 DEF Expected, Missing
  <1>5. s \in accepted'
    BY <1>1, OwedStage DEF StreamExact
  <1>6. ASSUME Intact(s)'
        PROVE  /\ \A c \in ChunksOf(s) :
                      remote'[c] = "running" => c \in Owed(s)'
               /\ stream'[s].err # "ErrClosed" =>
                      \A t \in Times(s) : Served(s, t)'
    <2>1. Intact(s)
      BY <1>4, <1>6 DEF Intact
    <2>2. \A c \in ChunksOf(s) : remote'[c] = "running" => c \in Owed(s)'
      BY <1>1, <1>2, <2>1, RunningOwed DEF StreamExact
    <2>3. ASSUME stream'[s].err # "ErrClosed", NEW t \in Times(s)
          PROVE  Served(s, t)'
      <3>1. Served(s, t)
        BY <1>3, <2>1, <2>3 DEF StreamExact
      <3>2. MadeUpTo(s)' = MadeUpTo(s)
        BY <1>3 DEF MadeUpTo
      <3>3. CASE \E i \in DOMAIN stream[s].blocks : Covers(stream[s].blocks[i], t)
        <4>1. \E i \in DOMAIN stream'[s].blocks : Covers(stream'[s].blocks[i], t)
          BY <1>3, <3>3
        <4>2. QED
          BY <4>1, ServedStage
      <3>4. ASSUME NEW c \in ChunksOf(s), Stage(c) = "pending", Covers(c, t)
            PROVE  Served(s, t)'
        <4>1. CASE c = x
          <5>1. Len(stream[s].blocks) + 1 \in DOMAIN stream'[s].blocks
            BY <1>3
          <5>2. stream'[s].blocks[Len(stream[s].blocks) + 1] = x
            BY <1>3
          <5>3. QED
            BY <3>4, <4>1, <5>1, <5>2, ServedStage
        <4>2. CASE c # x
          BY <1>1, <3>4, <4>2, ServedStage, ChunksOfStream
        <4>3. QED
          BY <4>1, <4>2
      <3>5. QED
        BY <3>1, <3>2, <3>3, <3>4, ServedStage
    <2>4. QED
      BY <2>2, <2>3
  <1>7. QED
    BY <1>3, <1>4, <1>5, <1>6 DEF StreamExact, Intact, Times

LEMMA CountTypes ==
    ASSUME IndTypeOK, RangesFresh, NEW s \in Stream
    PROVE  /\ Missing(s) \in Int /\ Expected(s) \in Int
           /\ Cardinality(Owed(s)) \in Nat
           /\ Cardinality(Owed(s)) <= Expected(s)
  <1>1. /\ stream[s].n \in Nat /\ stream[s].m \in Nat /\ stream[s].next \in Nat
        /\ NumRoots(Query[s]) \in Nat
        /\ stream[s].next <= NumRoots(Query[s])
    BY StreamTypes DEF RangesFresh
  <1>2. Cardinality(Owed(s)) \in Nat
    BY OwedFinite
  <1>3. QED
    BY <1>1, <1>2 DEF Missing, Expected

LEMMA GivenUpCounts ==
    ASSUME IndTypeOK, RangesFresh, NEW s \in Stream,
           NEW x \in Chunk, x.stream = s, GivenUp(x)
    PROVE  /\ Missing(s)' = Missing(s) /\ Expected(s)' = Expected(s) - 1
           /\ Missing(s) \in Int /\ Expected(s) \in Int
           /\ x \in Owed(s)
  <1>1. /\ Stage(x) # "out" /\ Stage(x)' = "out"
        /\ \A c \in Chunk \ {x} : Stage(c)' = Stage(c)
    BY DEF GivenUp, Turns
  <1>2. x \in ChunksOf(s) /\ \A c \in ChunksOf(s) \ {x} : Stage(c)' = Stage(c)
    BY <1>1, ChunksOfStream
  <1>3. /\ Cardinality(Owed(s)') = Cardinality(Owed(s)) - 1
        /\ Cardinality(Owed(s)') \in Nat /\ Cardinality(Owed(s)) \in Nat
    BY <1>1, <1>2, ExpectedOne
  <1>4. /\ stream'[s].next = stream[s].next
        /\ stream'[s].n = stream[s].n /\ stream'[s].m = stream[s].m
    BY GivenUpFields
  <1>5. Missing(s)' = Missing(s) /\ Missing(s) \in Int /\ Expected(s) \in Int
    BY <1>4, CountTypes DEF Missing
  <1>6. Expected(s)' = Expected(s) - 1
    BY <1>3, <1>4, StreamTypes DEF Expected
  <1>7. QED
    BY <1>1, <1>2, <1>5, <1>6, OwedStage

LEMMA GivenUpExact ==
    ASSUME IndTypeOK, RangesFresh, NEW s \in Stream, StreamExact(s),
           UNCHANGED <<accepted, reported>>,
           NEW x \in Chunk, x.stream = s, GivenUp(x)
    PROVE  StreamExact(s)'
  <1>1. /\ Missing(s)' = Missing(s) /\ Expected(s)' = Expected(s) - 1
        /\ Missing(s) \in Int /\ Expected(s) \in Int
        /\ x \in Owed(s)
    BY GivenUpCounts
  <1>2. stream'[s].err \in {stream[s].err} \cup PublicErr
    BY GivenUpFields
  <1>3. Expected(s)' <= Missing(s)' /\ ~Intact(s)'
    BY <1>1 DEF StreamExact, Intact
  <1>4. "EOF" \in {stream'[s].err, reported'[s]} => Missing(s)' = 0
    BY <1>1, <1>2 DEF StreamExact, PublicErr
  <1>5. s \in accepted'
    BY <1>1 DEF StreamExact
  <1>6. QED
    BY <1>3, <1>4, <1>5 DEF StreamExact, Intact, Times

LEMMA EndedCounts ==
    ASSUME IndTypeOK, RangesFresh, NEW s \in Stream,
           NEW x \in Chunk, x.stream = s, Finishes(x)
    PROVE  /\ Missing(s)' = Missing(s) - 1 /\ Expected(s)' = Expected(s) - 1
           /\ Missing(s) \in Int /\ Expected(s) \in Int /\ Expected(s) >= 1
           /\ x \in Owed(s)
  <1>1. /\ Stage(x) # "out" /\ Stage(x)' = "out" /\ x \in ChunksOf(s)
        /\ \A c \in ChunksOf(s) \ {x} : Stage(c)' = Stage(c)
    BY ChunksOfStream DEF Finishes, Turns
  <1>2. /\ Cardinality(Owed(s)') = Cardinality(Owed(s)) - 1
        /\ Cardinality(Owed(s)') \in Nat /\ Cardinality(Owed(s)) \in Nat
        /\ Cardinality(Owed(s)) >= 1
    BY <1>1, ExpectedOne
  <1>3. /\ stream'[s].next = stream[s].next
        /\ stream'[s].n = stream[s].n /\ stream'[s].m = stream[s].m + 1
    BY EndedFields
  <1>4. /\ stream[s].n \in Nat /\ stream[s].m \in Nat /\ stream[s].next \in Nat
        /\ NumRoots(Query[s]) \in Nat
    BY StreamTypes
  <1>5. Missing(s)' = Missing(s) - 1
    BY <1>3, <1>4 DEF Missing
  <1>6. Expected(s)' = Expected(s) - 1
    BY <1>2, <1>3, <1>4 DEF Expected
  <1>7. QED
    BY <1>1, <1>2, <1>5, <1>6, CountTypes, OwedStage

LEMMA EndedExact ==
    ASSUME IndTypeOK, RangesFresh, NEW s \in Stream, StreamExact(s),
           UNCHANGED <<accepted, reported>>,
           NEW x \in Chunk, x.stream = s, Finishes(x)
    PROVE  StreamExact(s)'
  <1>1. /\ Stage(x) = "complete" /\ Stage(x)' = "out" /\ StartsPending
        /\ \A c \in Chunk \ {x} : Stage(c)' = Stage(c)
        /\ remote[x] # "running"
    BY DEF Finishes, Turns
  <1>2. x \in ChunksOf(s) /\ \A c \in ChunksOf(s) \ {x} : Stage(c)' = Stage(c)
    BY <1>1, ChunksOfStream
  <1>4. /\ stream'[s].next = stream[s].next
        /\ stream'[s].blocks = stream[s].blocks
        /\ stream'[s].n = stream[s].n /\ stream'[s].m = stream[s].m + 1
        /\ stream'[s].err = IF stream[s].err = "ErrClosed" THEN "ErrClosed"
                            ELSE IF stream'[s].m = stream'[s].n
                                 THEN "EOF" ELSE "nil"
        /\ stream[s].n \in Nat /\ stream[s].m \in Nat
    BY EndedFields, StreamTypes
  <1>5. /\ Missing(s)' = Missing(s) - 1 /\ Expected(s)' = Expected(s) - 1
        /\ Missing(s) \in Int /\ Expected(s) \in Int /\ Expected(s) >= 1
    BY EndedCounts
  <1>6. /\ Expected(s)' <= Missing(s)' /\ (Intact(s)' <=> Intact(s))
        /\ Missing(s) # 0
    BY <1>5 DEF StreamExact, Intact
  <1>7. ASSUME Intact(s)'
        PROVE  /\ \A c \in ChunksOf(s) :
                      remote'[c] = "running" => c \in Owed(s)'
               /\ stream'[s].err # "ErrClosed" =>
                      \A t \in Times(s) : Served(s, t)'
    <2>1. Intact(s)
      BY <1>6, <1>7
    <2>2. ASSUME NEW c \in ChunksOf(s), remote'[c] = "running"
          PROVE  c \in Owed(s)'
      <3>1. c # x
        BY <1>1, <1>2, <2>2 DEF StartsPending
      <3>2. CASE remote[c] = "running"
        BY <1>2, <2>1, <2>2, <3>1, <3>2, OwedStage DEF StreamExact
      <3>3. QED
        BY <1>1, <2>2, <3>2, RunningOwed
    <2>3. ASSUME stream'[s].err # "ErrClosed", NEW t \in Times(s)
          PROVE  Served(s, t)'
      <3>1. Served(s, t)
        BY <1>4, <2>1, <2>3 DEF StreamExact
      <3>2. MadeUpTo(s)' = MadeUpTo(s)
        BY <1>4 DEF MadeUpTo
      <3>3. \A c \in ChunksOf(s) : Stage(c) = "pending" => Stage(c)' = "pending"
        BY <1>1, <1>2
      <3>4. QED
        BY <1>4, <3>1, <3>2, <3>3, ServedStage
    <2>4. QED
      BY <2>2, <2>3
  <1>8. stream'[s].err \notin Failures
    BY <1>4 DEF Failures
  <1>9. "EOF" \in {stream'[s].err, reported'[s]} => Missing(s)' = 0
    <2>1. reported[s] # "EOF" /\ stream[s].err # "EOF"
      BY <1>6 DEF StreamExact
    <2>2. stream'[s].err = "EOF" => stream[s].m + 1 = stream[s].n
      BY <1>4, <2>1
    <2>3. stream[s].m + 1 = stream[s].n => Missing(s)' = 0
      BY <1>4, <1>5 DEF Missing
    <2>4. QED
      BY <2>1, <2>2, <2>3
  <1>10. s \in accepted'
    BY <1>1, <1>2, OwedStage DEF StreamExact
  <1>11. QED
    BY <1>6, <1>7, <1>8, <1>9, <1>10 DEF StreamExact, Times

LEMMA MadeExact ==
    ASSUME IndTypeOK, RangesFresh, NEW s \in Stream, StreamExact(s),
           UNCHANGED <<accepted, reported>>,
           NEW x \in Chunk, x.stream = s, Made(x)
    PROVE  StreamExact(s)'
  <1>1. PICK u \in pq :
            /\ Alive(u) /\ x = Root(u, stream[u].next)
            /\ Unused(x) /\ Stage(x)' = "pending"
            /\ \A c \in Chunk \ {x} : Stage(c)' = Stage(c)
            /\ UNCHANGED remote
            /\ stream' = [stream EXCEPT ![u].next = @ + 1]
    BY DEF Made
  <1>2. u = s /\ s \in pq /\ s \in accepted
    <2>1. x.stream = u
      BY <1>1 DEF Root
    <2>2. QED
      BY <2>1 DEF IndTypeOK, HeapHasRoots
  <1>3. /\ stream'[s].next = stream[s].next + 1
        /\ MadeUpTo(s) = x.start /\ MadeUpTo(s)' = x.end
    <2>1. MakesRoot(s, x)
      BY <1>1, <1>2 DEF MakesRoot
    <2>2. RootMade(s, x)
      BY <1>2, <2>1, MadeFacts
    <2>3. QED
      BY <2>2, Zenon DEF RootMade
  <1>4. /\ stream'[s].n = stream[s].n /\ stream'[s].m = stream[s].m
        /\ stream'[s].err = stream[s].err
        /\ stream'[s].blocks = stream[s].blocks
    BY <1>1, <1>2, StreamTypes DEF StreamFields
  <1>5. /\ x \in ChunksOf(s) /\ \A c \in ChunksOf(s) \ {x} : Stage(c)' = Stage(c)
        /\ Stage(x) = "out"
    BY <1>1, ChunksOfStream DEF Unused, Stage
  <1>6. /\ Cardinality(Owed(s)') = Cardinality(Owed(s)) + 1
        /\ Cardinality(Owed(s)') \in Nat /\ Cardinality(Owed(s)) \in Nat
    BY <1>1, <1>5, ExpectedOne
  <1>7. Missing(s)' = Missing(s) /\ Expected(s)' = Expected(s)
    <2>1. /\ stream[s].next \in Nat /\ NumRoots(Query[s]) \in Nat
      BY StreamTypes
    <2>2. QED
      BY <1>3, <1>4, <1>6, <2>1 DEF Missing, Expected
  <1>8. ASSUME Intact(s)'
        PROVE  /\ \A c \in ChunksOf(s) :
                      remote'[c] = "running" => c \in Owed(s)'
               /\ stream'[s].err # "ErrClosed" =>
                      \A t \in Times(s) : Served(s, t)'
    <2>1. Intact(s)
      BY <1>7, <1>8 DEF Intact
    <2>2. ASSUME NEW c \in ChunksOf(s), remote'[c] = "running"
          PROVE  c \in Owed(s)'
      <3>1. c \in Owed(s)
        BY <1>1, <2>1, <2>2 DEF StreamExact
      <3>2. QED
        BY <1>5, <3>1, OwedStage
    <2>3. ASSUME stream'[s].err # "ErrClosed", NEW t \in Times(s)
          PROVE  Served(s, t)'
      <3>1. Served(s, t)
        BY <1>4, <2>1, <2>3 DEF StreamExact
      <3>2. \A c \in ChunksOf(s) : Stage(c) = "pending" => Stage(c)' = "pending"
        BY <1>5
      <3>3. CASE MadeUpTo(s) <= t
        <4>1. Covers(x, t) \/ MadeUpTo(s)' <= t
          BY <1>3, <3>3, StreamTypes, ChunkElim DEF Covers
        <4>2. QED
          BY <1>1, <1>5, <4>1, ServedStage
      <3>4. CASE ~(MadeUpTo(s) <= t)
        BY <1>4, <3>1, <3>2, <3>4, ServedStage
      <3>5. QED
        BY <3>3, <3>4
    <2>4. QED
      BY <2>2, <2>3
  <1>9. QED
    BY <1>2, <1>4, <1>7, <1>8 DEF StreamExact, Intact, Times

LEMMA SplitOwed ==
    ASSUME IndTypeOK, NEW s \in Stream, NEW x \in Chunk, x.stream = s, SplitUp(x)
    PROVE  LET kids == Children(x)
           IN  /\ \A k \in DOMAIN kids : kids[k] \in Owed(s)' /\ kids[k] \in ChunksOf(s)
               /\ \A c \in Owed(s) \ {x} : c \in Owed(s)'
               /\ Cardinality(Owed(s)') = Cardinality(Owed(s)) - 1 + Len(kids)
               /\ Cardinality(Owed(s)') \in Nat /\ Cardinality(Owed(s)) \in Nat
               /\ Len(kids) \in Nat
               /\ x \in Owed(s) /\ Cardinality(Owed(s)) >= 1
  <1> DEFINE kids == Children(x)
             K == Elements(Chunk, kids)
             A == Owed(s)
             B == Owed(s)'
  <1>1. /\ Splittable(QueryOf(x), x) /\ Stage(x) = "pending" /\ Stage(x)' = "out"
        /\ \A c \in Chunk : InSeq(c, kids) =>
              /\ Unused(c) /\ PartOf(c, x) /\ Stage(c)' = "pending"
        /\ \A c \in Chunk \ {x} : ~InSeq(c, kids) => Stage(c)' = Stage(c)
    BY DEF SplitUp
  <1>2. kids \in Seq(Chunk) /\ NoRepeat(kids)
    BY <1>1, ChildrenFacts
  <1>3. IsFiniteSet(K) /\ Cardinality(K) = Len(kids)
    BY <1>2, CountElements
  <1>4. /\ IsFiniteSet(A) /\ Cardinality(A) \in Nat /\ Cardinality(B) \in Nat
    BY OwedFinite
  <1>5. \A c \in K : c \in Chunk /\ c \notin A /\ c \in B /\ c # x
    <2> SUFFICES ASSUME NEW c \in K
                 PROVE  c \in Chunk /\ c \notin A /\ c \in B /\ c # x
      OBVIOUS
    <2>1. c \in Chunk /\ InSeq(c, kids)
      BY DEF Elements
    <2>2. /\ ~Held(c) /\ c.stream = s /\ c # x /\ Stage(c)' = "pending"
      BY <1>1, <2>1 DEF Unused, PartOf
    <2>3. c \in ChunksOf(s) /\ Stage(c) = "out"
      BY <2>1, <2>2, ChunksOfStream DEF Stage
    <2>4. QED
      BY <2>1, <2>2, <2>3, OwedStage
  <1>6. x \in A /\ x \notin B
    BY <1>1, OwedStage, ChunksOfStream
  <1>7. \A c \in ChunksOf(s) : c \notin K /\ c # x => (c \in A <=> c \in B)
    BY <1>1, OwedStage, ChunksOfStream DEF Elements
  <1>8. A \in SUBSET ChunksOf(s) /\ B \in SUBSET ChunksOf(s)
    BY DEF Owed
  <1>9. \A k \in DOMAIN kids : kids[k] \in K
    BY <1>2 DEF Elements, InSeq
  <1> HIDE DEF kids, K, A, B
  <1>10. B = (A \ {x}) \cup K /\ (A \ {x}) \cap K = {}
    BY <1>5, <1>6, <1>7, <1>8
  <1>11. /\ IsFiniteSet(A \ {x}) /\ Cardinality(A \ {x}) = Cardinality(A) - 1
    BY <1>4, <1>6, FS_RemoveElement
  <1>12. Cardinality(B) = Cardinality(A \ {x}) + Cardinality(K)
    BY <1>3, <1>10, <1>11, DisjointUnion
  <1>13. Cardinality(A) >= 1
    BY <1>4, <1>6, FS_EmptySet
  <1>14. Len(kids) \in Nat
    BY <1>2
  <1>15. Cardinality(B) = Cardinality(A) - 1 + Len(kids)
    BY <1>3, <1>11, <1>12
  <1>16. \A k \in DOMAIN kids : kids[k] \in B /\ kids[k] \in ChunksOf(s)
    BY <1>5, <1>8, <1>9
  <1>17. \A c \in A \ {x} : c \in B
    BY <1>10
  <1>18. QED
    BY <1>4, <1>6, <1>13, <1>14, <1>15, <1>16, <1>17 DEF kids, A, B

LEMMA SplitCounts ==
    ASSUME IndTypeOK, RangesFresh, NEW s \in Stream,
           NEW x \in Chunk, x.stream = s, SplitUp(x)
    PROVE  LET k == Len(Children(x))
           IN  /\ Missing(s)' = Missing(s) - 1 + k
               /\ Expected(s)' = Expected(s) - 1 + k /\ k \in Nat
               /\ Missing(s) \in Int /\ Expected(s) \in Int /\ Expected(s) >= 1
  <1> DEFINE k == Len(Children(x))
  <1>1. /\ Cardinality(Owed(s)') = Cardinality(Owed(s)) - 1 + k
        /\ Cardinality(Owed(s)') \in Nat /\ Cardinality(Owed(s)) \in Nat
        /\ k \in Nat /\ Cardinality(Owed(s)) >= 1
    BY SplitOwed
  <1>2. /\ stream'[s].next = stream[s].next
        /\ stream'[s].n = stream[s].n + k /\ stream'[s].m = stream[s].m + 1
    BY SplitFields
  <1> HIDE DEF k
  <1>3. /\ stream[s].n \in Nat /\ stream[s].m \in Nat /\ stream[s].next \in Nat
        /\ NumRoots(Query[s]) \in Nat
    BY StreamTypes
  <1>4. Missing(s)' = Missing(s) - 1 + k
    BY <1>1, <1>2, <1>3 DEF Missing
  <1>5. Expected(s)' = Expected(s) - 1 + k
    BY <1>1, <1>2, <1>3 DEF Expected
  <1>6. QED
    BY <1>1, <1>3, <1>4, <1>5, CountTypes DEF k

LEMMA SplitExact ==
    ASSUME IndTypeOK, RangesFresh, NEW s \in Stream, StreamExact(s),
           UNCHANGED <<accepted, reported>>,
           NEW x \in Chunk, x.stream = s, SplitUp(x)
    PROVE  StreamExact(s)'
  <1> DEFINE kids == Children(x)
             k == Len(kids)
  <1>1. /\ Splittable(QueryOf(x), x) /\ remote[x] # "running"
        /\ UNCHANGED remote
        /\ \A c \in Chunk : InSeq(c, kids) => Stage(c)' = "pending"
        /\ \A c \in Chunk \ {x} : ~InSeq(c, kids) => Stage(c)' = Stage(c)
    BY DEF SplitUp
  <1>2. /\ \A j \in DOMAIN kids : kids[j] \in Owed(s)' /\ kids[j] \in ChunksOf(s)
        /\ \A c \in Owed(s) \ {x} : c \in Owed(s)'
        /\ Cardinality(Owed(s)') = Cardinality(Owed(s)) - 1 + k
        /\ Cardinality(Owed(s)') \in Nat /\ Cardinality(Owed(s)) \in Nat
        /\ k \in Nat
        /\ x \in Owed(s) /\ Cardinality(Owed(s)) >= 1
    BY SplitOwed
  <1>3. /\ stream'[s].next = stream[s].next
        /\ stream'[s].blocks = stream[s].blocks
        /\ stream'[s].n = stream[s].n + k /\ stream'[s].m = stream[s].m + 1
        /\ stream'[s].err = IF stream[s].err = "ErrClosed" THEN "ErrClosed"
                            ELSE IF stream'[s].m = stream'[s].n
                                 THEN "EOF" ELSE "nil"
    BY SplitFields
  <1>4. \A t \in Int : Covers(x, t) => \E j \in DOMAIN kids : Covers(kids[j], t)
    BY <1>1, ChildrenFacts
  <1>5. \A j \in DOMAIN kids : Stage(kids[j])' = "pending"
    BY <1>1, <1>2, ChunksOfStream DEF InSeq
  <1> HIDE DEF kids, k
  <1>6. /\ Missing(s)' = Missing(s) - 1 + k /\ Expected(s)' = Expected(s) - 1 + k
        /\ Missing(s) \in Int /\ Expected(s) \in Int /\ Expected(s) >= 1
        /\ stream[s].n \in Nat /\ stream[s].m \in Nat
    BY SplitCounts, StreamTypes DEF k, kids
  <1>7. /\ Expected(s)' <= Missing(s)' /\ (Intact(s)' <=> Intact(s))
        /\ Missing(s) # 0
    BY <1>2, <1>6 DEF StreamExact, Intact
  <1>8. ASSUME Intact(s)'
        PROVE  /\ \A c \in ChunksOf(s) :
                      remote'[c] = "running" => c \in Owed(s)'
               /\ stream'[s].err # "ErrClosed" =>
                      \A t \in Times(s) : Served(s, t)'
    <2>1. Intact(s)
      BY <1>7, <1>8
    <2>2. \A c \in ChunksOf(s) : remote'[c] = "running" => c \in Owed(s)'
      BY <1>1, <1>2, <2>1 DEF StreamExact
    <2>3. ASSUME stream'[s].err # "ErrClosed", NEW t \in Times(s)
          PROVE  Served(s, t)'
      <3>1. Served(s, t) /\ t \in Int
        BY <1>3, <2>1, <2>3, StreamTypes DEF StreamExact
      <3>2. MadeUpTo(s)' = MadeUpTo(s)
        BY <1>3 DEF MadeUpTo
      <3>3. ASSUME NEW c \in ChunksOf(s), Stage(c) = "pending", Covers(c, t)
            PROVE  Served(s, t)'
        <4>1. CASE c = x
          <5>1. PICK j \in DOMAIN kids : Covers(kids[j], t)
            BY <1>4, <3>1, <3>3, <4>1
          <5>2. QED
            BY <1>2, <1>5, <5>1, ServedStage
        <4>2. CASE c # x
          BY <1>1, <3>3, <4>2, ServedStage, ChunksOfStream
        <4>3. QED
          BY <4>1, <4>2
      <3>4. QED
        BY <1>3, <3>1, <3>2, <3>3, ServedStage
    <2>4. QED
      BY <2>2, <2>3
  <1>9. stream'[s].err \notin Failures
    BY <1>3 DEF Failures
  <1>10. "EOF" \in {stream'[s].err, reported'[s]} => Missing(s)' = 0
    <2>1. reported[s] # "EOF" /\ stream[s].err # "EOF"
      BY <1>7 DEF StreamExact
    <2>2. stream'[s].err = "EOF" => stream'[s].m = stream'[s].n
      BY <1>3, <2>1
    <2>3. stream'[s].m = stream'[s].n => Missing(s)' = 0
      BY <1>2, <1>3, <1>6 DEF Missing
    <2>4. QED
      BY <2>1, <2>2, <2>3
  <1>11. s \in accepted'
    BY <1>2 DEF StreamExact
  <1>12. QED
    BY <1>7, <1>8, <1>9, <1>10, <1>11 DEF StreamExact, Times

LEMMA ExactStep ==
    ASSUME PlacesOK, RangesFresh, [Next]_vars, NEW s \in Stream, StreamExact(s)
    PROVE  StreamExact(s)'
  <1>1. IndTypeOK
    BY DEF PlacesOK
  <1>2. CASE Unmoved(s)
    BY <1>2, UnmovedExact
  <1>3. CASE Moved(s)
    <2>1. PICK x \in Chunk :
              /\ x.stream = s
              /\ \/ Delivered(x) \/ GivenUp(x) \/ Finishes(x)
                 \/ SplitUp(x) \/ Made(x)
      BY <1>3 DEF Moved
    <2>2. UNCHANGED <<accepted, reported>>
      BY <1>3 DEF Moved
    <2>3. QED
      BY <1>1, <2>1, <2>2, DeliveredExact, GivenUpExact, EndedExact,
         SplitExact, MadeExact
  <1>4. QED
    BY <1>2, <1>3, StreamEffect

LEMMA InitDelivery == Init => BlocksApart /\ StreamsExact
  <1> SUFFICES ASSUME Init, NEW s \in Stream
               PROVE  BlocksOK(s) /\ StreamExact(s)
    BY DEF BlocksApart, StreamsExact
  <1>1. /\ stream[s] = NewStream(s) /\ reported[s] = "nil" /\ accepted = {}
        /\ \A c \in Chunk : remote[c] = "none"
    BY DEF Init
  <1>2. \A c \in Chunk : ~Held(c)
    BY DEF Init, Held, InSeq
  <1>3. Owed(s) = {}
    BY <1>2, ChunksOfStream DEF Owed
  <1>4. /\ stream[s].blocks = <<>> /\ stream[s].err = "nil"
        /\ stream[s].next = 0 /\ stream[s].m = 0
        /\ stream[s].n = NumRoots(Query[s])
    BY <1>1 DEF NewStream
  <1>5. NumRoots(Query[s]) \in Nat \ {0}
    BY StreamQuery, RootsPartition
  <1>6. Missing(s) = NumRoots(Query[s]) /\ Expected(s) = NumRoots(Query[s])
    BY <1>3, <1>4, <1>5, FS_EmptySet DEF Missing, Expected
  <1>7. \A t \in Times(s) : Served(s, t)
    <2>1. MadeUpTo(s) = Query[s].start
      BY <1>4, <1>5, StreamQuery, RootsPartition DEF MadeUpTo, Root
    <2>2. QED
      BY <2>1, StreamTypes, InitType DEF Served, Times
  <1>8. \A c \in ChunksOf(s) : remote[c] # "running"
    BY <1>1, ChunksOfStream
  <1>9. StreamExact(s)
    BY <1>1, <1>3, <1>4, <1>5, <1>6, <1>7, <1>8
       DEF StreamExact, Failures, Intact
  <1>10. BlocksOK(s)
    BY <1>4 DEF BlocksOK
  <1>11. QED
    BY <1>9, <1>10

\* The whole inductive invariant.
THEOREM Invariant == Spec => []IndInv
  <1>1. Init => IndInv
    BY InitPlaces, InitDelivery DEF IndInv
  <1>2. IndInv /\ [Next]_vars => IndInv'
    <2> SUFFICES ASSUME IndInv, [Next]_vars PROVE IndInv'
      OBVIOUS
    <2>1. PlacesOK /\ RangesFresh /\ PlacesOK' /\ RangesFresh'
      BY PlacesKept, RangesStep DEF IndInv
    <2>2. BlocksApart'
      BY <2>1, BlocksStep DEF IndInv, BlocksApart
    <2>3. StreamsExact'
      BY <2>1, ExactStep DEF IndInv, StreamsExact
    <2>4. QED
      BY <2>1, <2>2, <2>3 DEF IndInv
  <1>3. QED
    BY <1>1, <1>2, PTL DEF Spec

(* What it means for the program. *)

LEMMA AtMostOne ==
    ASSUME NEW S, \A a, b \in S : a = b
    PROVE  /\ IsFiniteSet(S)
           /\ Cardinality(S) = IF S = {} THEN 0 ELSE 1
  <1>1. CASE S = {}
    BY <1>1, FS_EmptySet
  <1>2. CASE S # {}
    <2>1. PICK a : S = {a}
      BY <1>2
    <2>2. QED
      BY <2>1, FS_Singleton
  <1>3. QED
    BY <1>1, <1>2

\* A millisecond is in one of two disjoint ranges only.
LEMMA ApartCovers ==
    ASSUME NEW c \in Chunk, NEW d \in Chunk, NEW t \in Int,
           Apart(c, d), Covers(c, t), Covers(d, t)
    PROVE  FALSE
  BY ChunkElim DEF Apart, Covers

LEMMA UnmadeAhead ==
    ASSUME IndTypeOK, RangesFresh, NEW s \in Stream
    PROVE  /\ \A c \in Unmade(s) : c \in Chunk /\ MadeUpTo(s) <= c.start
           /\ \A c, d \in Unmade(s) : c # d => Apart(c, d)
  <1> DEFINE n == NumRoots(Query[s])
             k == stream[s].next
  <1>1. k \in Nat /\ n \in Nat /\ Query[s] \in ValidQuery
    BY StreamTypes, StreamQuery
  <1>2. Unmade(s) = {Root(s, i) : i \in k .. n - 1}
    BY DEF Unmade
  <1>3. \A i \in k .. n - 1 :
            /\ i \in 0 .. n - 1 /\ i \in Nat /\ i < n
            /\ Root(s, i).start = NextChunkRange(Query[s], i).start
            /\ Root(s, i).end = NextChunkRange(Query[s], i).end
    BY <1>1 DEF Root
  <1>4. \A i \in k .. n - 1 : Root(s, i) \in Chunk
    BY <1>3, RootIsChunk
  <1>5. \A i, j \in k .. n - 1 : i < j => Root(s, i).end <= Root(s, j).start
    <2>1. \A i, j \in 0 .. n - 1 : i < j =>
              NextChunkRange(Query[s], i).end <= NextChunkRange(Query[s], j).start
      BY <1>1, RootsOrdered
    <2>2. QED
      BY <1>3, <2>1
  <1>6. k < n => MadeUpTo(s) = Root(s, k).start
    BY DEF MadeUpTo
  <1> HIDE DEF n, k
  <1>7. ASSUME NEW i \in k .. n - 1
        PROVE  MadeUpTo(s) <= Root(s, i).start
    <2>1. k \in k .. n - 1 /\ k < n /\ i \in Int
      BY <1>1
    <2>2. /\ Root(s, k).start \in Int /\ Root(s, k).end \in Int
          /\ Root(s, k).start < Root(s, k).end /\ Root(s, i).start \in Int
      BY <1>4, <2>1, ChunkElim
    <2>3. CASE i = k
      BY <1>6, <2>1, <2>2, <2>3
    <2>4. CASE i # k
      <3>1. k < i
        BY <1>1, <2>4
      <3>2. QED
        BY <1>5, <1>6, <2>1, <2>2, <3>1
    <2>5. QED
      BY <2>3, <2>4
  <1>8. ASSUME NEW i \in k .. n - 1, NEW j \in k .. n - 1, Root(s, i) # Root(s, j)
        PROVE  Apart(Root(s, i), Root(s, j))
    <2>1. i < j \/ j < i
      BY <1>1, <1>8
    <2>2. QED
      BY <1>5, <2>1 DEF Apart
  <1>9. QED
    BY <1>2, <1>4, <1>7, <1>8

\* Results are never delivered twice: every millisecond of a query is in at
\* most one block, chunk in the queues or generation-0 chunk to come.
THEOREM NeverTwice == Spec => []DeliveredAtMostOnce
  <1>1. IndInv => DeliveredAtMostOnce
    <2> SUFFICES ASSUME IndInv, NEW s \in Stream, NEW t \in Times(s)
                 PROVE  TimesCovered(s, t) <= 1
      BY DEF DeliveredAtMostOnce
    <2> DEFINE blocks == stream[s].blocks
               I == {i \in DOMAIN blocks : Covers(blocks[i], t)}
               P == {c \in ChunksOf(s) : Pending(c) /\ Covers(c, t)}
               U == {c \in Unmade(s) : Covers(c, t)}
    <2>1. IndTypeOK /\ RangesFresh /\ BlocksOK(s)
      BY DEF IndInv, PlacesOK, BlocksApart
    <2>2. t \in Int /\ blocks \in Seq(Chunk) /\ MadeUpTo(s) \in Int
      BY <2>1, StreamTypes
    <2>3. \A i \in DOMAIN blocks : blocks[i] \in Chunk
      BY <2>2
    <2>4. \A c \in P : /\ c \in Chunk /\ c.stream = s /\ Held(c) /\ Pending(c)
                       /\ Covers(c, t) /\ c.end <= MadeUpTo(s)
      BY <2>1, ChunksOfStream DEF Pending, RangesFresh
    <2>5. \A c \in U : c \in Chunk /\ Covers(c, t) /\ MadeUpTo(s) <= c.start
      BY <2>1, UnmadeAhead
    <2>6. \A i, j \in I : i = j
      BY <2>1, <2>2, <2>3, ApartCovers DEF BlocksOK
    <2>7. \A c, d \in P : c = d
      BY <2>1, <2>2, <2>4, ApartCovers DEF RangesFresh
    <2>8. \A c, d \in U : c = d
      BY <2>1, <2>2, <2>5, ApartCovers, UnmadeAhead
    <2>9. I = {} \/ P = {}
      BY <2>1, <2>2, <2>3, <2>4, ApartCovers DEF BlocksOK
    <2>10. I = {} \/ U = {}
      <3> SUFFICES ASSUME NEW i \in I, NEW c \in U PROVE FALSE
        OBVIOUS
      <3>1. /\ blocks[i] \in Chunk /\ blocks[i].end <= MadeUpTo(s)
            /\ Covers(blocks[i], t)
        BY <2>1, <2>3 DEF BlocksOK
      <3>2. QED
        BY <2>2, <2>5, <3>1, ChunkElim DEF Covers
    <2>11. P = {} \/ U = {}
      <3> SUFFICES ASSUME NEW d \in P, NEW c \in U PROVE FALSE
        OBVIOUS
      <3>1. QED
        BY <2>2, <2>4, <2>5, ChunkElim DEF Covers
    <2>12. TimesCovered(s, t) = Cardinality(I) + Cardinality(P) + Cardinality(U)
      BY DEF TimesCovered
    <2> HIDE DEF I, P, U
    <2>13. Cardinality(I) = IF I = {} THEN 0 ELSE 1
      BY <2>6, AtMostOne
    <2>14. Cardinality(P) = IF P = {} THEN 0 ELSE 1
      BY <2>7, AtMostOne
    <2>15. Cardinality(U) = IF U = {} THEN 0 ELSE 1
      BY <2>8, AtMostOne
    <2>16. QED
      BY <2>9, <2>10, <2>11, <2>12, <2>13, <2>14, <2>15
  <1>2. QED
    BY <1>1, Invariant, PTL

\* The counts of a stream leave room for every chunk that may still complete.
THEOREM RoomInCounts == Spec => []CountsLeaveRoom
  <1>1. IndInv => CountsLeaveRoom
    <2> SUFFICES ASSUME IndInv, NEW s \in Stream
                 PROVE  Cardinality({c \in ChunksOf(s) : Pending(c)})
                            + NumRoots(Query[s]) - stream[s].next
                        <= stream[s].n - stream[s].m
      BY DEF CountsLeaveRoom
    <2> DEFINE P == {c \in ChunksOf(s) : Pending(c)}
    <2>1. IndTypeOK /\ StreamExact(s)
      BY DEF IndInv, PlacesOK, StreamsExact
    <2>2. P \in SUBSET Owed(s)
      BY DEF Pending, Owed
    <2>3. IsFiniteSet(Owed(s)) /\ Cardinality(Owed(s)) \in Nat
      BY OwedFinite
    <2> HIDE DEF P
    <2>4. Cardinality(P) <= Cardinality(Owed(s)) /\ Cardinality(P) \in Nat
      BY <2>2, <2>3, FS_Subset, FS_CardinalityType
    <2>5. /\ stream[s].n \in Nat /\ stream[s].m \in Nat /\ stream[s].next \in Nat
          /\ NumRoots(Query[s]) \in Nat
      BY <2>1, StreamTypes
    <2>6. Cardinality(Owed(s)) + NumRoots(Query[s]) - stream[s].next
              <= stream[s].n - stream[s].m
      BY <2>1 DEF StreamExact, Expected, Missing
    <2>7. QED
      BY <2>3, <2>4, <2>5, <2>6 DEF P
  <1>2. QED
    BY <1>1, Invariant, PTL

\* At EOF nothing is expected any more, and nothing was given up.
LEMMA AtEOF ==
    ASSUME IndInv, NEW s \in Stream, Missing(s) = 0
    PROVE  /\ Owed(s) = {} /\ stream[s].next = NumRoots(Query[s]) /\ Intact(s)
           /\ \A c \in ChunksOf(s) : ~Pending(c) /\ remote[c] # "running"
           /\ MadeUpTo(s) = Query[s].end
  <1>1. IndTypeOK /\ RangesFresh /\ StreamExact(s)
    BY DEF IndInv, PlacesOK, StreamsExact
  <1>2. /\ stream[s].next \in Nat /\ NumRoots(Query[s]) \in Nat
        /\ stream[s].next <= NumRoots(Query[s])
        /\ IsFiniteSet(Owed(s)) /\ Cardinality(Owed(s)) \in Nat
    BY <1>1, StreamTypes, OwedFinite DEF RangesFresh
  <1>3. /\ Cardinality(Owed(s)) = 0 /\ stream[s].next = NumRoots(Query[s])
        /\ Expected(s) = 0
    BY <1>1, <1>2 DEF StreamExact, Expected
  <1>4. Owed(s) = {} /\ Intact(s)
    BY <1>2, <1>3, FS_EmptySet DEF Intact
  <1>5. \A c \in ChunksOf(s) : ~Pending(c) /\ remote[c] # "running"
    BY <1>1, <1>4 DEF StreamExact, Pending, Owed
  <1>6. MadeUpTo(s) = Query[s].end
    BY <1>2, <1>3 DEF MadeUpTo
  <1>7. QED
    BY <1>3, <1>4, <1>5, <1>6

\* A stream that reached EOF has delivered each millisecond exactly once.
LEMMA AllDelivered ==
    ASSUME IndInv, NEW s \in Stream, stream[s].err = "EOF", NEW t \in Times(s)
    PROVE  LET blocks == stream[s].blocks
           IN  Cardinality({i \in DOMAIN blocks : Covers(blocks[i], t)}) = 1
  <1> DEFINE blocks == stream[s].blocks
             I == {i \in DOMAIN blocks : Covers(blocks[i], t)}
  <1>1. IndTypeOK /\ BlocksOK(s) /\ StreamExact(s)
    BY DEF IndInv, PlacesOK, BlocksApart, StreamsExact
  <1>2. Missing(s) = 0
    BY <1>1 DEF StreamExact
  <1>3. Owed(s) = {} /\ Intact(s) /\ MadeUpTo(s) = Query[s].end
    BY <1>2, AtEOF
  <1>4. Served(s, t) /\ t \in Int /\ t < Query[s].end /\ blocks \in Seq(Chunk)
    BY <1>1, <1>3, StreamTypes DEF StreamExact, Times
  <1>5. I # {}
    BY <1>1, <1>3, <1>4, StreamTypes DEF Served
  <1>6. \A i, j \in I : i = j
    <2>1. \A i \in DOMAIN blocks : blocks[i] \in Chunk
      BY <1>4
    <2>2. QED
      BY <1>1, <1>4, <2>1, ApartCovers DEF BlocksOK
  <1> HIDE DEF I
  <1>7. Cardinality(I) = 1
    BY <1>5, <1>6, AtMostOne
  <1>8. QED
    BY <1>7 DEF I

\* EOF comes only after all of the query's results, each exactly once.
THEOREM Complete == Spec => []CompleteAtEOF
  <1>1. IndInv => CompleteAtEOF
    BY AllDelivered DEF CompleteAtEOF
  <1>2. QED
    BY <1>1, Invariant, PTL

\* A program that read EOF finds nothing of its query left: the stream is
\* not in the heap, none of its chunks in the queues, and none of its
\* Insights queries running.
THEOREM Released == Spec => []ReleasedAtEOF
  <1>1. IndInv => ReleasedAtEOF
    <2> SUFFICES ASSUME IndInv, NEW s \in Stream, reported[s] = "EOF"
                 PROVE  /\ s \notin pq
                        /\ \A c \in ChunksOf(s) :
                              ~Pending(c) /\ remote[c] # "running"
      BY DEF ReleasedAtEOF
    <2>1. IndTypeOK /\ StreamExact(s)
      BY DEF IndInv, PlacesOK, StreamsExact
    <2>2. Missing(s) = 0
      BY <2>1 DEF StreamExact
    <2>3. s \in pq => stream[s].next < NumRoots(Query[s])
      BY <2>1 DEF IndTypeOK, HeapHasRoots
    <2>4. QED
      BY <2>1, <2>2, <2>3, AtEOF, StreamTypes
  <1>2. QED
    BY <1>1, Invariant, PTL

(***************************************************************************)
(* The contract.                                                           *)
(***************************************************************************)

(* How a query stands, read off its stream's error. *)

StatusFrom(ok, e) ==
    IF ok
    THEN IF e = "nil" THEN "open"
         ELSE IF e = "EOF" THEN "eof"
         ELSE IF e = "ErrClosed" THEN "closed" ELSE "failed"
    ELSE "none"

\* What the invariant says of a stream's error.
ErrFits(s) ==
    /\ stream[s].err \in {"nil", "EOF", "ErrClosed"} \cup Failures
    /\ s \notin accepted => stream[s].err = "nil"

LEMMA ErrorsFit == IndInv => \A s \in Stream : ErrFits(s)
  <1> SUFFICES ASSUME IndInv, NEW s \in Stream PROVE ErrFits(s)
    OBVIOUS
  <1>1. stream[s].err \in Err /\ stream[s].err \notin InternalErr
    BY StreamTypes DEF IndInv, PlacesOK, NoInternalError, StreamFields
  <1>2. s \notin accepted => stream[s].err = "nil"
    <2>1. StreamExact(s)
      BY DEF IndInv, StreamsExact
    <2>2. s \notin accepted => stream[s] = NewStream(s)
      BY <2>1 DEF StreamExact
    <2>3. QED
      BY <2>2 DEF NewStream
  <1>3. QED
    BY <1>1, <1>2 DEF ErrFits, Err, PublicErr, Failures

LEMMA ErrorsFitNext == (IndInv => \A s \in Stream : ErrFits(s))'
  BY ErrorsFit, PTL

LEMMA StatusValue ==
    ASSUME NEW s
    PROVE  /\ ErrFits(s) =>
                StatusOf(s) = StatusFrom(s \in accepted, stream[s].err)
           /\ ErrFits(s)' =>
                StatusOf(s)' = StatusFrom(s \in accepted', stream'[s].err)
  <1>1. ASSUME ErrFits(s)
        PROVE  StatusOf(s) = StatusFrom(s \in accepted, stream[s].err)
    BY <1>1 DEF ErrFits, StatusOf, StatusFrom, Alive, Failures, PublicErr,
                InternalErr
  <1>2. ASSUME ErrFits(s)'
        PROVE  StatusOf(s)' = StatusFrom(s \in accepted', stream'[s].err)
    BY <1>2 DEF ErrFits, StatusOf, StatusFrom, Alive, Failures, PublicErr,
                InternalErr
  <1>3. QED
    BY <1>1, <1>2

LEMMA CopiesKept ==
    ASSUME NEW s, stream'[s].blocks = stream[s].blocks
    PROVE  CopiesOf(s)' = CopiesOf(s)
  BY DEF CopiesOf, Times

(* Steps of the contract. *)

\* Of a step that leaves all results where they are, and of all queries but
\* one how they stand, only that one matters.
LEMMA StatusBecomes ==
    ASSUME NEW s \in Stream, \A t \in Stream : CopiesOf(t)' = CopiesOf(t),
           \A t \in Stream \ {s} : StatusOf(t)' = StatusOf(t),
           NEW from, StatusOf(s) = from, NEW to, StatusOf(s)' = to
    PROVE  Contract!Becomes(s, from, to)
  BY DEF Contract!Becomes

LEMMA NothingSeen ==
    ASSUME \A t \in Stream : CopiesOf(t)' = CopiesOf(t),
           \A t \in Stream : StatusOf(t)' = StatusOf(t)
    PROVE  UNCHANGED Contract!view
  BY DEF Contract!view

\* The manager closes one stream.
LEMMA OneAbandoned ==
    ASSUME NEW s \in Stream, \A t \in Stream : CopiesOf(t)' = CopiesOf(t),
           \A t \in Stream \ {s} : StatusOf(t)' = StatusOf(t),
           StatusOf(s) \in {"open", "failed", "eof"}, StatusOf(s)' = "closed"
    PROVE  Contract!Next
  <1>1. Contract!Abandon({s})
    BY DEF Contract!Abandon
  <1>2. QED
    BY <1>1 DEF Contract!Next

LEMMA StreamKept ==
    ASSUME NEW t, stream'[t] = stream[t], t \in accepted' <=> t \in accepted
    PROVE  StatusOf(t)' = StatusOf(t) /\ CopiesOf(t)' = CopiesOf(t)
  <1>1. CopiesOf(t)' = CopiesOf(t)
    BY CopiesKept
  <1>2. StatusOf(t)' = StatusOf(t)
    BY DEF StatusOf, Alive
  <1>3. QED
    BY <1>1, <1>2

\* A step that changes the error of one stream, and of no other stream
\* anything.
LEMMA ErrorStep ==
    ASSUME NEW s \in Stream, s \in accepted, accepted' = accepted,
           \A t \in Stream \ {s} : stream'[t] = stream[t],
           stream'[s].blocks = stream[s].blocks, ErrFits(s), ErrFits(s)',
           \/ stream'[s].err = stream[s].err
           \/ /\ stream[s].err \notin {"EOF", "ErrClosed"}
              /\ stream'[s].err = "EOF" =>
                    stream[s].err = "nil" /\ CopiesOf(s) = Contract!All(s)
    PROVE  [Contract!Next]_Contract!view
  <1>1. /\ \A t \in Stream : CopiesOf(t)' = CopiesOf(t)
        /\ \A t \in Stream \ {s} : StatusOf(t)' = StatusOf(t)
    BY StreamKept, CopiesKept
  <1>2. /\ StatusOf(s) = StatusFrom(TRUE, stream[s].err)
        /\ StatusOf(s)' = StatusFrom(TRUE, stream'[s].err)
    BY StatusValue
  <1>3. CASE StatusOf(s)' = StatusOf(s)
    BY <1>1, <1>3, NothingSeen
  <1>4. CASE StatusOf(s) = "open" /\ StatusOf(s)' = "failed"
    <2>1. Contract!Fail(s)
      BY <1>1, <1>4, StatusBecomes DEF Contract!Fail
    <2>2. QED
      BY <2>1 DEF Contract!Next
  <1>5. CASE StatusOf(s) = "failed" /\ StatusOf(s)' = "open"
    <2>1. Contract!Recover(s)
      BY <1>1, <1>5, StatusBecomes DEF Contract!Recover
    <2>2. QED
      BY <2>1 DEF Contract!Next
  <1>6. CASE StatusOf(s) \in {"open", "failed"} /\ StatusOf(s)' = "closed"
    BY <1>1, <1>6, OneAbandoned
  <1>7. CASE /\ StatusOf(s) = "open" /\ StatusOf(s)' = "eof"
             /\ CopiesOf(s) = Contract!All(s)
    <2>1. Contract!Finish(s)
      BY <1>1, <1>7, StatusBecomes DEF Contract!Finish
    <2>2. QED
      BY <2>1 DEF Contract!Next
  <1>8. QED
    BY <1>2, <1>3, <1>4, <1>5, <1>6, <1>7 DEF StatusFrom, ErrFits

(* The steps that matter. *)

LEMMA EOFComplete == IndInv => CompleteAtEOF
  BY AllDelivered DEF CompleteAtEOF

LEMMA IntactAtEOF ==
    IndInv => \A s \in Stream : stream[s].err = "EOF" => Intact(s)
  <1> SUFFICES ASSUME IndInv, NEW s \in Stream, stream[s].err = "EOF"
               PROVE  Intact(s)
    OBVIOUS
  <1>1. Missing(s) = 0
    BY DEF IndInv, StreamsExact, StreamExact
  <1>2. QED
    BY <1>1, AtEOF

LEMMA IntactAtEOFNext ==
    (IndInv => \A s \in Stream : stream[s].err = "EOF" => Intact(s))'
  BY IntactAtEOF, PTL

LEMMA EOFCompleteNext == (IndInv => CompleteAtEOF)'
  BY EOFComplete, PTL

\* A stream that comes to EOF already has all its results.
LEMMA AllArrived ==
    ASSUME NEW s \in Stream, IndInv', stream'[s].err = "EOF",
           stream'[s].blocks = stream[s].blocks
    PROVE  CopiesOf(s) = Contract!All(s)
  <1>1. CompleteAtEOF'
    BY EOFCompleteNext
  <1>2. \A t \in Times(s) :
            Cardinality({i \in DOMAIN stream[s].blocks :
                            Covers(stream[s].blocks[i], t)}) = 1
    BY <1>1 DEF CompleteAtEOF, Times
  <1>3. QED
    BY <1>2 DEF CopiesOf, Contract!All

\* Before EOF something was expected.
LEMMA NotOver ==
    ASSUME IndInv, NEW s \in Stream, NEW x \in Owed(s)
    PROVE  s \in accepted /\ stream[s].err # "EOF"
  <1>1. StreamExact(s)
    BY DEF IndInv, StreamsExact
  <1>2. s \in accepted
    BY <1>1 DEF StreamExact
  <1>3. stream[s].err = "EOF" => Missing(s) = 0
    BY <1>1 DEF StreamExact
  <1>4. QED
    BY <1>2, <1>3, AtEOF

LEMMA GivenUpStep ==
    ASSUME IndInv, IndInv', NEW x \in Chunk, GivenUp(x), accepted' = accepted
    PROVE  [Contract!Next]_Contract!view
  <1> DEFINE s == x.stream
  <1>1. s \in Stream /\ IndTypeOK /\ stream \in [Stream -> StreamFields]
    BY ChunkElim DEF IndInv, PlacesOK, IndTypeOK, TypeOK
  <1>2. ErrFits(s) /\ ErrFits(s)'
    <2>1. (\A t \in Stream : ErrFits(t)) /\ (\A t \in Stream : ErrFits(t))'
      BY ErrorsFit, ErrorsFitNext
    <2>2. QED
      BY <1>1, <2>1
  <1>3. \A t \in Stream \ {s} : stream'[t] = stream[t]
    BY <1>1 DEF GivenUp, KillStream
  <1>4. x \in Owed(s)
    BY <1>1, OwedStage, ChunksOfStream DEF GivenUp, Turns
  <1>5. s \in accepted /\ stream[s].err # "EOF"
    BY <1>1, <1>4, NotOver
  <1>6. /\ stream'[s].blocks = stream[s].blocks
        /\ \/ stream'[s].err = stream[s].err
           \/ /\ stream[s].err # "ErrClosed"
              /\ stream'[s].err \in PublicErr
    BY <1>1, GivenUpFields
  <1>7. \/ stream'[s].err = stream[s].err
        \/ /\ stream[s].err \notin {"EOF", "ErrClosed"}
           /\ stream'[s].err # "EOF"
    BY <1>5, <1>6 DEF PublicErr
  <1> HIDE DEF s
  <1>8. QED
    BY <1>1, <1>2, <1>3, <1>5, <1>6, <1>7, ErrorStep

LEMMA CountedStep ==
    ASSUME IndInv, IndInv', NEW x \in Chunk, Finishes(x) \/ SplitUp(x),
           accepted' = accepted
    PROVE  [Contract!Next]_Contract!view
  <1> DEFINE s == x.stream
  <1>1. /\ s \in Stream /\ IndTypeOK /\ RangesFresh
        /\ stream \in [Stream -> StreamFields]
    BY ChunkElim DEF IndInv, PlacesOK, IndTypeOK, TypeOK
  <1>2. ErrFits(s) /\ ErrFits(s)'
    <2>1. (\A t \in Stream : ErrFits(t)) /\ (\A t \in Stream : ErrFits(t))'
      BY ErrorsFit, ErrorsFitNext
    <2>2. QED
      BY <1>1, <2>1
  <1>3. \A t \in Stream \ {s} : stream'[t] = stream[t]
    BY <1>1 DEF Finishes, SplitUp
  <1>4. x \in Owed(s)
    BY <1>1, OwedStage, ChunksOfStream DEF Finishes, SplitUp, Turns
  <1>5. s \in accepted /\ stream[s].err # "EOF"
    BY <1>1, <1>4, NotOver
  <1>6. /\ stream'[s].blocks = stream[s].blocks
        /\ stream[s].err = "ErrClosed" => stream'[s].err = "ErrClosed"
    <2>1. CASE Finishes(x)
      BY <1>1, <2>1, EndedFields
    <2>2. CASE SplitUp(x)
      BY <1>1, <2>2, SplitFields
    <2>3. QED
      BY <2>1, <2>2
  <1>7. Intact(s)' => Intact(s)
    <2>1. CASE Finishes(x)
      BY <1>1, <2>1, EndedCounts DEF Intact
    <2>2. CASE SplitUp(x)
      BY <1>1, <2>2, SplitCounts DEF Intact
    <2>3. QED
      BY <2>1, <2>2
  <1> HIDE DEF s
  <1>8. stream'[s].err = "EOF" => Intact(s)'
    BY <1>1, IntactAtEOFNext
  <1>9. stream[s].err \in Failures => ~Intact(s)
    BY <1>1 DEF IndInv, StreamsExact, StreamExact
  <1>10. stream'[s].err = "EOF" =>
             \/ stream[s].err = "ErrClosed"
             \/ stream[s].err = "nil" /\ CopiesOf(s) = Contract!All(s)
    BY <1>1, <1>2, <1>5, <1>6, <1>7, <1>8, <1>9, AllArrived DEF ErrFits
  <1>11. \/ stream'[s].err = stream[s].err
         \/ /\ stream[s].err \notin {"EOF", "ErrClosed"}
            /\ stream'[s].err = "EOF" =>
                  stream[s].err = "nil" /\ CopiesOf(s) = Contract!All(s)
    BY <1>5, <1>6, <1>10
  <1>12. QED
    BY <1>1, <1>2, <1>3, <1>5, <1>6, <1>11, ErrorStep

LEMMA DeliveredStep ==
    ASSUME IndInv, IndInv', NEW x \in Chunk, Delivered(x), accepted' = accepted
    PROVE  [Contract!Next]_Contract!view
  <1> DEFINE s == x.stream
             old == stream[s].blocks
             new == stream'[s].blocks
             n == Len(old)
             part == {t \in Times(s) : Covers(x, t)}
  <1>1. /\ s \in Stream /\ IndTypeOK /\ BlocksOK(s)
        /\ stream \in [Stream -> StreamFields]
    BY ChunkElim DEF IndInv, PlacesOK, IndTypeOK, TypeOK, BlocksApart
  <1>2. ErrFits(s)
    BY <1>1, ErrorsFit
  <1>3. /\ \A t \in Stream \ {s} : stream'[t] = stream[t]
        /\ stream'[s].err = stream[s].err /\ new = Append(old, x)
        /\ old \in Seq(Chunk)
    BY <1>1, StreamTypes DEF Delivered, StreamFields
  <1>4. x \in Owed(s) /\ Pending(x)
    BY <1>1, OwedStage, PendingStage, ChunksOfStream DEF Delivered, Turns
  <1>5. s \in accepted /\ stream[s].err # "EOF"
    BY <1>1, <1>4, NotOver
  <1>6. \A t \in Stream : StatusOf(t)' = StatusOf(t)
    <2>1. StatusOf(s)' = StatusOf(s)
      BY <1>3 DEF StatusOf, Alive
    <2>2. QED
      BY <1>3, <2>1, StreamKept
  <1>7. \A t \in Stream \ {s} : CopiesOf(t)' = CopiesOf(t)
    BY <1>3, StreamKept
  <1>8. StatusOf(s) \in {"open", "failed", "closed"}
    BY <1>2, <1>5, StatusValue DEF StatusFrom
  <1>9. /\ CopiesOf(s) = [t \in Times(s) |->
              Cardinality({i \in DOMAIN old : Covers(old[i], t)})]
        /\ CopiesOf(s)' = [t \in Times(s) |->
              Cardinality({i \in DOMAIN new : Covers(new[i], t)})]
    BY DEF CopiesOf, Times
  <1>10. /\ DOMAIN old = 1 .. n /\ n \in Nat /\ DOMAIN new = 1 .. n + 1
         /\ new[n + 1] = x /\ \A i \in 1 .. n : new[i] = old[i]
    BY <1>3
  <1>11. \A i \in DOMAIN old : old[i] \in Chunk /\ Apart(old[i], x)
    BY <1>1, <1>3, <1>4 DEF BlocksOK
  <1>12. Times(s) \subseteq Int
    BY <1>1, StreamTypes
  <1> HIDE DEF old, new, n, s
  <1>13. ASSUME NEW t \in Times(s), Covers(x, t)
         PROVE  /\ Cardinality({i \in DOMAIN old : Covers(old[i], t)}) = 0
                /\ Cardinality({i \in DOMAIN new : Covers(new[i], t)}) = 1
    <2>1. \A i \in DOMAIN old : ~Covers(old[i], t)
      BY <1>11, <1>12, <1>13, ApartCovers
    <2>2. {i \in DOMAIN old : Covers(old[i], t)} = {}
      BY <2>1
    <2>3. {i \in DOMAIN new : Covers(new[i], t)} = {n + 1}
      BY <1>10, <1>13, <2>1
    <2>4. QED
      BY <2>2, <2>3, FS_EmptySet, FS_Singleton
  <1>14. ASSUME NEW t \in Times(s), ~Covers(x, t)
         PROVE  {i \in DOMAIN new : Covers(new[i], t)}
                    = {i \in DOMAIN old : Covers(old[i], t)}
    BY <1>10, <1>14
  <1>15. CopiesOf(s)' =
             [t \in Times(s) |-> IF t \in part THEN 1 ELSE CopiesOf(s)[t]]
    BY <1>9, <1>13, <1>14
  <1>16. part \in SUBSET {t \in Times(s) : CopiesOf(s)[t] = 0}
    BY <1>9, <1>13
  <1> HIDE DEF part
  <1>17. Contract!Deliver(s)
    <2> DEFINE copies == [t \in Stream |-> CopiesOf(t)]
               span == [t \in Stream |-> Times(t)]
               added == [t \in span[s] |->
                            IF t \in part THEN 1 ELSE copies[s][t]]
    <2>1. copies[s] = CopiesOf(s) /\ span[s] = Times(s)
      BY <1>1
    <2>2. CopiesOf(s)' = added
      BY <1>15, <2>1
    <2>3. [t \in Stream |-> CopiesOf(t)'] = [copies EXCEPT ![s] = added]
      <3> HIDE DEF added
      <3>1. QED
        BY <1>1, <1>7, <2>2
    <2>4. part \in SUBSET {t \in span[s] : copies[s][t] = 0}
      BY <1>16, <2>1
    <2>5. [t \in Stream |-> StatusOf(t)'] = [t \in Stream |-> StatusOf(t)]
      BY <1>6
    <2>6. [t \in Stream |-> StatusOf(t)][s] \in {"open", "failed", "closed"}
      BY <1>1, <1>8
    <2>7. QED
      BY <2>3, <2>4, <2>5, <2>6 DEF Contract!Deliver
  <1>18. QED
    BY <1>1, <1>17 DEF Contract!Next

LEMMA CloseStreamsStep ==
    ASSUME IndInv, IndInv', CloseStreams
    PROVE  [Contract!Next]_Contract!view
  <1> DEFINE Q == {s \in pq : stream[s].err # "ErrClosed"}
  <1>1. /\ IndTypeOK /\ stream \in [Stream -> StreamFields]
        /\ pq \subseteq accepted /\ pq \subseteq Stream
    BY DEF IndInv, PlacesOK, IndTypeOK, TypeOK, HeapHasRoots
  <1>2. /\ accepted' = accepted
        /\ \A s \in Stream : stream'[s] = IF s \in pq
                                          THEN SetErr(stream[s], "ErrClosed")
                                          ELSE stream[s]
    BY DEF CloseStreams, userVars
  <1>3. \A s \in Stream : stream[s] \in StreamFields
    BY <1>1
  <1>4. \A s \in Stream \ Q : StatusOf(s)' = StatusOf(s)
    <2> SUFFICES ASSUME NEW s \in Stream \ Q PROVE StatusOf(s)' = StatusOf(s)
      OBVIOUS
    <2>1. stream'[s] = stream[s]
      BY <1>2 DEF SetErr
    <2>2. QED
      BY <1>2, <2>1, StreamKept
  <1>5. \A s \in Stream : CopiesOf(s)' = CopiesOf(s)
    BY <1>2, <1>3, SetErrFields, CopiesKept
  <1>6. \A s \in Q : /\ StatusOf(s) \in {"open", "failed", "eof"}
                     /\ StatusOf(s)' = "closed"
    <2> SUFFICES ASSUME NEW s \in Q
                 PROVE  /\ StatusOf(s) \in {"open", "failed", "eof"}
                        /\ StatusOf(s)' = "closed"
      OBVIOUS
    <2>1. s \in Stream /\ s \in accepted
      BY <1>1
    <2>2. ErrFits(s) /\ ErrFits(s)'
      BY <2>1, ErrorsFit, ErrorsFitNext
    <2>3. stream'[s].err = "ErrClosed" /\ stream[s].err # "ErrClosed"
      BY <1>2, <1>3, <2>1, SetErrFields
    <2>4. /\ StatusOf(s) = StatusFrom(TRUE, stream[s].err)
          /\ StatusOf(s)' = StatusFrom(TRUE, stream'[s].err)
      BY <1>2, <2>1, <2>2, StatusValue
    <2>5. QED
      BY <2>3, <2>4 DEF StatusFrom
  <1>7. Q \in SUBSET Stream
    BY <1>1
  <1> HIDE DEF Q
  <1>8. Contract!Abandon(Q)
    BY <1>4, <1>5, <1>6, <1>7 DEF Contract!Abandon
  <1>9. QED
    BY <1>7, <1>8 DEF Contract!Next

LEMMA ProgramContract ==
    ASSUME IndInv, IndInv', ProgramStep \/ UNCHANGED vars
    PROVE  [Contract!Next]_Contract!view
  <1>1. IndTypeOK /\ stream \in [Stream -> StreamFields]
    BY DEF IndInv, PlacesOK, IndTypeOK, TypeOK
  <1>2. CASE Close \/ UNCHANGED vars \/ \E s \in Stream : ReadError(s)
    <2>1. stream' = stream /\ accepted' = accepted
      BY <1>2 DEF Close, vars, ReadError
    <2>2. QED
      BY <2>1, StreamKept, NothingSeen
  <1>3. ASSUME NEW s \in Stream, SubmitQuery(s)
        PROVE  [Contract!Next]_Contract!view
    <2>1. stream' = stream /\ accepted' = accepted \cup {s} /\ s \notin accepted
      BY <1>3 DEF SubmitQuery
    <2>2. /\ \A t \in Stream : CopiesOf(t)' = CopiesOf(t)
          /\ \A t \in Stream \ {s} : StatusOf(t)' = StatusOf(t)
      BY <2>1, StreamKept, CopiesKept
    <2>3. ErrFits(s) /\ ErrFits(s)'
      BY ErrorsFit, ErrorsFitNext
    <2>4. StatusOf(s) = "none" /\ StatusOf(s)' = "open"
      BY <2>1, <2>3, StatusValue DEF StatusFrom, ErrFits
    <2>5. Contract!Submit(s)
      BY <2>2, <2>4, StatusBecomes DEF Contract!Submit
    <2>6. QED
      BY <2>5 DEF Contract!Next
  <1>4. ASSUME NEW s \in Stream, StreamClose(s)
        PROVE  [Contract!Next]_Contract!view
    <2>1. /\ accepted' = accepted /\ s \in accepted
          /\ stream[s].err # "ErrClosed"
          /\ \A t \in Stream \ {s} : stream'[t] = stream[t]
          /\ stream'[s].err = "ErrClosed" /\ stream'[s].blocks = <<>>
      BY <1>1, <1>4 DEF StreamClose, userVars, StreamFields
    <2>2. \A t \in Stream \ {s} :
              StatusOf(t)' = StatusOf(t) /\ CopiesOf(t)' = CopiesOf(t)
      BY <2>1, StreamKept
    <2>3. ErrFits(s) /\ ErrFits(s)'
      BY ErrorsFit, ErrorsFitNext
    <2>4. /\ StatusOf(s) \in {"open", "failed", "eof"}
          /\ StatusOf(s)' = "closed"
      BY <2>1, <2>3, StatusValue DEF StatusFrom
    <2>5. CopiesOf(s)' = [t \in Times(s) |-> 0]
      <3>1. CopiesOf(s)' = [t \in Times(s) |->
                Cardinality({i \in DOMAIN stream'[s].blocks :
                                Covers(stream'[s].blocks[i], t)})]
        BY DEF CopiesOf, Times
      <3>2. \A t : {i \in DOMAIN stream'[s].blocks :
                       Covers(stream'[s].blocks[i], t)} = {}
        BY <2>1
      <3>3. QED
        BY <3>1, <3>2, FS_EmptySet
    <2>6. Contract!Close(s)
      BY <2>2, <2>4, <2>5 DEF Contract!Close, Contract!Nothing
    <2>7. QED
      BY <2>6 DEF Contract!Next
  <1>5. QED
    BY <1>2, <1>3, <1>4 DEF ProgramStep

LEMMA ContractStep ==
    ASSUME IndInv, IndInv', [Next]_vars
    PROVE  [Contract!Next]_Contract!view
  <1>1. PlacesOK /\ RangesFresh /\ IndTypeOK
    BY DEF IndInv, PlacesOK
  <1>2. CASE SystemStep
    <2>1. accepted' = accepted
      BY <1>2, SystemKeepsUser
    <2>2. CASE Quiet
      BY <2>1, <2>2, StreamKept, NothingSeen DEF Quiet
    <2>3. ASSUME NEW x \in Chunk, Made(x)
          PROVE  [Contract!Next]_Contract!view
      <3>1. PICK s \in pq : stream' = [stream EXCEPT ![s].next = @ + 1]
        BY <2>3 DEF Made
      <3>2. /\ s \in Stream /\ s \in accepted
            /\ stream \in [Stream -> StreamFields]
        BY <1>1 DEF IndTypeOK, TypeOK, HeapHasRoots
      <3>3. /\ \A t \in Stream \ {s} : stream'[t] = stream[t]
            /\ stream'[s].err = stream[s].err
            /\ stream'[s].blocks = stream[s].blocks
        BY <3>1, <3>2 DEF StreamFields
      <3>4. ErrFits(s) /\ ErrFits(s)'
        BY <3>2, ErrorsFit, ErrorsFitNext
      <3>5. QED
        BY <2>1, <3>2, <3>3, <3>4, ErrorStep
    <2>4. QED
      BY <1>1, <1>2, <2>1, <2>2, <2>3, SystemEffect, DeliveredStep,
         GivenUpStep, CountedStep, CloseStreamsStep
  <1>3. CASE ProgramStep \/ UNCHANGED vars
    BY <1>3, ProgramContract
  <1>4. QED
    BY <1>2, <1>3 DEF Next

LEMMA ContractInit == Init => Contract!Init
  <1> SUFFICES ASSUME Init, NEW s \in Stream
               PROVE  StatusOf(s) = "none" /\ CopiesOf(s) = [t \in Times(s) |-> 0]
    BY DEF Contract!Init, Contract!Nothing
  <1>1. stream[s].blocks = <<>> /\ stream[s].err = "nil" /\ accepted = {}
    BY DEF Init, NewStream
  <1>2. StatusOf(s) = "none"
    BY <1>1, StatusValue DEF ErrFits, StatusFrom
  <1>3. \A t : {i \in DOMAIN stream[s].blocks : Covers(stream[s].blocks[i], t)} = {}
    BY <1>1
  <1>4. CopiesOf(s) = [t \in Times(s) |-> 0]
    BY <1>3, FS_EmptySet DEF CopiesOf
  <1>5. QED
    BY <1>2, <1>4

\* A QueryManager does for the program nothing but what QueryContract allows.
THEOREM Implementation == Spec => ImplementsContract
  <1>1. IndInv /\ IndInv' /\ [Next]_vars => [Contract!Next]_Contract!view
    BY ContractStep
  <1>2. QED
    BY <1>1, ContractInit, Invariant, PTL
       DEF Spec, ImplementsContract, Contract!Spec
=============================================================================
