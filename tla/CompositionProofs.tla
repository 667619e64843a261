-------------------------- MODULE CompositionProofs --------------------------
(***************************************************************************)
(* Theorems about the modules that add to QueryManager: the calls of the   *)
(* program step by step, the synchronous Query, and the range statistics.  *)
(* Each of them is a QueryManager as well, so what is proved of that holds *)
(* in it.                                                                  *)
(***************************************************************************)
EXTENDS SyncQuery, RangeStats, DeliveryProofs

(* They are QueryManagers. *)

LEMMA CallIsStep ==
    ASSUME NEW p \in Caller, BeginCall(p) \/ CallStep(p)
    PROVE  [Next]_vars
  <1>1. UNCHANGED vars \/ Close
    BY DEF BeginCall, CallStep, QueryLocks, QueryReturns, QueryRefused,
           CloseLocks, CloseReturns, CloseRefused
  <1>2. QED
    BY <1>1 DEF Next, ProgramStep

LEMMA CallsStepIsStep == [CallsNext]_callVars => [Next]_vars
  <1> SUFFICES ASSUME [CallsNext]_callVars PROVE [Next]_vars
    OBVIOUS
  <1>1. CASE UNCHANGED callVars
    BY <1>1 DEF callVars
  <1>2. ASSUME NEW s \in Stream, QuerySends(s) \/ CloseStream(s)
        PROVE  [Next]_vars
    BY <1>2 DEF QuerySends, CloseStream, Next, ProgramStep
  <1>3. CASE SystemStep
    BY <1>3 DEF Next
  <1>4. QED
    BY <1>1, <1>2, <1>3, CallIsStep DEF CallsNext

\* Query and Close called by any number of goroutines, with their lock and
\* the recovered panics, do to the manager what QueryManager lets the program
\* do in single steps (mgr.go:133-145, 210-245).
THEOREM CallsImplement == CallsSpec => Spec
  <1>1. CallsInit => Init
    BY DEF CallsInit
  <1>2. QED
    BY <1>1, CallsStepIsStep, PTL DEF CallsSpec, Spec

LEMMA OneStream ==
    /\ Stream = {s0}
    /\ "main" \in Caller
  <1>1. Cardinality(Stream) = 1 => \E s : Stream = {s}
    BY StreamAssumption, FS_Singleton, Zenon
  <1>2. PICK s : Stream = {s}
    BY <1>1, SyncAssumption
  <1>3. QED
    BY <1>2, SyncAssumption DEF s0, Caller

LEMMA SyncStepIsStep == [SyncNext]_syncVars => [Next]_vars
  <1> SUFFICES ASSUME [SyncNext]_syncVars PROVE [Next]_vars
    OBVIOUS
  <1>1. s0 \in Stream /\ s0 \in Caller /\ "main" \in Caller
    BY OneStream DEF Caller
  <1>2. CASE UNCHANGED callVars
    BY <1>2 DEF callVars
  <1>3. CASE CallsBegin
    BY <1>1, <1>3, CallIsStep DEF CallsBegin
  <1>4. CASE CallsGoOn
    BY <1>1, <1>4, CallIsStep DEF CallsGoOn, QuerySends, Next, ProgramStep
  <1>5. CASE ReadAllReturns
    BY <1>1, <1>5 DEF ReadAllReturns, Next, ProgramStep
  <1>6. CASE SystemStep
    BY <1>6 DEF Next
  <1>7. QED
    BY <1>2, <1>3, <1>4, <1>5, <1>6
       DEF SyncNext, ContextExpires, QueryStep, HelperRefused, MainReceives,
           MainExpires, DrainerReceives, MainReturns, ManagerRuns, syncVars

\* The synchronous Query, with its goroutines and its context, is a program
\* that uses a QueryManager as the other module lets it (query.go).
THEOREM SyncImplements == SyncSpec => Spec
  <1>1. SyncInit => Init
    BY DEF SyncInit, CallsInit
  <1>2. QED
    BY <1>1, SyncStepIsStep, PTL DEF SyncSpec, Spec

LEMMA StatsStepIsStep == [StatsNext]_statsVars => [Next]_vars
  <1> SUFFICES ASSUME [StatsNext]_statsVars PROVE [Next]_vars
    OBVIOUS
  <1>1. CASE UNCHANGED statsVars
    BY <1>1 DEF statsVars
  <1>2. ASSUME NEW s \in Stream, CountSubmit(s)
        PROVE  [Next]_vars
    BY <1>2 DEF CountSubmit, Next, ProgramStep
  <1>3. CASE CountStartFailure \/ CountStarted \/ CountCompletion \/ CountFailure
    <2>1. HandleChunk
      BY <1>3 DEF CountStartFailure, CountStarted, CountCompletion,
                  CountFailure, HandleChunk
    <2>2. QED
      BY <2>1 DEF LoopStep, SystemStep, Next
  <1>4. ASSUME NEW maxed \in BOOLEAN, CountResults(maxed)
        PROVE  [Next]_vars
    <2>1. PollerStep
      BY <1>4 DEF CountResults, PollerStep, PollerAnswer
    <2>2. QED
      BY <2>1 DEF SystemStep, Next
  <1>5. CASE LoopUncounted
    <2>1. LoopStep
      BY <1>5 DEF LoopUncounted, LoopStep, HandleChunk
    <2>2. QED
      BY <2>1 DEF SystemStep, Next
  <1>6. CASE PollerUncounted
    <2>1. PollerStep
      BY <1>6 DEF PollerUncounted, PollerStep, PollerAnswer
    <2>2. QED
      BY <2>1 DEF SystemStep, Next
  <1>7. CASE StarterStep \/ StopperStep \/ ProgramUncounted
    BY <1>7 DEF ProgramUncounted, SystemStep, Next, ProgramStep
  <1>8. QED
    BY <1>1, <1>2, <1>3, <1>4, <1>5, <1>6, <1>7 DEF StatsNext

\* Counting changes nothing that the manager does.
THEOREM StatsImplement == StatsSpec => Spec
  <1>1. StatsInit => Init
    BY DEF StatsInit
  <1>2. QED
    BY <1>1, StatsStepIsStep, PTL DEF StatsSpec, Spec

(* The calls of the program. *)

CallPoint ==
    {"idle", "locking", "sending", "sent", "halfway", "ok", "ErrClosed"}

\* A query is with the manager once its send succeeded; only one Close goes
\* beyond the lock without an error, and nobody is told that the manager is
\* closed before it is.
CallsInv ==
    /\ closing \in BOOLEAN /\ call \in [Caller -> CallPoint]
    /\ \A s \in Stream :
          /\ call[s] # "halfway"
          /\ s \in accepted <=> call[s] \in {"sent", "ok"}
          /\ call[s] = "ErrClosed" => closing
    /\ \A k \in Closer :
          /\ call[k] \in {"halfway", "ok", "ErrClosed"} => closing
          /\ \A j \in Closer :
                {call[j], call[k]} \subseteq {"halfway", "ok"} => j = k

LEMMA CallersApart == \A s \in Stream : s \in Caller /\ s \notin Closer
  BY CloserAssumption DEF Caller

LEMMA InitCalls == CallsInit => CallsInv
  BY DEF CallsInit, Init, CallsInv, CallPoint, Caller

\* What a step of the manager leaves alone.
LEMMA SystemKeepsCalls ==
    ASSUME CallsInv, UNCHANGED <<closing, accepted, call>>
    PROVE  CallsInv'
  BY DEF CallsInv

\* A caller moves on, and nothing else that matters changes.
LEMMA GotoCalls ==
    ASSUME CallsInv, NEW p \in Caller, NEW from, NEW to \in CallPoint,
           Goto(p, from, to), UNCHANGED <<closing, accepted>>,
           p \in Stream => /\ to # "halfway"
                           /\ from \in {"sent", "ok"} <=> to \in {"sent", "ok"}
                           /\ to = "ErrClosed" => closing,
           p \in Closer => \/ to \notin {"halfway", "ok", "ErrClosed"}
                           \/ to = "ErrClosed" /\ closing
                           \/ from = "halfway"
    PROVE  CallsInv'
  <1>1. call[p] = from /\ call' = [call EXCEPT ![p] = to]
    BY DEF Goto
  <1>2. call' \in [Caller -> CallPoint] /\ \A r \in Caller :
            call'[r] = IF r = p THEN to ELSE call[r]
    BY <1>1 DEF CallsInv
  <1>3. \A r \in Stream \cup Closer : r \in Caller
    BY DEF Caller
  <1>4. ASSUME NEW s \in Stream
        PROVE  /\ call'[s] # "halfway"
               /\ s \in accepted <=> call'[s] \in {"sent", "ok"}
               /\ call'[s] = "ErrClosed" => closing
    BY <1>1, <1>2, <1>3 DEF CallsInv
  <1>5. ASSUME NEW k \in Closer
        PROVE  /\ call'[k] \in {"halfway", "ok", "ErrClosed"} => closing
               /\ call'[k] \in {"halfway", "ok"}
                      => call[k] \in {"halfway", "ok"}
    BY <1>1, <1>2, <1>3 DEF CallsInv
  <1>6. QED
    BY <1>2, <1>4, <1>5 DEF CallsInv

LEMMA CallsStep == CallsInv /\ [CallsNext]_callVars => CallsInv'
  <1> SUFFICES ASSUME CallsInv, [CallsNext]_callVars PROVE CallsInv'
    OBVIOUS
  <1>1. CASE UNCHANGED callVars
    BY <1>1, SystemKeepsCalls DEF callVars, calls, vars
  <1>2. ASSUME NEW p \in Caller, BeginCall(p) \/ CallStep(p), ~\E k \in Closer : CloseLocks(k)
        PROVE  CallsInv'
    <2>1. UNCHANGED <<closing, accepted>>
      BY <1>2 DEF BeginCall, CallStep, QueryLocks, QueryReturns,
                  QueryRefused, CloseReturns, CloseRefused, vars
    <2>2. CASE BeginCall(p)
      BY <2>1, <2>2, GotoCalls DEF BeginCall, CallPoint
    <2>3. CASE p \in Stream /\ (QueryLocks(p) \/ QueryReturns(p) \/ QueryRefused(p))
      BY <2>1, <2>3, GotoCalls, CallersApart
         DEF QueryLocks, QueryReturns, QueryRefused, QueryChannelClosed, CallPoint
    <2>4. CASE p \in Closer /\ (CloseReturns(p) \/ CloseRefused(p))
      BY <2>1, <2>4, GotoCalls, CallersApart
         DEF CloseReturns, CloseRefused, CallPoint
    <2>5. QED
      BY <1>2, <2>2, <2>3, <2>4 DEF CallStep
  <1>3. ASSUME NEW k \in Closer, CloseLocks(k)
        PROVE  CallsInv'
    <2>1. /\ call' = [call EXCEPT ![k] = "halfway"]
          /\ ~closing /\ closing' = TRUE /\ accepted' = accepted
      BY <1>3, Zenon DEF CloseLocks, Goto, Close
    <2>2. call' \in [Caller -> CallPoint] /\ \A r \in Caller :
              call'[r] = IF r = k THEN "halfway" ELSE call[r]
      BY <2>1 DEF CallsInv, CallPoint
    <2>3. closing' \in BOOLEAN /\ closing'
      BY <2>1, Zenon
    <2>4. \A j \in Closer : call[j] \notin {"halfway", "ok"}
      BY <2>1 DEF CallsInv
    <2>5. \A s \in Stream : call'[s] = call[s]
      BY <2>2, CallersApart
    <2>6. \A j \in Closer : call'[j] \in {"halfway", "ok"} => j = k
      BY <2>2, <2>4 DEF Caller
    <2>7. QED
      BY <2>1, <2>2, <2>3, <2>5, <2>6 DEF CallsInv
  <1>4. ASSUME NEW s \in Stream, QuerySends(s)
        PROVE  CallsInv'
    <2>1. /\ call[s] = "sending" /\ call' = [call EXCEPT ![s] = "sent"]
          /\ closing' = closing /\ accepted' = accepted \cup {s}
      BY <1>4 DEF QuerySends, Goto, SubmitQuery
    <2>2. call' \in [Caller -> CallPoint] /\ \A r \in Caller :
              call'[r] = IF r = s THEN "sent" ELSE call[r]
      BY <2>1 DEF CallsInv, CallPoint
    <2>3. \A k \in Closer : k \in Caller /\ call'[k] = call[k]
      BY <2>2, CallersApart DEF Caller
    <2>4. QED
      BY <2>1, <2>2, <2>3, CallersApart DEF CallsInv
  <1>5. CASE SystemStep /\ UNCHANGED calls
    <2>1. UNCHANGED <<closing, accepted, call>>
      BY <1>5, SystemKeepsUser DEF calls
    <2>2. QED
      BY <2>1, SystemKeepsCalls
  <1>6. CASE (\E s \in Stream : CloseStream(s)) /\ UNCHANGED calls
    BY <1>6, SystemKeepsCalls DEF CloseStream, StreamClose, calls, userVars
  <1>7. QED
    BY <1>1, <1>2, <1>3, <1>4, <1>5, <1>6 DEF CallsNext, CallStep

\* Whatever the number of goroutines that submit queries and that close the
\* manager: Query and Close tell the truth (errors.go:11-19).
THEOREM CallsTellTruth == CallsSpec => []CallResults
  <1>1. CallsInv => CallResults
    <2> SUFFICES ASSUME CallsInv PROVE CallResults
      OBVIOUS
    <2> DEFINE winners == {k \in Closer : call[k] \in {"halfway", "ok"}}
    <2>1. \A j, k \in winners : j = k
      BY DEF CallsInv
    <2>2. Cardinality(winners) <= 1
      <3>1. IsFiniteSet(winners)
        BY CloserAssumption, FS_Subset
      <3> HIDE DEF winners
      <3>2. CASE winners = {}
        BY <3>2, FS_EmptySet
      <3>3. CASE winners # {}
        <4>1. PICK k : winners = {k}
          BY <2>1, <3>3
        <4>2. Cardinality({k}) = 1
          BY FS_Singleton
        <4>3. QED
          BY <4>1, <4>2
      <3>4. QED
        BY <3>2, <3>3
    <2>3. QED
      BY <2>2 DEF CallsInv, CallResults
  <1>2. QED
    BY <1>1, InitCalls, CallsStep, PTL DEF CallsSpec

(* The synchronous Query. *)

\* The blocks contain every millisecond of the query exactly once.
WholeQuery(blocks) ==
    \A t \in Times(s0) :
        Cardinality({i \in DOMAIN blocks : Covers(blocks[i], t)}) = 1

\* An answer without an error is complete, on its way and when it arrived.
AnswersWhole ==
    /\ answer.err = "nil" => WholeQuery(answer.blocks)
    /\ outcome.err = "nil" => WholeQuery(outcome.blocks)

LEMMA AnswerStep ==
    ASSUME CompleteAtEOF, AnswersWhole, [SyncNext]_syncVars
    PROVE  AnswersWhole'
  <1>1. CASE UNCHANGED <<answer, outcome>>
    BY <1>1 DEF AnswersWhole, WholeQuery, Covers, Times
  <1>2. CASE HelperRefused
    BY <1>2 DEF HelperRefused, AnswersWhole, WholeQuery, Covers, Times
  <1>3. CASE ReadAllReturns
    <2>1. /\ answer' = [blocks |-> stream[s0].blocks,
                        err    |-> IF stream[s0].err = "EOF" THEN "nil"
                                   ELSE stream[s0].err]
          /\ outcome' = outcome
          /\ stream[s0].err # "nil"
      BY <1>3 DEF ReadAllReturns, ReadError, Alive
    <2>2. stream[s0].err = "EOF" => WholeQuery(stream[s0].blocks)
      BY OneStream DEF CompleteAtEOF, WholeQuery
    <2>3. answer'.err = "nil" => stream[s0].err = "EOF"
      BY <2>1
    <2>4. QED
      BY <2>1, <2>2, <2>3 DEF AnswersWhole, WholeQuery, Covers, Times
  <1>4. CASE MainReceives
    BY <1>4 DEF MainReceives, AnswersWhole, WholeQuery, Covers, Times
  <1>5. CASE MainExpires
    BY <1>5 DEF MainExpires, AnswersWhole, WholeQuery, Covers, Times
  <1>6. QED
    BY <1>1, <1>2, <1>3, <1>4, <1>5
       DEF SyncNext, ContextExpires, CallsBegin, CallsGoOn, QueryStep,
           DrainerReceives, MainReturns, ManagerRuns, sync, syncVars

\* However chunks split, fail and restart, and whenever the context expires:
\* a synchronous Query that returns no error returns the whole result, once.
THEOREM SyncIsComplete == SyncSpec => []SyncComplete
  <1>1. SyncInit => AnswersWhole
    BY DEF SyncInit, Nothing, AnswersWhole
  <1>2. AnswersWhole => SyncComplete
    BY DEF AnswersWhole, WholeQuery, SyncComplete
  <1>3. QED
    BY <1>1, <1>2, AnswerStep, SyncImplements, Complete, PTL DEF SyncSpec


(* The range statistics. *)

StatsType ==
    /\ chunkStats \in [Chunk -> [Counter -> Nat]]
    /\ streamStats \in [Stream -> [Counter -> Nat]]
    /\ mgrStats \in [Counter -> Nat]

LEMMA PlusType ==
    ASSUME NEW x \in [Counter -> Nat], NEW y \in [Counter -> Nat]
    PROVE  /\ Plus(x, y) \in [Counter -> Nat]
           /\ \A f \in Counter : Plus(x, y)[f] = x[f] + y[f]
  BY DEF Plus

LEMMA CountType ==
    ASSUME NEW x \in [Counter -> Nat], NEW fs, NEW d \in Nat
    PROVE  /\ Count(x, fs, d) \in [Counter -> Nat]
           /\ \A f \in Counter :
                 Count(x, fs, d)[f] = IF f \in fs THEN x[f] + d ELSE x[f]
  BY DEF Count

LEMMA ChunkDuration == \A c \in Chunk : Duration(c) \in Nat /\ Duration(c) > 0
  BY ChunkElim DEF Duration

\* The chunk the loop received, and what it has counted so far.
LEMMA UpdatedCounts ==
    ASSUME IndTypeOK, StatsType, update # <<>>
    PROVE  /\ Updated \in Chunk /\ Updated.stream \in Stream
           /\ Updated \in ChunksOf(Updated.stream)
           /\ chunkStats[Updated] \in [Counter -> Nat]
           /\ Started(Updated) \in [Counter -> Nat]
           /\ Held(Updated)
  <1>1. update \in Seq(Chunk)
    BY DEF IndTypeOK, TypeOK
  <1>2. Updated \in Chunk /\ 1 \in DOMAIN update /\ update[1] = Updated
    BY <1>1 DEF Updated
  <1>3. Updated.stream \in Stream
    BY <1>2, ChunkElim
  <1>4. chunkStats[Updated] \in [Counter -> Nat]
    BY <1>2 DEF StatsType
  <1>5. Duration(Updated) \in Nat
    BY <1>2, ChunkDuration
  <1>6. Started(Updated) \in [Counter -> Nat]
    BY <1>4, <1>5, CountType DEF Started
  <1>7. Held(Updated)
    BY <1>2 DEF Held, InSeq
  <1>8. QED
    BY <1>2, <1>3, <1>4, <1>6, <1>7, ChunksOfStream

\* What passing on the statistics of a chunk does to those of its stream.
LEMMA KilledStats ==
    ASSUME StatsType, NEW c \in Chunk, c.stream \in Stream,
           NEW st \in [Counter -> Nat], Killed(c, st)
    PROVE  /\ StatsType'
           /\ \A s \in Stream \ {c.stream} : streamStats'[s] = streamStats[s]
           /\ stream[c.stream].err # "ErrClosed" =>
                 streamStats'[c.stream] = Plus(streamStats[c.stream], st)
  <1>1. Plus(mgrStats, st) \in [Counter -> Nat]
    BY PlusType DEF StatsType
  <1>2. Plus(streamStats[c.stream], st) \in [Counter -> Nat]
    BY PlusType DEF StatsType
  <1>3. chunkStats' \in [Chunk -> [Counter -> Nat]]
    BY DEF StatsType, Killed
  <1>4. mgrStats' \in [Counter -> Nat]
    BY <1>1 DEF Killed
  <1>5. CASE stream[c.stream].err = "ErrClosed"
    <2>1. streamStats' = streamStats
      BY <1>5 DEF Killed
    <2>2. QED
      BY <1>3, <1>4, <1>5, <2>1 DEF StatsType
  <1>6. CASE stream[c.stream].err # "ErrClosed"
    <2>1. streamStats' = [streamStats EXCEPT
                             ![c.stream] = Plus(streamStats[c.stream], st)]
      BY <1>6 DEF Killed
    <2>2. QED
      BY <1>2, <1>3, <1>4, <2>1 DEF StatsType
  <1>7. QED
    BY <1>5, <1>6


FailedErr == PublicErr \ {"nil", "ErrClosed"}

\* The statistics of a stream move only while it still expects a chunk, and
\* it does not fail without counting that.
Accounted(s) ==
    /\ streamStats'[s] = streamStats[s] \/ Owed(s) # {}
    /\ \/ stream'[s].err \notin FailedErr
       \/ streamStats'[s].failed > 0
       \/ streamStats'[s] = streamStats[s] /\ stream'[s].err = stream[s].err

LEMMA KilledAccounted ==
    ASSUME IndTypeOK, StatsType, update # <<>>,
           chunk[Updated].state # "stopping",
           NEW st \in [Counter -> Nat], Killed(Updated, st),
           NEW e, NEW st2,
           stream' = [stream EXCEPT ![Updated.stream] = st2],
           stream[Updated.stream].err = "ErrClosed" => st2.err = "ErrClosed",
           stream[Updated.stream].err # "ErrClosed" => st2.err = e,
           e \in FailedErr => st["failed"] > 0
    PROVE  StatsType' /\ \A s \in Stream : Accounted(s)
  <1> PICK x : x = Updated
    OBVIOUS
  <1>1. /\ x \in Chunk /\ x.stream \in Stream /\ x \in ChunksOf(x.stream)
        /\ Held(x) /\ chunk[x].state # "stopping"
    BY UpdatedCounts
  <1>2. /\ StatsType'
        /\ \A s \in Stream \ {x.stream} : streamStats'[s] = streamStats[s]
        /\ stream[x.stream].err # "ErrClosed" =>
              streamStats'[x.stream] = Plus(streamStats[x.stream], st)
    BY <1>1, KilledStats
  <1>3. x \in Owed(x.stream)
    BY <1>1 DEF Owed
  <1>4. /\ \A s \in Stream \ {x.stream} : stream'[s] = stream[s]
        /\ stream'[x.stream] = st2
    BY <1>1 DEF IndTypeOK, TypeOK
  <1>5. ASSUME NEW s \in Stream, s # x.stream
        PROVE  Accounted(s)
    BY <1>2, <1>4, <1>5 DEF Accounted
  <1>6. Accounted(x.stream)
    <2>1. CASE stream[x.stream].err = "ErrClosed"
      BY <1>3, <1>4, <2>1 DEF Accounted, FailedErr
    <2>2. CASE stream[x.stream].err # "ErrClosed" /\ e \notin FailedErr
      BY <1>3, <1>4, <2>2 DEF Accounted
    <2>3. CASE stream[x.stream].err # "ErrClosed" /\ e \in FailedErr
      <3>1. streamStats[x.stream] \in [Counter -> Nat] /\ "failed" \in Counter
        BY <1>1 DEF StatsType, Counter
      <3>2. /\ Plus(streamStats[x.stream], st)["failed"]
                   = streamStats[x.stream]["failed"] + st["failed"]
            /\ streamStats[x.stream]["failed"] \in Nat /\ st["failed"] \in Nat
        BY <3>1, PlusType
      <3>3. Plus(streamStats[x.stream], st)["failed"] > 0
        BY <2>3, <3>2
      <3>4. streamStats'[x.stream].failed > 0
        BY <1>2, <2>3, <3>3
      <3>5. QED
        BY <1>3, <3>4 DEF Accounted
    <2>4. QED
      BY <2>1, <2>2, <2>3
  <1>7. QED
    BY <1>2, <1>5, <1>6


LEMMA UpdatedStream ==
    ASSUME IndTypeOK, update # <<>>
    PROVE  stream[Updated.stream] \in StreamFields
  <1>1. update \in Seq(Chunk)
    BY DEF IndTypeOK, TypeOK
  <1>2. Updated \in Chunk
    BY <1>1 DEF Updated
  <1>3. QED
    BY <1>2, ChunkElim DEF IndTypeOK, TypeOK

LEMMA StartFailureAccounted ==
    ASSUME IndTypeOK, StatsType, CountStartFailure
    PROVE  StatsType' /\ \A s \in Stream : Accounted(s)
  <1> DEFINE e == chunk[Updated].err
             st == Started(Updated)
             old == stream[Updated.stream]
  <1>1. /\ update # <<>> /\ chunk[Updated].state # "stopping"
        /\ Killed(Updated, st)
        /\ stream' = [stream EXCEPT ![Updated.stream] = SetErr(old, e)]
    BY DEF CountStartFailure, HandleStartFailure, Receive, KillStream
  <1>2. /\ Updated \in Chunk /\ chunkStats[Updated] \in [Counter -> Nat]
        /\ st \in [Counter -> Nat]
    BY <1>1, UpdatedCounts
  <1>3. e \in FailedErr => st["failed"] > 0
    <2>1. "failed" \in Counter /\ chunkStats[Updated]["failed"] \in Nat
      BY <1>2 DEF Counter
    <2>2. Duration(Updated) \in Nat /\ Duration(Updated) > 0
      BY <1>2, ChunkDuration
    <2>3. e # "nil" => st["failed"]
                           = chunkStats[Updated]["failed"] + Duration(Updated)
      BY <1>2, <2>1, <2>2, CountType DEF Started
    <2>4. QED
      BY <2>1, <2>2, <2>3 DEF FailedErr
  <1>4. /\ old.err = "ErrClosed" => SetErr(old, e).err = "ErrClosed"
        /\ old.err # "ErrClosed" => SetErr(old, e).err = e
    BY <1>1, UpdatedStream, SetErrFields
  <1>5. QED
    BY <1>1, <1>2, <1>3, <1>4, KilledAccounted

LEMMA CompletionAccounted ==
    ASSUME IndTypeOK, StatsType, CountCompletion
    PROVE  StatsType' /\ \A s \in Stream : Accounted(s)
  <1> DEFINE st == chunkStats[Updated]
             old == stream[Updated.stream]
  <1>1. PICK k \in Nat :
            /\ update # <<>> /\ chunk[Updated].state # "stopping"
            /\ Killed(Updated, st)
            /\ stream' = [stream EXCEPT ![Updated.stream] = Completed(old, k)]
    <2>1. CASE HandleChunkCompletion
      BY <2>1 DEF CountCompletion, HandleChunkCompletion, Receive
    <2>2. CASE HandleSplit
      <3>1. update \in Seq(Chunk) /\ update # <<>>
        BY <2>2 DEF IndTypeOK, TypeOK, HandleSplit, Receive
      <3>2. Children(Updated) \in Seq(Chunk)
        <4>1. Updated \in Chunk
          BY <3>1 DEF Updated
        <4>2. Splittable(QueryOf(Updated), Updated)
          BY <2>2, <4>1 DEF HandleSplit, IndTypeOK, SplitsAreLong
        <4>3. QED
          BY <4>1, <4>2, ChildrenAreChunks
      <3>3. Len(Children(Updated)) \in Nat
        BY <3>2
      <3>4. QED
        BY <2>2, <3>3 DEF CountCompletion, HandleSplit, Receive
    <2>3. QED
      BY <2>1, <2>2 DEF CountCompletion
  <1>2. st \in [Counter -> Nat]
    BY <1>1, UpdatedCounts
  <1>3. PICK e \in {"EOF", "nil"} :
            /\ old.err = "ErrClosed" => Completed(old, k).err = "ErrClosed"
            /\ old.err # "ErrClosed" => Completed(old, k).err = e
    BY <1>1, UpdatedStream, CompletedFields
  <1>4. e \notin FailedErr
    BY <1>3 DEF FailedErr, PublicErr
  <1>5. QED
    BY <1>1, <1>2, <1>3, <1>4, KilledAccounted

LEMMA FailureAccounted ==
    ASSUME IndTypeOK, StatsType, CountFailure
    PROVE  StatsType' /\ \A s \in Stream : Accounted(s)
  <1> DEFINE st == Count(chunkStats[Updated], {"failed"}, Duration(Updated))
             old == stream[Updated.stream]
  <1>1. PICK e :
            /\ update # <<>> /\ chunk[Updated].state # "stopping"
            /\ Killed(Updated, st)
            /\ stream' = [stream EXCEPT ![Updated.stream] = SetErr(old, e)]
    BY DEF CountFailure, HandleUnexpected, HandleTerminal, Receive, KillStream
  <1>2. /\ Updated \in Chunk /\ chunkStats[Updated] \in [Counter -> Nat]
    BY <1>1, UpdatedCounts
  <1>3. Duration(Updated) \in Nat /\ Duration(Updated) > 0
    BY <1>2, ChunkDuration
  <1>4. "failed" \in Counter /\ chunkStats[Updated]["failed"] \in Nat
    BY <1>2 DEF Counter
  <1>5. /\ st \in [Counter -> Nat]
        /\ st["failed"] = chunkStats[Updated]["failed"] + Duration(Updated)
    BY <1>2, <1>3, <1>4, CountType
  <1>6. st["failed"] > 0
    BY <1>3, <1>4, <1>5
  <1>7. /\ old.err = "ErrClosed" => SetErr(old, e).err = "ErrClosed"
        /\ old.err # "ErrClosed" => SetErr(old, e).err = e
    BY <1>1, UpdatedStream, SetErrFields
  <1>8. QED
    BY <1>1, <1>5, <1>6, <1>7, KilledAccounted


\* A step that counts nothing can only close a stream.
LEMMA UncountedStep ==
    ASSUME IndTypeOK, NEW s \in Stream,
           \/ LoopUncounted \/ StarterStep \/ PollerUncounted \/ StopperStep
           \/ ProgramUncounted
    PROVE  /\ stream'[s].err \in {stream[s].err, "ErrClosed"}
           /\ stream'[s].m = stream[s].m
  <1>1. stream \in [Stream -> StreamFields] /\ update \in Seq(Chunk)
    BY DEF IndTypeOK, TypeOK
  <1>2. CASE UNCHANGED stream
    BY <1>2
  <1>3. CASE FillNext
    BY <1>1, <1>3 DEF FillNext, StreamFields
  <1>4. CASE DrainLive \/ DrainDead
    <2>1. stream' = [stream EXCEPT ![Updated.stream] = SetErr(@, "ErrClosed")]
      BY <1>4 DEF DrainLive, DrainDead, KillStream
    <2>2. QED
      BY <1>1, <2>1 DEF SetErr, StreamFields
  <1>5. CASE CloseStreams
    BY <1>1, <1>5 DEF CloseStreams, SetErr, StreamFields
  <1>6. CASE LoopUncounted
    <2>1. \/ UNCHANGED stream
          \/ FillNext \/ DrainLive \/ DrainDead \/ CloseStreams
      BY <1>6 DEF LoopUncounted, HandleReduceParallel, HandleRestart,
                  HandleStop, HandleStopped, FillReady, FillDone, Exit,
                  DrainStopping, DrainStop, Stopped
    <2>2. QED
      BY <1>2, <1>3, <1>4, <1>5, <2>1
  <1>7. ASSUME NEW w \in Worker, CommonStep(w)
        PROVE  UNCHANGED stream
    BY <1>7 DEF CommonStep, Pop, WaitClosing, Begin, ReleaseInProgress,
                ReleaseStray, ReleaseChunk, WorkerDone
  <1>8. CASE StarterStep \/ PollerUncounted \/ StopperStep
    <2>1. CASE CommonStep("starter") \/ CommonStep("poller") \/ CommonStep("stopper")
      BY <1>2, <1>7, <2>1 DEF Worker
    <2>2. CASE StarterAnswer \/ StopperAnswer
      BY <1>2, <2>2
         DEF StarterAnswer, StarterRetry, StarterLimited, StarterFails,
             StarterStarts, StopperAnswer, StopperRetry, StopperPanics,
             StopperFinishes
    <2>3. CASE \/ PollerRetry \/ PollerInconclusive \/ PollerUnexpected(FALSE)
               \/ PollerMaxed \/ PollerRestarts \/ PollerTerminal
      BY <1>2, <2>3
         DEF PollerRetry, PollerInconclusive, PollerUnexpected, PollerMaxed,
             PollerRestarts, PollerTerminal
    <2>4. QED
      BY <1>8, <2>1, <2>2, <2>3 DEF StarterStep, PollerUncounted, StopperStep
  <1>9. CASE ProgramUncounted
    <2>1. CASE Close \/ \E r \in Stream : ReadError(r)
      BY <1>2, <2>1 DEF Close, ReadError
    <2>2. CASE \E r \in Stream : StreamClose(r)
      BY <1>1, <2>2 DEF StreamClose, StreamFields
    <2>3. QED
      BY <1>9, <2>1, <2>2 DEF ProgramUncounted
  <1>10. QED
    BY <1>6, <1>8, <1>9

LEMMA StatsStep ==
    ASSUME IndTypeOK, StatsType, [StatsNext]_statsVars
    PROVE  StatsType' /\ \A s \in Stream : Accounted(s)
  <1>1. CASE UNCHANGED statsVars
    BY <1>1 DEF statsVars, stats, vars, StatsType, Accounted
  <1>2. ASSUME NEW s \in Stream, CountSubmit(s)
        PROVE  StatsType' /\ \A r \in Stream : Accounted(r)
    <2>1. UNCHANGED <<stream, chunkStats, streamStats>>
      BY <1>2 DEF CountSubmit, SubmitQuery
    <2>2. streamStats[s].requested \in Nat
      BY DEF StatsType, Counter
    <2>3. mgrStats' \in [Counter -> Nat]
      BY <1>2, <2>2, CountType DEF CountSubmit, StatsType
    <2>4. StatsType'
      BY <2>1, <2>3 DEF StatsType
    <2>5. QED
      BY <2>1, <2>4 DEF Accounted
  <1>3. CASE CountStarted
    <2>1. /\ UNCHANGED <<stream, streamStats, mgrStats>> /\ update # <<>>
          /\ chunkStats' = [chunkStats EXCEPT ![Updated] = Started(Updated)]
      BY <1>3 DEF CountStarted, HandleChunkStarted, Receive
    <2>2. Started(Updated) \in [Counter -> Nat]
      BY <2>1, UpdatedCounts
    <2>3. StatsType'
      BY <2>1, <2>2 DEF StatsType
    <2>4. QED
      BY <2>1, <2>3 DEF Accounted
  <1>4. ASSUME NEW maxed \in BOOLEAN, CountResults(maxed)
        PROVE  StatsType' /\ \A r \in Stream : Accounted(r)
    <2> DEFINE c == Current("poller")
               fs == IF maxed THEN {"done", "maxed"} ELSE {"done"}
    <2>1. /\ UNCHANGED <<streamStats, mgrStats>>
          /\ chunkStats' = [chunkStats EXCEPT
                               ![c] = Count(chunkStats[c], fs, Duration(c))]
          /\ PollerCompletes \/ PollerUnexpected(TRUE)
      BY <1>4 DEF CountResults
    <2>2. c \in Chunk
      <3>1. ring["poller"] \in Seq(Chunk) /\ ring["poller"] # <<>>
        BY <2>1 DEF PollerCompletes, PollerUnexpected, Answered, IndTypeOK,
                    TypeOK, WorkersHaveChunk, Worker
      <3>2. QED
        BY <3>1 DEF Current
    <2>3. Count(chunkStats[c], fs, Duration(c)) \in [Counter -> Nat]
      BY <2>2, ChunkDuration, CountType DEF StatsType
    <2>4. StatsType'
      BY <2>1, <2>3 DEF StatsType
    <2>5. \A r \in Stream : stream'[r].err = stream[r].err
      <3>1. stream \in [Stream -> StreamFields]
        BY DEF IndTypeOK, TypeOK
      <3>2. CASE UNCHANGED stream
        BY <3>2
      <3>3. CASE PollerCompletes
        <4>1. stream' = [stream EXCEPT ![c.stream].blocks = Append(@, c)]
          BY <3>3 DEF PollerCompletes
        <4> HIDE DEF c
        <4>2. QED
          BY <3>1, <4>1 DEF StreamFields
      <3>4. QED
        BY <2>1, <3>2, <3>3 DEF PollerUnexpected
    <2>6. QED
      BY <2>1, <2>4, <2>5 DEF Accounted
  <1>5. ASSUME \/ LoopUncounted \/ StarterStep \/ PollerUncounted
               \/ StopperStep \/ ProgramUncounted,
               UNCHANGED stats
        PROVE  StatsType' /\ \A r \in Stream : Accounted(r)
    <2>1. \A r \in Stream : stream'[r].err \in {stream[r].err, "ErrClosed"}
      BY <1>5, UncountedStep
    <2>2. QED
      BY <1>5, <2>1 DEF stats, StatsType, Accounted, FailedErr
  <1>6. QED
    BY <1>1, <1>2, <1>3, <1>4, <1>5, StartFailureAccounted,
       CompletionAccounted, FailureAccounted DEF StatsNext

LEMMA InitStats == StatsInit => StatsType /\ FailureCounted
  <1> SUFFICES ASSUME StatsInit PROVE StatsType /\ FailureCounted
    OBVIOUS
  <1>1. NoStats \in [Counter -> Nat]
    BY DEF NoStats
  <1>2. \A s \in Stream : Duration(Query[s]) \in Nat
    BY StreamQuery, QueryDurations
  <1>3. \A s \in Stream :
            Count(NoStats, {"requested"}, Duration(Query[s])) \in [Counter -> Nat]
    BY <1>1, <1>2, CountType
  <1>4. StatsType
    BY <1>1, <1>3 DEF StatsInit, StatsType
  <1>5. FailureCounted
    BY DEF StatsInit, Init, NewStream, FailureCounted
  <1>6. QED
    BY <1>4, <1>5

\* No failure goes unrecorded: whoever sees a stream's error sees that some
\* of its range has failed.
THEOREM FailureIsCounted == StatsSpec => []FailureCounted
  <1>1. IndInv => IndTypeOK
    BY DEF IndInv, PlacesOK
  <1>2. IndTypeOK /\ StatsType /\ FailureCounted /\ [StatsNext]_statsVars
            => StatsType' /\ FailureCounted'
    <2> SUFFICES ASSUME IndTypeOK, StatsType, FailureCounted,
                        [StatsNext]_statsVars
                 PROVE  StatsType' /\ FailureCounted'
      OBVIOUS
    <2>1. StatsType' /\ \A s \in Stream : Accounted(s)
      BY StatsStep
    <2>2. QED
      BY <2>1 DEF Accounted, FailureCounted, FailedErr
  <1>3. QED
    BY <1>1, <1>2, InitStats, StatsImplement, Invariant, PTL DEF StatsSpec

\* "Stats ... will stop changing after the Read method returns io.EOF"
\* (incite.go:347-350): by then the stream expects no chunk any more.
THEOREM StatsAreFinal == StatsSpec => StatsFinalAtEOF
  <1>1. IndInv => IndTypeOK
    BY DEF IndInv, PlacesOK
  <1>2. IndTypeOK /\ StatsType /\ [StatsNext]_statsVars => StatsType'
    BY StatsStep
  <1>3. IndInv /\ StatsType /\ [StatsNext]_statsVars
            => [\A s \in Stream : reported[s] = "EOF" =>
                   streamStats'[s] = streamStats[s]]_statsVars
    <2> SUFFICES ASSUME IndInv, StatsType, [StatsNext]_statsVars,
                        NEW s \in Stream, reported[s] = "EOF"
                 PROVE  streamStats'[s] = streamStats[s]
      OBVIOUS
    <2>1. Accounted(s)
      BY <1>1, StatsStep
    <2>2. Missing(s) = 0
      BY DEF IndInv, StreamsExact, StreamExact
    <2>3. Owed(s) = {}
      BY <2>2, AtEOF
    <2>4. QED
      BY <2>1, <2>3 DEF Accounted
  <1>4. QED
    BY <1>1, <1>2, <1>3, InitStats, StatsImplement, Invariant, PTL
       DEF StatsSpec, StatsFinalAtEOF

(***************************************************************************)
(* Sums of functions over finite sets: the recursive function behind       *)
(* SumFunction exists, and its sum does not depend on the order in which   *)
(* it takes the elements.                                                  *)
(***************************************************************************)

\* One element of a set, as MapThenFoldSet chooses it.
Pick(s) == CHOOSE x \in s : TRUE

\* g adds up the values of f over the subsets of D.
Adds(g, f, D) ==
    g = [s \in SUBSET D |-> IF s = {} THEN 0 ELSE f[Pick(s)] + g[s \ {Pick(s)}]]

\* Subsets without one element are smaller.
LEMMA PickSmaller ==
    ASSUME NEW D, IsFiniteSet(D), NEW s \in SUBSET D
    PROVE  /\ IsFiniteSet(s) /\ Cardinality(s) \in Nat
           /\ s = {} <=> Cardinality(s) = 0
           /\ s # {} => Pick(s) \in s
           /\ \A x \in s : /\ s \ {x} \in SUBSET D
                           /\ Cardinality(s \ {x}) = Cardinality(s) - 1
  <1>1. IsFiniteSet(s)
    BY FS_Subset
  <1>2. Cardinality(s) \in Nat /\ (s = {} <=> Cardinality(s) = 0)
    BY <1>1, FS_CardinalityType, FS_EmptySet
  <1>3. \A x \in s : Cardinality(s \ {x}) = Cardinality(s) - 1
    BY <1>1, FS_RemoveElement
  <1>4. s # {} => Pick(s) \in s
    BY DEF Pick
  <1>5. QED
    BY <1>1, <1>2, <1>3, <1>4

\* Such a sum exists for every finite set.
LEMMA SumExists ==
    ASSUME NEW D, IsFiniteSet(D), NEW f \in [D -> Int]
    PROVE  \E g \in [SUBSET D -> Int] : Adds(g, f, D)
  <1> DEFINE T == [SUBSET D -> Int]
             More(g) == [s \in SUBSET D |->
                            IF s = {} THEN 0 ELSE f[Pick(s)] + g[s \ {Pick(s)}]]
             base == [s \in SUBSET D |-> 0]
             step == [k \in Nat |-> [g \in T |-> More(g)]]
             n == Cardinality(D)
  <1>1. n \in Nat
    BY FS_CardinalityType
  <1>2. \A g \in T : More(g) \in T
    <2> SUFFICES ASSUME NEW g \in T, NEW s \in SUBSET D
                 PROVE  (IF s = {} THEN 0 ELSE f[Pick(s)] + g[s \ {Pick(s)}]) \in Int
      OBVIOUS
    <2>1. s # {} => Pick(s) \in D /\ s \ {Pick(s)} \in SUBSET D
      BY PickSmaller
    <2>2. QED
      BY <2>1
  <1>3. base \in T /\ step \in [Nat -> [T -> T]]
    <2>1. base \in T
      OBVIOUS
    <2> HIDE DEF T, More
    <2>2. [g \in T |-> More(g)] \in [T -> T]
      BY <1>2
    <2>3. QED
      BY <2>1, <2>2
  <1>4. \A g \in T, s \in SUBSET D :
            More(g)[s] = IF s = {} THEN 0 ELSE f[Pick(s)] + g[s \ {Pick(s)}]
    OBVIOUS
  <1>5. \A k \in Nat, g \in T : step[k][g] = More(g)
    OBVIOUS
  <1>6. base[{}] = 0
    OBVIOUS
  <1>7. \A g \in T : g = More(g) => Adds(g, f, D)
    BY DEF Adds
  <1> HIDE DEF T, base, step, More, n
  <1>8. PICK h : Recurs(h, T, base, step, n)
    BY <1>1, <1>3, Recursion
  <1>9. /\ h \in [0 .. n -> T] /\ h[0] = base
        /\ \A k \in 1 .. n : h[k] = step[k][h[k - 1]]
    BY <1>8 DEF Recurs
  <1>10. \A k \in 1 .. n : h[k] = More(h[k - 1]) /\ h[k - 1] \in T /\ h[k] \in T
    BY <1>1, <1>5, <1>9
  <1> DEFINE Good == {k \in 0 .. n : \A s \in SUBSET D :
                         Cardinality(s) <= k => More(h[k])[s] = h[k][s]}
  <1>11. 0 \in Good
    <2> SUFFICES ASSUME NEW s \in SUBSET D, Cardinality(s) <= 0
                 PROVE  More(h[0])[s] = h[0][s]
      BY <1>1
    <2>1. s = {}
      BY PickSmaller
    <2>2. QED
      BY <1>3, <1>4, <1>6, <1>9, <2>1
  <1>12. ASSUME NEW k \in 1 .. n, k - 1 \in Good PROVE k \in Good
    <2> SUFFICES ASSUME NEW s \in SUBSET D, Cardinality(s) <= k
                 PROVE  More(h[k])[s] = h[k][s]
      OBVIOUS
    <2>1. h[k] = More(h[k - 1]) /\ h[k - 1] \in T /\ h[k] \in T
      BY <1>10
    <2>2. CASE s = {}
      BY <1>4, <2>1, <2>2
    <2>3. CASE s # {}
      <3> DEFINE r == s \ {Pick(s)}
      <3>1. r \in SUBSET D /\ Cardinality(r) <= k - 1
        BY <1>1, <2>3, PickSmaller
      <3>2. More(h[k - 1])[r] = h[k - 1][r]
        BY <1>12, <3>1
      <3>3. More(h[k])[s] = f[Pick(s)] + h[k][r]
        BY <1>4, <2>1, <2>3
      <3>4. h[k][s] = f[Pick(s)] + h[k - 1][r]
        BY <1>4, <2>1, <2>3
      <3>5. QED
        BY <2>1, <3>2, <3>3, <3>4
    <2>4. QED
      BY <2>2, <2>3
  <1>13. n \in Good
    <2> HIDE DEF Good
    <2>1. 0 .. n \subseteq Good
      BY <1>1, <1>11, <1>12, BoundedInduction
    <2>2. QED
      BY <1>1, <2>1
  <1>14. h[n] \in T /\ \A s \in SUBSET D : Cardinality(s) <= n
    BY <1>1, <1>9, FS_Subset DEF n
  <1>15. h[n] = More(h[n])
    <2>1. \A s \in SUBSET D : More(h[n])[s] = h[n][s]
      BY <1>13, <1>14
    <2>2. More(h[n]) \in T
      BY <1>2, <1>14
    <2>3. QED
      BY <1>14, <2>1, <2>2 DEF T
  <1>16. QED
    BY <1>7, <1>14, <1>15 DEF T

\* SumFunction is such a sum.
LEMMA SumIsOne ==
    ASSUME NEW D, IsFiniteSet(D), NEW f \in [D -> Int]
    PROVE  \E g : Adds(g, f, D) /\ Sums!SumFunction(f) = g[D]
  <1> DEFINE Step(g) == [s \in SUBSET D |-> IF s = {} THEN 0
                                          ELSE f[Pick(s)] + g[s \ {Pick(s)}]]
             h == CHOOSE g : g = Step(g)
  <1>1. \E g : g = Step(g)
    <2>1. PICK g \in [SUBSET D -> Int] : Adds(g, f, D)
      BY SumExists
    <2>2. g = Step(g)
      BY <2>1 DEF Adds
    <2>3. QED
      BY <2>2
  <1>2. h = Step(h)
    BY <1>1
  <1>3. Sums!SumFunction(f) = h[D]
    BY DEF Sums!SumFunction, Sums!SumFunctionOnSet, Sums!FoldFunctionOnSet,
           Sums!MapThenFoldSet, Pick
  <1>4. Adds(h, f, D)
    BY <1>2 DEF Adds
  <1>5. QED
    BY <1>3, <1>4

\* A sum only depends on the values it adds up.
LEMMA SumsAgree ==
    ASSUME NEW D, IsFiniteSet(D), NEW f \in [D -> Int],
           NEW E \in SUBSET D, NEW e \in [E -> Int], \A x \in E : e[x] = f[x],
           NEW g, Adds(g, f, D), NEW h, Adds(h, e, E)
    PROVE  g[E] = h[E] /\ g[E] \in Int
  <1> DEFINE n == Cardinality(E)
             Same == {k \in 0 .. n : \A s \in SUBSET E :
                         Cardinality(s) <= k => g[s] = h[s] /\ g[s] \in Int}
  <1>1. IsFiniteSet(E) /\ n \in Nat
    BY FS_Subset, FS_CardinalityType
  <1>2. \A s \in SUBSET E :
            /\ s = {} => g[s] = 0 /\ h[s] = 0
            /\ s # {} => /\ g[s] = f[Pick(s)] + g[s \ {Pick(s)}]
                         /\ h[s] = e[Pick(s)] + h[s \ {Pick(s)}]
    BY DEF Adds
  <1> HIDE DEF n
  <1>3. 0 \in Same
    <2>1. \A s \in SUBSET E : Cardinality(s) <= 0 => s = {}
      BY <1>1, PickSmaller
    <2>2. {} \in SUBSET E /\ {} \in SUBSET D
      OBVIOUS
    <2>3. g[{}] = 0 /\ h[{}] = 0
      BY <2>2, Zenon DEF Adds
    <2>4. QED
      BY <1>1, <2>1, <2>3
  <1>4. ASSUME NEW k \in 1 .. n, k - 1 \in Same PROVE k \in Same
    <2> SUFFICES ASSUME NEW s \in SUBSET E, Cardinality(s) <= k
                 PROVE  g[s] = h[s] /\ g[s] \in Int
      BY <1>1
    <2>1. CASE s = {}
      BY <1>2, <2>1
    <2>2. CASE s # {}
      <3> DEFINE x == Pick(s)
                 r == s \ {x}
      <3>1. x \in E /\ r \in SUBSET E /\ Cardinality(r) <= k - 1
        BY <1>1, <2>2, PickSmaller
      <3>2. g[r] = h[r] /\ g[r] \in Int
        BY <1>4, <3>1
      <3>3. g[s] = f[x] + g[r] /\ h[s] = e[x] + h[r]
        BY <1>2, <2>2
      <3>4. e[x] = f[x] /\ f[x] \in Int
        BY <3>1
      <3>5. QED
        BY <3>2, <3>3, <3>4
    <2>3. QED
      BY <2>1, <2>2
  <1>5. n \in Same
    <2> HIDE DEF Same
    <2>1. 0 .. n \subseteq Same
      BY <1>1, <1>3, <1>4, BoundedInduction
    <2>2. QED
      BY <1>1, <2>1
  <1>6. QED
    BY <1>1, <1>5 DEF n

\* Any element may be added last.
LEMMA SumLast ==
    ASSUME NEW D, IsFiniteSet(D), NEW f \in [D -> Int], NEW g, Adds(g, f, D),
           NEW z \in D
    PROVE  g[D] = f[z] + g[D \ {z}]
  <1> DEFINE n == Cardinality(D)
             Any == {k \in 0 .. n : \A s \in SUBSET D : Cardinality(s) <= k =>
                        /\ g[s] \in Int
                        /\ \A x \in s : g[s] = f[x] + g[s \ {x}]}
  <1>1. n \in Nat
    BY FS_CardinalityType
  <1>2. \A s \in SUBSET D :
            /\ s = {} => g[s] = 0
            /\ s # {} => g[s] = f[Pick(s)] + g[s \ {Pick(s)}]
    BY DEF Adds
  <1> HIDE DEF n
  <1>3. g[{}] \in Int
    <2>1. {} \in SUBSET D
      OBVIOUS
    <2>2. g[{}] = 0
      BY <2>1, Zenon DEF Adds
    <2>3. QED
      BY <2>2
  <1>4. 0 \in Any
    <2>1. \A s \in SUBSET D : Cardinality(s) <= 0 => s = {}
      BY PickSmaller
    <2>2. QED
      BY <1>1, <1>3, <2>1
  <1>5. ASSUME NEW k \in 1 .. n, k - 1 \in Any PROVE k \in Any
    <2> SUFFICES ASSUME NEW s \in SUBSET D, Cardinality(s) <= k, s # {}
                 PROVE  /\ g[s] \in Int
                        /\ \A x \in s : g[s] = f[x] + g[s \ {x}]
      BY <1>1, <1>3
    <2> DEFINE y == Pick(s)
               r == s \ {y}
    <2>1. y \in s /\ y \in D /\ r \in SUBSET D /\ Cardinality(r) <= k - 1
      BY <1>1, PickSmaller
    <2>2. g[r] \in Int /\ f[y] \in Int /\ g[s] = f[y] + g[r]
      BY <1>2, <1>5, <2>1
    <2>3. ASSUME NEW x \in s, x # y
          PROVE  g[s] = f[x] + g[s \ {x}]
      <3> DEFINE q == s \ {x}
                 both == r \ {x}
      <3>1. /\ q \in SUBSET D /\ Cardinality(q) <= k - 1 /\ y \in q
            /\ x \in r /\ x \in D /\ q \ {y} = both
        BY <1>1, <2>1, <2>3, PickSmaller
      <3>2. both \in SUBSET D /\ Cardinality(both) <= k - 1
        <4> HIDE DEF r
        <4>1. Cardinality(both) = Cardinality(r) - 1 /\ Cardinality(r) \in Nat
          BY <2>1, <3>1, PickSmaller
        <4>2. QED
          BY <2>1, <4>1
      <3>3. g[both] \in Int /\ f[x] \in Int
        BY <1>5, <3>1, <3>2
      <3>4. g[q] = f[y] + g[both]
        <4>1. g[q] = f[y] + g[q \ {y}]
          <5> HIDE DEF q, y
          <5>1. QED
            BY <1>5, <3>1
        <4>2. QED
          BY <3>1, <4>1
      <3>5. g[r] = f[x] + g[both]
        BY <1>5, <2>1, <3>1
      <3> HIDE DEF y, r, q, both
      <3>6. f[y] + (f[x] + g[both]) = f[x] + (f[y] + g[both])
        BY <2>2, <3>3
      <3>7. QED
        BY <2>2, <3>4, <3>5, <3>6 DEF q
    <2>4. \A x \in s : g[s] = f[x] + g[s \ {x}]
      BY <2>2, <2>3
    <2>5. g[s] \in Int
      BY <2>2
    <2>6. QED
      BY <2>4, <2>5
  <1>6. n \in Any
    <2> HIDE DEF Any
    <2>1. 0 .. n \subseteq Any
      BY <1>1, <1>4, <1>5, BoundedInduction
    <2>2. QED
      BY <1>1, <2>1
  <1>7. D \in SUBSET D /\ Cardinality(D) <= n
    BY <1>1 DEF n
  <1>8. QED
    BY <1>6, <1>7

\* One more value in a sum.
LEMMA SumOneMore ==
    ASSUME NEW D, IsFiniteSet(D), NEW f \in [D -> Int], NEW z \in D,
           NEW e \in [D \ {z} -> Int], \A x \in D \ {z} : e[x] = f[x]
    PROVE  Sums!SumFunction(f) = f[z] + Sums!SumFunction(e)
  <1> DEFINE E == D \ {z}
  <1>1. E \in SUBSET D /\ IsFiniteSet(E)
    BY FS_Subset
  <1>2. PICK g : Adds(g, f, D) /\ Sums!SumFunction(f) = g[D]
    BY SumIsOne
  <1>3. PICK h : Adds(h, e, E) /\ Sums!SumFunction(e) = h[E]
    BY <1>1, SumIsOne
  <1>4. g[E] = h[E]
    BY <1>1, <1>2, <1>3, SumsAgree
  <1>5. QED
    BY <1>2, <1>3, <1>4, SumLast

\* An empty sum.
LEMMA SumOfNone ==
    ASSUME NEW f \in [{} -> Int]
    PROVE  Sums!SumFunction(f) = 0
  <1>1. IsFiniteSet({})
    BY FS_EmptySet
  <1>2. PICK g : Adds(g, f, {}) /\ Sums!SumFunction(f) = g[{}]
    BY <1>1, SumIsOne
  <1>3. QED
    BY <1>2 DEF Adds

(***************************************************************************)
(* The statistics of a chunk: what the place it is in says of them.        *)
(***************************************************************************)

\* What the statistics st of chunk c are after that many starts, its results
\* counted as done or not.
Stands(st, c, tries, done) ==
    /\ st.started = IF GenZero(c) THEN tries * Duration(c) ELSE 0
    /\ st.done = IF done THEN Duration(c) ELSE 0
    /\ st.maxed <= st.done
    /\ st.requested = 0 /\ st.failed = 0

\* What the place p says of the statistics st of a chunk c with fields f.
CountFits(f, st, c, p) ==
    /\ p \in {"ready", "start", "starter"} => Stands(st, c, f.restart, FALSE)
    /\ p \in {"poll", "poller"} => Stands(st, c, f.restart + 1, FALSE)
    /\ p = "update" =>
          /\ f.state = "starting" => Stands(st, c, f.restart, FALSE)
          /\ f.state = "started" => Stands(st, c, f.restart, FALSE) /\ f.err = "nil"
          /\ f.state = "polling" =>
                IF f.err = "errRestartChunk"
                THEN Stands(st, c, f.restart, FALSE)
                ELSE \/ Stands(st, c, f.restart + 1, FALSE)
                     \/ /\ Stands(st, c, f.restart + 1, TRUE)
                        /\ f.err = "UnexpectedQueryError"
          /\ f.state = "complete" => Stands(st, c, f.restart + 1, TRUE)

Counted(c, p) == CountFits(chunk[c], chunkStats[c], c, p)

\* Every chunk on its way counts its own starts and results and nothing else;
\* only generation-0 chunks that were made can have been used.
ChunksCounted ==
    /\ \A p \in Place : \A c \in Chunk : At(c, p) => Counted(c, p)
    /\ \A c \in Chunk : chunk[c].state = "created" =>
           chunkStats[c] = NoStats /\ chunk[c].restart = 0
    /\ \A s \in Stream : \A i \in 0 .. stream[s].next - 1 :
           chunk[Root(s, i)].state # "created"

\* A step leaves the tries of a chunk nobody expects any more alone.
RestartsKept ==
    \A c \in Chunk : Stage(c) = "out" => chunk'[c].restart = chunk[c].restart

\* No other chunk changes its fields or its statistics.
OthersCount(x) ==
    \A c \in Chunk \ {x} : chunk'[c] = chunk[c] /\ chunkStats'[c] = chunkStats[c]

\* A chunk x that goes from p to r and counts there as it should keeps the
\* invariant: what every step below is reduced to.
LEMMA StepCounts ==
    ASSUME RangesFresh, IndTypeOK, ChunksCounted,
           NEW x, NEW p \in Whereabouts, NEW r \in Whereabouts, Goes(x, p, r),
           OthersCount(x), chunk'[x].state # "created",
           Stage(x) = "pending" \/ chunk'[x].restart = chunk[x].restart,
           r \in Place => Counted(x, r)',
           SameNext \/ \E s \in Stream :
                          /\ x = Root(s, stream[s].next)
                          /\ stream' = [stream EXCEPT ![s].next = @ + 1]
    PROVE  ChunksCounted' /\ RestartsKept
  <1>1. x \in Chunk
    BY DEF Goes
  <1>2. ASSUME NEW u \in Place, NEW c \in Chunk, At(c, u)'
        PROVE  Counted(c, u)'
    <2>1. CASE c = x
      BY <1>2, <2>1 DEF Goes
    <2>2. CASE c # x
      <3>1. At(c, u) /\ chunk'[c] = chunk[c] /\ chunkStats'[c] = chunkStats[c]
        BY <1>2, <2>2 DEF Goes, OthersCount
      <3>2. Counted(c, u)
        BY <3>1 DEF ChunksCounted
      <3>3. QED
        BY <3>1, <3>2 DEF Counted
    <2>3. QED
      BY <2>1, <2>2
  <1>3. ASSUME NEW c \in Chunk, chunk'[c].state = "created"
        PROVE  chunkStats'[c] = NoStats /\ chunk'[c].restart = 0
    BY <1>3 DEF ChunksCounted, OthersCount
  <1>4. ASSUME NEW s \in Stream, NEW i \in 0 .. stream'[s].next - 1
        PROVE  chunk'[Root(s, i)].state # "created"
    <2>1. /\ stream[s].next \in Nat /\ stream[s].next <= NumRoots(Query[s])
          /\ NumRoots(Query[s]) \in Nat /\ stream \in [Stream -> StreamFields]
      BY StreamTypes DEF RangesFresh
    <2>2. CASE Root(s, i) = x
      BY <2>2
    <2>3. CASE Root(s, i) # x
      <3>1. i \in 0 .. stream[s].next - 1
        <4>1. CASE SameNext
          BY <1>4, <4>1 DEF SameNext
        <4>2. ASSUME NEW t \in Stream, x = Root(t, stream[t].next),
                     stream' = [stream EXCEPT ![t].next = @ + 1]
              PROVE  i \in 0 .. stream[s].next - 1
          <5>1. CASE s # t
            BY <1>4, <2>1, <4>2, <5>1
          <5>2. CASE s = t
            <6>1. stream'[s].next = stream[s].next + 1
              BY <2>1, <4>2, <5>2 DEF StreamFields
            <6>2. i # stream[s].next
              BY <2>3, <4>2, <5>2
            <6>3. QED
              BY <1>4, <2>1, <6>1, <6>2
          <5>3. QED
            BY <5>1, <5>2
        <4>3. QED
          BY <4>1, <4>2
      <3>2. Root(s, i) \in Chunk
        BY <2>1, <3>1, RootIsChunk
      <3>3. QED
        BY <2>3, <3>1, <3>2 DEF ChunksCounted, OthersCount
    <2>4. QED
      BY <2>2, <2>3
  <1>5. ChunksCounted'
    BY <1>2, <1>3, <1>4 DEF ChunksCounted
  <1>6. RestartsKept
    BY DEF RestartsKept, OthersCount
  <1>7. QED
    BY <1>5, <1>6

\* Nothing happens to a chunk.
LEMMA StayCounts ==
    ASSUME ChunksCounted, AllStay, UNCHANGED chunkStats, SameNext
    PROVE  ChunksCounted' /\ RestartsKept
  <1>1. \A p \in Place : \A c : At(c, p)' <=> At(c, p)
    BY DEF AllStay, At, Queues
  <1>2. \A p \in Place : \A c \in Chunk : At(c, p)' => Counted(c, p)'
    BY <1>1 DEF ChunksCounted, Counted, AllStay
  <1>3. \A s \in Stream : \A i \in 0 .. stream'[s].next - 1 :
            chunk'[Root(s, i)].state # "created"
    BY DEF ChunksCounted, SameNext, AllStay
  <1>4. \A c \in Chunk : chunk'[c].state = "created" =>
            chunkStats'[c] = NoStats /\ chunk'[c].restart = 0
    BY DEF ChunksCounted, AllStay
  <1>5. RestartsKept
    BY DEF RestartsKept, AllStay
  <1>6. QED
    BY <1>2, <1>3, <1>4, <1>5 DEF ChunksCounted

\* A worker puts its chunk back or sends it out.
LEMMA WorkerCounts ==
    ASSUME PlacesOK, RangesFresh, ChunksCounted,
           NEW w \in Worker, ring[w] # <<>>, UNCHANGED <<ready, in>>, SameNext,
           NEW x, x = Current(w), OthersSame(x), OthersCount(x),
           chunk'[x].state # "created",
           w = "poller" \/ chunk'[x].restart = chunk[x].restart,
           \/ PushBack(w) /\ Counted(x, w)'
           \/ SendOut(w) /\ Counted(x, "update")'
    PROVE  ChunksCounted' /\ RestartsKept
  <1>1. IndTypeOK /\ OneSpot /\ ChunksFit
    BY DEF PlacesOK
  <1>2. /\ PushBack(w) => StepOf(x, w, w)
        /\ SendOut(w) => StepOf(x, w, "update")
        /\ x \in Chunk /\ At(x, w)
    BY <1>1, WorkerStepOf
  <1>3. w \in Place /\ "update" \in Place
    BY WorkerPlaces
  <1>4. w \in Whereabouts /\ "update" \in Whereabouts
    BY <1>3 DEF Whereabouts
  <1>5. w = "poller" => Stage(x) = "pending"
    <2>1. Held(x) /\ Fits(x, w)
      BY <1>1, <1>2, <1>3, HeldAt DEF ChunksFit
    <2>2. QED
      BY <2>1 DEF Fits, Stage, StateStage
  <1>6. CASE PushBack(w) /\ Counted(x, w)'
    <2>1. Goes(x, w, w)
      BY <1>2, <1>6 DEF StepOf
    <2>2. QED
      BY <1>1, <1>3, <1>4, <1>5, <1>6, <2>1, StepCounts
  <1>7. CASE SendOut(w) /\ Counted(x, "update")'
    <2>1. Goes(x, w, "update")
      BY <1>2, <1>7 DEF StepOf
    <2>2. QED
      BY <1>1, <1>3, <1>4, <1>5, <1>7, <2>1, StepCounts
  <1>8. QED
    BY <1>6, <1>7

\* What the worker knows of the chunk at hand.
LEMMA CurrentCounts ==
    ASSUME PlacesOK, ChunksCounted, NEW w \in Worker, ring[w] # <<>>,
           NEW x, x = Current(w)
    PROVE  /\ x \in Chunk /\ chunk[x] \in ChunkFields /\ Fits(x, w)
           /\ chunk \in [Chunk -> ChunkFields] /\ Counted(x, w)
           /\ remote \in [Chunk -> {"none", "running", "ended"}]
  <1>1. /\ x \in Chunk /\ Fits(x, w) /\ chunk \in [Chunk -> ChunkFields]
        /\ remote \in [Chunk -> {"none", "running", "ended"}]
    BY CurrentFits
  <1>2. At(x, w) /\ w \in Place
    <2>1. Queues[w] = ring[w] /\ w \in Place
      BY WorkerPlaces
    <2>2. QED
      BY <2>1, HeadAt DEF PlacesOK, Current
  <1>3. QED
    BY <1>1, <1>2 DEF ChunksCounted

\* The fields of a chunk whose error, and number of tries, is set.
LEMMA ErrSet ==
    ASSUME chunk \in [Chunk -> ChunkFields], NEW x \in Chunk, NEW e,
           \/ chunk' = [chunk EXCEPT ![x].err = e]
           \/ \E n : chunk' = [chunk EXCEPT ![x].tmp = n, ![x].err = e]
    PROVE  /\ chunk'[x].state = chunk[x].state
           /\ chunk'[x].restart = chunk[x].restart /\ chunk'[x].err = e
           /\ \A c \in Chunk \ {x} : chunk'[c] = chunk[c]
  <1>1. chunk[x] \in ChunkFields
    OBVIOUS
  <1>2. CASE chunk' = [chunk EXCEPT ![x].err = e]
    BY <1>1, <1>2 DEF ChunkFields
  <1>3. ASSUME NEW n, chunk' = [chunk EXCEPT ![x].tmp = n, ![x].err = e]
        PROVE  /\ chunk'[x].state = chunk[x].state
               /\ chunk'[x].restart = chunk[x].restart /\ chunk'[x].err = e
               /\ \A c \in Chunk \ {x} : chunk'[c] = chunk[c]
    BY <1>1, <1>3 DEF ChunkFields
  <1>4. QED
    BY <1>2, <1>3

\* The three workers. No answer of StartQuery counts anything.
LEMMA StarterCounts ==
    ASSUME PlacesOK, RangesFresh, ChunksCounted, StarterAnswer, UNCHANGED chunkStats
    PROVE  ChunksCounted' /\ RestartsKept
  <1> DEFINE w == "starter"
  <1>1. w \in Worker /\ Answered(w)
    BY DEF StarterAnswer, StarterRetry, StarterLimited, StarterFails,
           StarterStarts, Worker
  <1>2. PICK x : x = Current(w)
    OBVIOUS
  <1>3. ring[w] # <<>> /\ UNCHANGED <<ready, in>>
    BY <1>1, AnsweredFacts
  <1>4. /\ x \in Chunk /\ chunk[x] \in ChunkFields /\ Fits(x, w)
        /\ chunk \in [Chunk -> ChunkFields] /\ Counted(x, w)
        /\ remote \in [Chunk -> {"none", "running", "ended"}]
    BY <1>1, <1>2, <1>3, CurrentCounts
  <1>5. SameNext
    BY DEF StarterAnswer, StarterRetry, StarterLimited, StarterFails,
           StarterStarts, SameNext
  <1>6. /\ chunk[x].state = "starting"
        /\ Stands(chunkStats[x], x, chunk[x].restart, FALSE)
    BY <1>4 DEF Fits, Counted, CountFits
  <1>7. CASE StarterRetry
    <2>1. Retry(w, "StartQueryError") /\ UNCHANGED remote
      BY <1>7 DEF StarterRetry
    <2>2. /\ \E e, n : chunk' = [chunk EXCEPT ![x].tmp = n, ![x].err = e]
          /\ PushBack(w) \/ SendOut(w)
      BY <1>2, <2>1 DEF Retry
    <2>3. /\ chunk'[x].state = "starting" /\ chunk'[x].restart = chunk[x].restart
          /\ \A c \in Chunk \ {x} : chunk'[c] = chunk[c]
      BY <1>4, <1>6, <2>2 DEF ChunkFields
    <2>4. OthersSame(x) /\ OthersCount(x)
      BY <2>1, <2>3 DEF OthersSame, OthersCount
    <2>5. Counted(x, w)' /\ Counted(x, "update")'
      BY <1>6, <2>3 DEF Counted, CountFits
    <2>6. QED
      BY <1>1, <1>2, <1>3, <1>5, <2>2, <2>3, <2>4, <2>5, WorkerCounts
  <1>8. CASE StarterLimited \/ StarterFails \/ StarterStarts
    <2>1. /\ SendOut(w) /\ remote' \in {remote, [remote EXCEPT ![x] = "running"]}
          /\ \/ \E e : chunk' = [chunk EXCEPT ![x].err = e]
             \/ chunk' = [chunk EXCEPT ![x].state = "started", ![x].err = "nil"]
      BY <1>2, <1>8 DEF StarterLimited, StarterFails, StarterStarts
    <2>2. /\ \/ chunk'[x].state = "starting"
             \/ chunk'[x].state = "started" /\ chunk'[x].err = "nil"
          /\ chunk'[x].restart = chunk[x].restart
          /\ \A c \in Chunk \ {x} : chunk'[c] = chunk[c]
      BY <1>4, <1>6, <2>1 DEF ChunkFields
    <2>3. OthersSame(x) /\ OthersCount(x)
      BY <1>4, <2>1, <2>2 DEF OthersSame, OthersCount
    <2>4. Counted(x, "update")'
      BY <1>6, <2>2 DEF Counted, CountFits
    <2>5. QED
      BY <1>1, <1>2, <1>3, <1>5, <2>1, <2>2, <2>3, <2>4, WorkerCounts
  <1>9. QED
    BY <1>7, <1>8 DEF StarterAnswer

\* The poller's answers that count nothing.
LEMMA PollerCounts ==
    ASSUME PlacesOK, RangesFresh, ChunksCounted, UNCHANGED chunkStats,
           \/ PollerRetry \/ PollerInconclusive \/ PollerUnexpected(FALSE)
           \/ PollerMaxed \/ PollerRestarts \/ PollerTerminal
    PROVE  ChunksCounted' /\ RestartsKept
  <1> DEFINE w == "poller"
  <1>1. w \in Worker /\ Answered(w)
    BY DEF PollerRetry, PollerInconclusive, PollerUnexpected, PollerMaxed,
           PollerRestarts, PollerTerminal, Worker
  <1>2. PICK x : x = Current(w)
    OBVIOUS
  <1>3. ring[w] # <<>> /\ UNCHANGED <<ready, in>>
    BY <1>1, AnsweredFacts
  <1>4. /\ x \in Chunk /\ chunk[x] \in ChunkFields /\ Fits(x, w)
        /\ chunk \in [Chunk -> ChunkFields] /\ Counted(x, w)
        /\ remote \in [Chunk -> {"none", "running", "ended"}]
    BY <1>1, <1>2, <1>3, CurrentCounts
  <1>5. SameNext
    BY DEF PollerRetry, PollerInconclusive, PollerUnexpected, PollerMaxed,
           PollerRestarts, PollerTerminal, SameNext
  <1>6. /\ chunk[x].state = "polling"
        /\ Stands(chunkStats[x], x, chunk[x].restart + 1, FALSE)
    BY <1>4 DEF Fits, Counted, CountFits
  <1>7. CASE PollerRetry \/ PollerInconclusive
    <2>1. /\ \E e \in {"nil", "UnexpectedQueryError"} :
                \/ chunk' = [chunk EXCEPT ![x].err = e]
                \/ \E n : chunk' = [chunk EXCEPT ![x].tmp = n, ![x].err = e]
          /\ PushBack(w) \/ SendOut(w)
          /\ UNCHANGED remote
      BY <1>2, <1>7 DEF PollerRetry, PollerInconclusive, Retry
    <2>2. /\ chunk'[x].state = "polling" /\ chunk'[x].restart = chunk[x].restart
          /\ chunk'[x].err \in {"nil", "UnexpectedQueryError"}
          /\ \A c \in Chunk \ {x} : chunk'[c] = chunk[c]
      BY <1>4, <1>6, <2>1, ErrSet
    <2>3. OthersSame(x) /\ OthersCount(x)
      BY <2>1, <2>2 DEF OthersSame, OthersCount
    <2>4. Counted(x, w)' /\ Counted(x, "update")'
      BY <1>6, <2>2 DEF Counted, CountFits
    <2>5. QED
      BY <1>1, <1>2, <1>3, <1>5, <2>1, <2>2, <2>3, <2>4, WorkerCounts
  <1>8. CASE PollerUnexpected(FALSE) \/ PollerMaxed \/ PollerTerminal
    <2>1. /\ SendOut(w) /\ remote' \in {remote, [remote EXCEPT ![x] = "ended"]}
          /\ \E e : /\ e # "errRestartChunk"
                    /\ chunk' = [chunk EXCEPT ![x].err = e]
      BY <1>2, <1>8 DEF PollerUnexpected, PollerMaxed, PollerTerminal
    <2>2. /\ chunk'[x].state = "polling" /\ chunk'[x].restart = chunk[x].restart
          /\ chunk'[x].err # "errRestartChunk"
          /\ \A c \in Chunk \ {x} : chunk'[c] = chunk[c]
      BY <1>4, <1>6, <2>1, ErrSet
    <2>3. OthersSame(x) /\ OthersCount(x)
      BY <1>4, <2>1, <2>2 DEF OthersSame, OthersCount
    <2>4. Counted(x, "update")'
      BY <1>6, <2>2 DEF Counted, CountFits
    <2>5. QED
      BY <1>1, <1>2, <1>3, <1>5, <2>1, <2>2, <2>3, <2>4, WorkerCounts
  <1>9. CASE PollerRestarts
    <2>1. /\ SendOut(w) /\ remote' = [remote EXCEPT ![x] = "ended"]
          /\ chunk' = [chunk EXCEPT ![x].restart = @ + 1,
                                    ![x].err = "errRestartChunk"]
      BY <1>2, <1>9 DEF PollerRestarts
    <2>2. /\ chunk'[x].state = "polling" /\ chunk'[x].restart = chunk[x].restart + 1
          /\ chunk'[x].err = "errRestartChunk"
          /\ \A c \in Chunk \ {x} : chunk'[c] = chunk[c]
      BY <1>4, <1>6, <2>1 DEF ChunkFields
    <2>3. OthersSame(x) /\ OthersCount(x)
      BY <1>4, <2>1, <2>2 DEF OthersSame, OthersCount
    <2>4. Counted(x, "update")'
      BY <1>6, <2>2 DEF Counted, CountFits
    <2>5. QED
      BY <1>1, <1>2, <1>3, <1>5, <2>1, <2>2, <2>3, <2>4, WorkerCounts
  <1>10. QED
    BY <1>7, <1>8, <1>9

\* A counter that d is added to or not.
LEMMA CountFields ==
    ASSUME NEW st \in [Counter -> Nat], NEW fs, NEW d \in Nat
    PROVE  LET new == Count(st, fs, d)
           IN  /\ new.requested = st.requested + (IF "requested" \in fs THEN d ELSE 0)
               /\ new.started = st.started + (IF "started" \in fs THEN d ELSE 0)
               /\ new.done = st.done + (IF "done" \in fs THEN d ELSE 0)
               /\ new.failed = st.failed + (IF "failed" \in fs THEN d ELSE 0)
               /\ new.maxed = st.maxed + (IF "maxed" \in fs THEN d ELSE 0)
               /\ new \in [Counter -> Nat]
               /\ st.requested \in Nat /\ st.started \in Nat /\ st.done \in Nat
               /\ st.failed \in Nat /\ st.maxed \in Nat
  BY DEF Counter, Count

\* A complete query, counted as done once, whatever became of its results.
LEMMA ResultsCount ==
    ASSUME PlacesOK, RangesFresh, StatsType, ChunksCounted,
           NEW maxed \in BOOLEAN, CountResults(maxed)
    PROVE  ChunksCounted' /\ RestartsKept
  <1> DEFINE w == "poller"
             fs == IF maxed THEN {"done", "maxed"} ELSE {"done"}
  <1>1. w \in Worker /\ Answered(w) /\ SendOut(w)
    BY DEF CountResults, PollerCompletes, PollerUnexpected, Worker
  <1>2. PICK x : x = Current(w)
    OBVIOUS
  <1>3. ring[w] # <<>> /\ UNCHANGED <<ready, in>>
    BY <1>1, AnsweredFacts
  <1>4. /\ x \in Chunk /\ chunk[x] \in ChunkFields /\ Fits(x, w)
        /\ chunk \in [Chunk -> ChunkFields] /\ Counted(x, w)
        /\ remote \in [Chunk -> {"none", "running", "ended"}]
    BY <1>1, <1>2, <1>3, CurrentCounts
  <1>5. SameNext
    <2>1. stream \in [Stream -> StreamFields]
      BY DEF PlacesOK, IndTypeOK, TypeOK
    <2>2. UNCHANGED stream \/ stream' = [stream EXCEPT ![x.stream].blocks = Append(@, x)]
      BY <1>2 DEF CountResults, PollerCompletes, PollerUnexpected
    <2>3. CASE UNCHANGED stream
      BY <2>3 DEF SameNext
    <2>4. CASE stream' = [stream EXCEPT ![x.stream].blocks = Append(@, x)]
      <3>1. stream' = [stream EXCEPT ![x.stream] =
                          [stream[x.stream] EXCEPT !.blocks = Append(@, x)]]
        BY <2>4, Zenon
      <3>2. QED
        BY <2>1, <3>1 DEF SameNext, StreamFields
    <2>5. QED
      BY <2>2, <2>3, <2>4
  <1>6. /\ chunk[x].state = "polling"
        /\ Stands(chunkStats[x], x, chunk[x].restart + 1, FALSE)
    BY <1>4 DEF Fits, Counted, CountFits
  <1>7. /\ remote' = [remote EXCEPT ![x] = "ended"]
        /\ \/ chunk' = [chunk EXCEPT ![x].state = "complete", ![x].err = "nil"]
           \/ chunk' = [chunk EXCEPT ![x].err = "UnexpectedQueryError"]
        /\ chunkStats' = [chunkStats EXCEPT ![x] = Count(@, fs, Duration(x))]
    BY <1>2 DEF CountResults, PollerCompletes, PollerUnexpected
  <1>8. /\ \/ chunk'[x].state = "complete"
           \/ chunk'[x].state = "polling" /\ chunk'[x].err = "UnexpectedQueryError"
        /\ chunk'[x].restart = chunk[x].restart
        /\ \A c \in Chunk \ {x} : chunk'[c] = chunk[c]
    BY <1>4, <1>6, <1>7 DEF ChunkFields
  <1>9. OthersSame(x) /\ OthersCount(x)
    BY <1>4, <1>7, <1>8 DEF OthersSame, OthersCount, StatsType
  <1>10. /\ chunkStats[x] \in [Counter -> Nat] /\ Duration(x) \in Nat
         /\ chunkStats'[x] = Count(chunkStats[x], fs, Duration(x))
    BY <1>4, <1>7, ChunkDuration DEF StatsType
  <1>11. Stands(chunkStats'[x], x, chunk[x].restart + 1, TRUE)
    <2> DEFINE old == chunkStats[x]
               new == chunkStats'[x]
               d == Duration(x)
    <2>1. /\ new.requested = old.requested /\ new.started = old.started
          /\ new.done = old.done + d /\ new.failed = old.failed
          /\ new.maxed = old.maxed + (IF maxed THEN d ELSE 0)
          /\ old.requested \in Nat /\ old.started \in Nat /\ old.done \in Nat
          /\ old.failed \in Nat /\ old.maxed \in Nat
      BY <1>10, CountFields
    <2>2. /\ old.started = IF GenZero(x) THEN (chunk[x].restart + 1) * d ELSE 0
          /\ old.done = 0 /\ old.maxed <= old.done
          /\ old.requested = 0 /\ old.failed = 0
      BY <1>6 DEF Stands
    <2> HIDE DEF old, new, d
    <2>3. d \in Nat
      BY <1>10 DEF d
    <2>4. /\ new.done = d /\ new.maxed <= new.done
          /\ new.requested = 0 /\ new.failed = 0 /\ new.started = old.started
      BY <2>1, <2>2, <2>3
    <2>5. QED
      BY <2>2, <2>4 DEF Stands, old, new, d
  <1>12. Counted(x, "update")'
    BY <1>8, <1>11 DEF Counted, CountFits
  <1>13. QED
    BY <1>1, <1>2, <1>3, <1>5, <1>8, <1>9, <1>12, WorkerCounts

\* A chunk that is being stopped is not counted any more.
LEMMA StopperCounts ==
    ASSUME PlacesOK, RangesFresh, ChunksCounted, StopperAnswer, UNCHANGED chunkStats
    PROVE  ChunksCounted' /\ RestartsKept
  <1> DEFINE w == "stopper"
  <1>1. CASE StopperPanics
    <2>1. AllStay /\ SameNext
      BY <1>1 DEF StopperPanics, AllStay, SameNext
    <2>2. QED
      BY <2>1, StayCounts
  <1>2. CASE StopperRetry \/ StopperFinishes
    <2>1. w \in Worker /\ Answered(w)
      BY <1>2 DEF StopperRetry, StopperFinishes, Worker
    <2>2. PICK x : x = Current(w)
      OBVIOUS
    <2>3. ring[w] # <<>> /\ UNCHANGED <<ready, in>>
      BY <2>1, AnsweredFacts
    <2>4. /\ x \in Chunk /\ chunk[x] \in ChunkFields /\ Fits(x, w)
          /\ chunk \in [Chunk -> ChunkFields]
          /\ remote \in [Chunk -> {"none", "running", "ended"}]
      BY <2>1, <2>2, <2>3, CurrentCounts
    <2>5. SameNext
      BY <1>2 DEF StopperRetry, StopperFinishes, SameNext
    <2>6. /\ \/ UNCHANGED chunk
             \/ \E e, n : chunk' = [chunk EXCEPT ![x].tmp = n, ![x].err = e]
          /\ PushBack(w) \/ SendOut(w)
          /\ remote' \in {remote, [remote EXCEPT ![x] = "ended"]}
      BY <1>2, <2>2 DEF StopperRetry, StopperFinishes, Retry
    <2>7. /\ chunk'[x].state = "stopping" /\ chunk'[x].restart = chunk[x].restart
          /\ \A c \in Chunk \ {x} : chunk'[c] = chunk[c]
      <3>1. chunk[x].state = "stopping"
        BY <2>4 DEF Fits
      <3>2. CASE UNCHANGED chunk
        BY <3>1, <3>2
      <3>3. CASE ~UNCHANGED chunk
        BY <2>4, <2>6, <3>1, <3>3, ErrSet
      <3>4. QED
        BY <3>2, <3>3
    <2>8. OthersSame(x) /\ OthersCount(x)
      BY <2>4, <2>6, <2>7 DEF OthersSame, OthersCount
    <2>9. Counted(x, w)' /\ Counted(x, "update")'
      BY <2>7 DEF Counted, CountFits
    <2>10. QED
      BY <2>1, <2>2, <2>3, <2>5, <2>6, <2>7, <2>8, <2>9, WorkerCounts
  <1>3. QED
    BY <1>1, <1>2 DEF StopperAnswer

\* What every worker does besides reacting to answers.
LEMMA CommonCounts ==
    ASSUME PlacesOK, RangesFresh, ChunksCounted, UNCHANGED chunkStats,
           NEW w \in Worker, CommonStep(w)
    PROVE  ChunksCounted' /\ RestartsKept
  <1>1. /\ IndTypeOK /\ OneSpot /\ ChunksFit /\ UNCHANGED <<ready, stream>>
        /\ chunk \in [Chunk -> ChunkFields] /\ SameNext
    BY DEF CommonStep, Pop, WaitClosing, Begin, ReleaseInProgress,
           ReleaseStray, ReleaseChunk, WorkerDone, mgrVars, PlacesOK,
           IndTypeOK, TypeOK, SameNext
  <1>2. AllStay => ChunksCounted' /\ RestartsKept
    BY <1>1, StayCounts
  \* Chunk x goes from the ring or the channel of w to its ring or to update.
  <1>3. ASSUME NEW p \in {w, Channel(w)}, NEW r \in {w, "update"}, NEW x,
               x \in Chunk, At(x, p), OthersSame(x),
               StepOf(x, p, r),
               chunk'[x].state = chunk[x].state,
               chunk'[x].restart = chunk[x].restart,
               r = "update" /\ w = "poller" => chunk'[x].err # "errRestartChunk"
        PROVE  ChunksCounted' /\ RestartsKept
    <2>1. Goes(x, p, r) /\ OthersCount(x)
      BY <1>3 DEF StepOf, OthersSame, OthersCount
    <2>2. p \in Place /\ r \in Place /\ p \in Whereabouts /\ r \in Whereabouts
      BY <1>3, WorkerPlaces DEF Whereabouts
    <2>3. Fits(x, p) /\ Counted(x, p)
      BY <1>1, <1>3, <2>2 DEF ChunksFit, ChunksCounted
    <2>4. /\ w = "starter" => /\ chunk'[x].state = "starting"
                              /\ Stands(chunkStats[x], x, chunk'[x].restart, FALSE)
          /\ w = "poller" => /\ chunk'[x].state = "polling"
                             /\ Stands(chunkStats[x], x, chunk'[x].restart + 1, FALSE)
          /\ w = "stopper" => chunk'[x].state = "stopping"
      BY <1>3, <2>3 DEF Fits, Counted, CountFits, Channel
    <2>5. Counted(x, r)' /\ chunk'[x].state # "created"
      BY <1>3, <2>4 DEF Counted, CountFits, Worker
    <2>6. QED
      BY <1>1, <1>3, <2>1, <2>2, <2>5, StepCounts
  <1>4. ASSUME ring[w] # <<>>, UNCHANGED in, NEW r \in {w, "update"},
               \/ r = w /\ PushBack(w)
               \/ r = "update" /\ SendOut(w),
               NEW e \in {"errStopChunk", "ErrClosed"},
               \/ chunk' = [chunk EXCEPT ![Current(w)].err = e]
               \/ UNCHANGED chunk /\ (r = w \/ w # "poller"),
               \A c \in Chunk \ {Current(w)} : remote'[c] = remote[c]
        PROVE  ChunksCounted' /\ RestartsKept
    <2>1. PICK x : x = Current(w)
      OBVIOUS
    <2>2. x \in Chunk
      BY <1>4, <2>1, CurrentCounts
    <2>3. /\ chunk'[x].state = chunk[x].state
          /\ chunk'[x].restart = chunk[x].restart
          /\ r = "update" /\ w = "poller" => chunk'[x].err # "errRestartChunk"
          /\ \A c \in Chunk \ {x} : chunk'[c] = chunk[c]
      <3>1. CASE UNCHANGED chunk /\ (r = w \/ w # "poller")
        BY <3>1, WorkerPlaces
      <3>2. CASE chunk' = [chunk EXCEPT ![x].err = e]
        BY <1>1, <1>4, <2>2, <3>2, ErrSet
      <3>3. QED
        BY <1>4, <2>1, <3>1, <3>2
    <2>4. OthersSame(x)
      BY <1>4, <2>1, <2>3 DEF OthersSame
    <2>5. StepOf(x, w, r) /\ At(x, w)
      BY <1>1, <1>4, <2>1, <2>4, WorkerStepOf
    <2>6. QED
      BY <1>3, <2>2, <2>3, <2>4, <2>5
  <1>5. CASE Pop(w)
    <2>1. CASE AllStay
      BY <1>2, <2>1
    <2>2. CASE /\ in[w] # <<>> /\ in' = [in EXCEPT ![w] = Tail(@)]
               /\ ring' = [ring EXCEPT ![w] = Append(@, Head(in[w]))]
               /\ chunk' = [chunk EXCEPT ![Head(in[w])].tmp = 0]
               /\ UNCHANGED <<update, remote>>
      <3>1. PICK x : x = Head(in[w])
        OBVIOUS
      <3>2. \A c \in Chunk \ {x} : chunk'[c] = chunk[c] /\ remote'[c] = remote[c]
        BY <1>1, <2>2, <3>1
      <3>3. OthersSame(x)
        BY <3>2 DEF OthersSame
      <3>4. StepOf(x, Channel(w), w) /\ x \in Chunk /\ At(x, Channel(w))
        BY <1>1, <2>2, <3>1, <3>3, ReceivesStepOf
      <3>5. /\ chunk'[x].state = chunk[x].state
            /\ chunk'[x].restart = chunk[x].restart
        BY <1>1, <2>2, <3>1, <3>4 DEF ChunkFields
      <3>6. w # "update"
        BY WorkerPlaces
      <3>7. QED
        BY <1>3, <3>3, <3>4, <3>5, <3>6
    <2>3. QED
      BY <1>1, <1>5, <2>1, <2>2 DEF Pop, AllStay
  <1>6. CASE WaitClosing(w) \/ Begin(w)
    <2>1. ring[w] # <<>>
      BY <1>6 DEF WaitClosing, Begin, PlacesOK, IndTypeOK, WorkersHaveChunk
    <2>2. CASE AllStay
      BY <1>2, <2>2
    <2>3. CASE PushBack(w) /\ UNCHANGED <<in, chunk, remote>>
      BY <1>4, <2>1, <2>3
    <2>4. CASE /\ SendOut(w) /\ UNCHANGED <<in, remote>>
               /\ chunk' = IF w = "poller"
                           THEN [chunk EXCEPT ![Current(w)].err = "errStopChunk"]
                           ELSE chunk
      BY <1>4, <2>1, <2>4
    <2>5. QED
      BY <1>1, <1>6, <2>2, <2>3, <2>4 DEF WaitClosing, Begin, AllStay
  <1>7. CASE ReleaseInProgress(w)
    <2>1. /\ ring[w] # <<>> /\ SendOut(w) /\ UNCHANGED in
          /\ chunk' = [chunk EXCEPT ![Current(w)].err = "ErrClosed"]
          /\ remote' \in {remote, [remote EXCEPT ![Current(w)] = "ended"]}
      BY <1>7 DEF ReleaseInProgress, ReleaseChunk, SendOut
    <2>2. \A c \in Chunk \ {Current(w)} : remote'[c] = remote[c]
      BY <1>1, <2>1 DEF IndTypeOK, TypeOK
    <2>3. QED
      BY <1>4, <2>1, <2>2
  <1>8. CASE ReleaseStray(w)
    <2>1. PICK x : x = Head(in[w])
      OBVIOUS
    <2>2. /\ in[w] # <<>> /\ in' = [in EXCEPT ![w] = Tail(@)]
          /\ update' = Append(update, Head(in[w])) /\ UNCHANGED ring
          /\ chunk' = [chunk EXCEPT ![x].err = "ErrClosed"]
          /\ remote' \in {remote, [remote EXCEPT ![x] = "ended"]}
      BY <1>8, <2>1 DEF ReleaseStray, ReleaseChunk
    <2>3. x \in Chunk
      BY <1>1, <2>1, <2>2 DEF IndTypeOK, TypeOK
    <2>4. /\ chunk'[x].state = chunk[x].state
          /\ chunk'[x].restart = chunk[x].restart
          /\ chunk'[x].err = "ErrClosed"
          /\ \A c \in Chunk \ {x} : chunk'[c] = chunk[c]
      BY <1>1, <2>2, <2>3, ErrSet
    <2>5. OthersSame(x)
      BY <1>1, <2>2, <2>4 DEF OthersSame, IndTypeOK, TypeOK
    <2>6. StepOf(x, Channel(w), "update") /\ At(x, Channel(w))
      BY <1>1, <2>1, <2>2, <2>5, ReceivesStepOf
    <2>7. QED
      BY <1>3, <2>3, <2>4, <2>5, <2>6
  <1>9. CASE WorkerDone(w)
    BY <1>1, <1>2, <1>9 DEF WorkerDone, AllStay
  <1>10. QED
    BY <1>5, <1>6, <1>7, <1>8, <1>9 DEF CommonStep

(* The manager loop. *)

\* The loop takes a chunk from update and puts it somewhere else, or away.
LEMMA LoopCounts ==
    ASSUME PlacesOK, RangesFresh, ChunksCounted,
           update # <<>>, update' = Tail(update), UNCHANGED <<ring, remote>>,
           SameNext, NEW x, x = Updated, OthersCount(x),
           chunk'[x].state # "created", chunk'[x].restart = chunk[x].restart,
           NEW r,
           \/ r = "ready" /\ ready' = Append(ready, Updated) /\ UNCHANGED in
           \/ \E w \in Worker :
                 /\ r = Channel(w) /\ UNCHANGED ready
                 /\ in' = [in EXCEPT ![w] = Append(@, Updated)]
           \/ r = "away" /\ UNCHANGED <<ready, in>>,
           r # "away" => Counted(x, r)'
    PROVE  ChunksCounted' /\ RestartsKept
  <1>1. IndTypeOK /\ OneSpot
    BY DEF PlacesOK
  <1>2. OthersSame(x)
    BY DEF OthersSame, OthersCount
  <1>3. StepOf(x, "update", r)
    BY <1>1, <1>2, UpdatedStepOf
  <1>4. r \in Whereabouts /\ "update" \in Whereabouts /\ "away" \notin Place
    BY WorkerPlaces DEF Whereabouts, Place
  <1>5. Goes(x, "update", r)
    BY <1>3 DEF StepOf
  <1>6. QED
    BY <1>1, <1>4, <1>5, StepCounts

\* What the loop knows of the chunk it received.
LEMMA ReceivedCounts ==
    ASSUME PlacesOK, ChunksCounted, update # <<>>, NEW x, x = Updated
    PROVE  /\ x \in Chunk /\ chunk \in [Chunk -> ChunkFields]
           /\ chunk[x] \in ChunkFields /\ Fits(x, "update")
           /\ Counted(x, "update") /\ chunk[x].state # "created"
  <1>1. x \in Chunk /\ chunk \in [Chunk -> ChunkFields] /\ Fits(x, "update")
    BY ReceiveFacts
  <1>2. At(x, "update") /\ "update" \in Place
    <2>1. Queues["update"] = update /\ "update" \in Place
      BY DEF Queues, Place
    <2>2. QED
      BY <2>1, HeadAt DEF PlacesOK, Updated
  <1>3. chunk[x].state # "created"
    BY <1>1 DEF Fits
  <1>4. QED
    BY <1>1, <1>2, <1>3 DEF ChunksCounted

\* The loop gives up or finishes the chunk it received, with statistics st.
LEMMA DropCounts ==
    ASSUME PlacesOK, RangesFresh, StatsType, ChunksCounted,
           update # <<>>, update' = Tail(update),
           UNCHANGED <<ring, remote, ready>>, SameNext,
           \/ UNCHANGED <<in, chunk>>
           \/ /\ chunk' = [chunk EXCEPT ![Updated].state = "stopping"]
              /\ in' = [in EXCEPT !["stopper"] = Append(@, Updated)],
           \/ UNCHANGED chunkStats
           \/ \E st : chunkStats' = [chunkStats EXCEPT ![Updated] = st]
    PROVE  ChunksCounted' /\ RestartsKept
  <1>1. PICK x : x = Updated
    OBVIOUS
  <1>2. /\ x \in Chunk /\ chunk \in [Chunk -> ChunkFields]
        /\ chunk[x].state # "created"
    BY <1>1, ReceivedCounts
  <1>3. \A c \in Chunk \ {x} : chunkStats'[c] = chunkStats[c]
    BY <1>1, <1>2 DEF StatsType
  <1>4. CASE UNCHANGED <<in, chunk>>
    <2>1. OthersCount(x)
      BY <1>3, <1>4 DEF OthersCount
    <2>2. QED
      BY <1>1, <1>2, <1>4, <2>1, LoopCounts
  <1>5. CASE /\ chunk' = [chunk EXCEPT ![x].state = "stopping"]
             /\ in' = [in EXCEPT !["stopper"] = Append(@, Updated)]
    <2>1. /\ chunk'[x].state = "stopping"
          /\ chunk'[x].restart = chunk[x].restart
          /\ \A c \in Chunk \ {x} : chunk'[c] = chunk[c]
      BY <1>2, <1>5 DEF ChunkFields
    <2>2. OthersCount(x)
      BY <1>3, <2>1 DEF OthersCount
    <2>3. Counted(x, "stop")'
      BY DEF Counted, CountFits
    <2>4. "stopper" \in Worker /\ Channel("stopper") = "stop"
      BY DEF Worker, Channel
    <2>5. QED
      BY <1>1, <1>2, <1>5, <2>1, <2>2, <2>3, <2>4, LoopCounts
  <1>6. QED
    BY <1>1, <1>4, <1>5

\* killStream makes no new chunk.
LEMMA KillNext ==
    ASSUME IndTypeOK, NEW c \in Chunk, NEW e, KillStream(c, e)
    PROVE  SameNext
  <1>1. stream \in [Stream -> StreamFields] /\ c.stream \in Stream
    BY ChunkElim DEF IndTypeOK, TypeOK
  <1>2. SetErr(stream[c.stream], e).next = stream[c.stream].next
    BY <1>1, SetErrFields
  <1>3. stream' = [stream EXCEPT ![c.stream] = SetErr(stream[c.stream], e)]
    BY DEF KillStream
  <1>4. QED
    BY <1>1, <1>2, <1>3 DEF SameNext

\* The steps that pass the statistics of a chunk on: it is away after them.
LEMMA KillsCount ==
    ASSUME PlacesOK, RangesFresh, StatsType, ChunksCounted,
           \/ CountStartFailure \/ CountFailure
           \/ CountCompletion /\ ~HandleSplit
    PROVE  ChunksCounted' /\ RestartsKept
  <1>1. /\ HandleStartFailure \/ HandleUnexpected \/ HandleTerminal
           \/ HandleChunkCompletion
        /\ \E st : chunkStats' = [chunkStats EXCEPT ![Updated] = st]
    BY DEF CountStartFailure, CountFailure, CountCompletion, Killed
  <1>2. /\ update # <<>> /\ update' = Tail(update)
        /\ UNCHANGED <<ring, remote, ready>>
        /\ \/ UNCHANGED <<in, chunk>>
           \/ /\ chunk' = [chunk EXCEPT ![Updated].state = "stopping"]
              /\ in' = [in EXCEPT !["stopper"] = Append(@, Updated)]
    BY <1>1 DEF HandleStartFailure, HandleUnexpected, HandleTerminal, StopChunk,
                HandleChunkCompletion, Receive, workerVars
  <1>3. Updated \in Chunk /\ stream \in [Stream -> StreamFields]
    BY <1>2, ReceiveFacts
  <1>4. SameNext
    <2>1. CASE HandleChunkCompletion
      <3>1. stream' = [stream EXCEPT ![Updated.stream] =
                                         Completed(stream[Updated.stream], 0)]
        BY <2>1 DEF HandleChunkCompletion
      <3>2. Updated.stream \in Stream
        BY <1>3, ChunkElim
      <3>3. Completed(stream[Updated.stream], 0).next = stream[Updated.stream].next
        BY <1>3, <3>2, CompletedFields
      <3>4. QED
        BY <1>3, <3>1, <3>2, <3>3 DEF SameNext
    <2>2. CASE ~HandleChunkCompletion
      <3>1. \E e : KillStream(Updated, e)
        BY <1>1, <2>2 DEF HandleStartFailure, HandleUnexpected, HandleTerminal
      <3>2. QED
        BY <1>3, <3>1, KillNext DEF PlacesOK
    <2>3. QED
      BY <2>1, <2>2
  <1>5. QED
    BY <1>1, <1>2, <1>4, DropCounts

\* chunk.started adds one start to a generation-0 chunk.
LEMMA StartedAgain ==
    ASSUME NEW x \in Chunk, chunkStats[x] \in [Counter -> Nat],
           NEW n \in Nat, Stands(chunkStats[x], x, n, FALSE), chunk[x].err = "nil"
    PROVE  Stands(Started(x), x, n + 1, FALSE)
  <1> DEFINE d == Duration(x)
             old == chunkStats[x]
             new == Started(x)
  <1>1. d \in Nat
    BY ChunkDuration
  <1>2. new = Count(old, IF GenZero(x) THEN {"started"} ELSE {}, d)
    BY DEF Started
  <1>3. /\ new.requested = old.requested
        /\ new.started = old.started + (IF GenZero(x) THEN d ELSE 0)
        /\ new.done = old.done /\ new.failed = old.failed /\ new.maxed = old.maxed
        /\ old.started \in Nat
    BY <1>1, <1>2, CountFields
  <1>4. /\ old.started = IF GenZero(x) THEN n * d ELSE 0
        /\ old.done = 0 /\ old.maxed <= old.done
        /\ old.requested = 0 /\ old.failed = 0
    BY DEF Stands
  <1> HIDE DEF old, new, d
  <1>5. (n + 1) * d = (n * d) + d
    BY <1>1
  <1>6. new.started = IF GenZero(x) THEN (n + 1) * d ELSE 0
    BY <1>1, <1>3, <1>4, <1>5
  <1>7. QED
    BY <1>3, <1>4, <1>6 DEF Stands, old, new, d

\* The manager learns that a chunk was started.
LEMMA StartedCounts ==
    ASSUME PlacesOK, RangesFresh, StatsType, ChunksCounted, CountStarted
    PROVE  ChunksCounted' /\ RestartsKept
  <1>1. /\ update # <<>> /\ update' = Tail(update)
        /\ UNCHANGED <<ring, remote, ready, stream>>
        /\ chunk[Updated].state = "started"
        /\ chunk' = [chunk EXCEPT ![Updated].state = "polling"]
        /\ in' = [in EXCEPT !["poller"] = Append(@, Updated)]
        /\ chunkStats' = [chunkStats EXCEPT ![Updated] = Started(Updated)]
    BY DEF CountStarted, HandleChunkStarted, Receive, workerVars
  <1>2. PICK x : x = Updated
    OBVIOUS
  <1>3. /\ x \in Chunk /\ chunk \in [Chunk -> ChunkFields]
        /\ chunk[x] \in ChunkFields /\ Counted(x, "update")
    BY <1>1, <1>2, ReceivedCounts
  <1>4. /\ chunk'[x].state = "polling" /\ chunk'[x].restart = chunk[x].restart
        /\ \A c \in Chunk \ {x} : chunk'[c] = chunk[c]
        /\ chunkStats'[x] = Started(x) /\ chunkStats[x] \in [Counter -> Nat]
        /\ chunk[x].restart \in Nat
    BY <1>1, <1>2, <1>3 DEF ChunkFields, StatsType
  <1>5. OthersCount(x) /\ SameNext
    BY <1>1, <1>2, <1>3, <1>4 DEF OthersCount, SameNext, StatsType
  <1>6. /\ Stands(chunkStats[x], x, chunk[x].restart, FALSE)
        /\ chunk[x].err = "nil"
    BY <1>1, <1>2, <1>3 DEF Counted, CountFits
  <1>7. Stands(Started(x), x, chunk[x].restart + 1, FALSE)
    BY <1>3, <1>4, <1>6, StartedAgain
  <1>8. Counted(x, "poll")'
    BY <1>4, <1>7 DEF Counted, CountFits
  <1>9. "poller" \in Worker /\ Channel("poller") = "poll"
    BY DEF Worker, Channel
  <1>10. QED
    BY <1>1, <1>2, <1>4, <1>5, <1>8, <1>9, LoopCounts

\* Chunks that go back to the ready ring.
LEMMA RequeueCounts ==
    ASSUME PlacesOK, RangesFresh, ChunksCounted, UNCHANGED chunkStats,
           HandleReduceParallel \/ HandleRestart
    PROVE  ChunksCounted' /\ RestartsKept
  <1>1. /\ update # <<>> /\ update' = Tail(update)
        /\ UNCHANGED <<ring, remote, in, stream>>
        /\ ready' = Append(ready, Updated)
    BY DEF HandleReduceParallel, HandleRestart, Receive, workerVars
  <1>2. PICK x : x = Updated
    OBVIOUS
  <1>3. /\ x \in Chunk /\ chunk \in [Chunk -> ChunkFields]
        /\ Counted(x, "update")
    BY <1>1, <1>2, ReceivedCounts
  <1>4. \/ chunk[x].state = "starting" /\ UNCHANGED chunk
        \/ /\ chunk[x].state = "polling" /\ chunk[x].err = "errRestartChunk"
           /\ chunk' = [chunk EXCEPT ![x].err = "nil"]
    BY <1>2 DEF HandleReduceParallel, HandleRestart, Receive
  <1>5. /\ chunk'[x].state = chunk[x].state /\ chunk'[x].state # "created"
        /\ chunk'[x].restart = chunk[x].restart
        /\ \A c \in Chunk \ {x} : chunk'[c] = chunk[c]
    <2>1. CASE UNCHANGED chunk
      BY <1>4, <2>1
    <2>2. CASE chunk' = [chunk EXCEPT ![x].err = "nil"]
      BY <1>3, <1>4, <2>2, ErrSet
    <2>3. QED
      BY <1>4, <2>1, <2>2
  <1>6. OthersCount(x) /\ SameNext
    BY <1>1, <1>5 DEF OthersCount, SameNext
  <1>7. Stands(chunkStats[x], x, chunk[x].restart, FALSE)
    BY <1>3, <1>4 DEF Counted, CountFits
  <1>8. Counted(x, "ready")'
    BY <1>5, <1>7 DEF Counted, CountFits
  <1>9. QED
    BY <1>1, <1>2, <1>5, <1>6, <1>8, LoopCounts

\* The loop fills the channel of the starter, from the ring or from a query.
LEMMA FillReadyCounts ==
    ASSUME PlacesOK, RangesFresh, ChunksCounted, UNCHANGED chunkStats, FillReady
    PROVE  ChunksCounted' /\ RestartsKept
  <1>1. PICK x : x = Head(ready)
    OBVIOUS
  <1>2. /\ ready # <<>> /\ ready' = Tail(ready)
        /\ chunk' = [chunk EXCEPT ![x].state = "starting"]
        /\ in' = [in EXCEPT !["starter"] = Append(@, x)]
        /\ UNCHANGED <<ring, update, stream>>
    BY <1>1 DEF FillReady, Launch, workerVars
  <1>3. /\ IndTypeOK /\ OneSpot
        /\ chunk \in [Chunk -> ChunkFields] /\ in \in [Worker -> Seq(Chunk)]
    BY DEF PlacesOK, IndTypeOK, TypeOK
  <1>4. /\ Queues["ready"] = ready /\ "ready" \in Place /\ "start" \in Place
        /\ "ready" \in Whereabouts /\ "start" \in Whereabouts
    BY DEF Queues, Place, Whereabouts
  <1>5. x \in Chunk /\ At(x, "ready")
    BY <1>1, <1>2, <1>3, <1>4, HeadAt
  <1>6. Moves("ready", "start")
    <2>1. \A u \in Place \ {"ready", "start"} : Queues'[u] = Queues[u]
      BY <1>2, <1>3 DEF Queues, Place, Worker
    <2>2. /\ Queues'["ready"] = Tail(ready)
          /\ Queues'["start"] = Append(Queues["start"], x)
      BY <1>2, <1>3 DEF Queues, Worker
    <2>3. QED
      BY <1>1, <1>2, <1>4, <2>1, <2>2 DEF Moves, TakesFrom
  <1>7. Goes(x, "ready", "start")
    BY <1>1, <1>3, <1>4, <1>6, MoveGoes
  <1>8. /\ chunk'[x].state = "starting" /\ chunk'[x].restart = chunk[x].restart
        /\ \A c \in Chunk \ {x} : chunk'[c] = chunk[c]
    BY <1>2, <1>3, <1>5 DEF ChunkFields
  <1>9. OthersCount(x) /\ SameNext
    BY <1>2, <1>8 DEF OthersCount, SameNext
  <1>10. Stands(chunkStats[x], x, chunk[x].restart, FALSE)
    BY <1>4, <1>5 DEF ChunksCounted, Counted, CountFits
  <1>11. Counted(x, "start")'
    BY <1>8, <1>10 DEF Counted, CountFits
  <1>12. QED
    BY <1>3, <1>4, <1>7, <1>8, <1>9, <1>11, StepCounts

\* A chunk nobody has used.
LEMMA NothingCounted ==
    ASSUME ChunksCounted, NEW c \in Chunk, chunk[c].state = "created"
    PROVE  Stands(chunkStats[c], c, chunk[c].restart, FALSE)
  <1>1. chunkStats[c] = NoStats /\ chunk[c].restart = 0
    BY DEF ChunksCounted
  <1>2. /\ NoStats.requested = 0 /\ NoStats.started = 0 /\ NoStats.done = 0
        /\ NoStats.failed = 0 /\ NoStats.maxed = 0
    BY DEF NoStats, Counter
  <1>3. 0 * Duration(c) = 0
    BY ChunkDuration
  <1>4. QED
    BY <1>1, <1>2, <1>3 DEF Stands

\* A new generation-0 chunk starts with no statistics.
LEMMA FillNextCounts ==
    ASSUME PlacesOK, RangesFresh, ChunksCounted, UNCHANGED chunkStats, FillNext
    PROVE  ChunksCounted' /\ RestartsKept
  <1>1. PICK s \in pq :
            /\ stream' = [stream EXCEPT ![s].next = @ + 1]
            /\ Launch(Root(s, stream[s].next))
    BY DEF FillNext
  <1>2. PICK x : x = Root(s, stream[s].next)
    OBVIOUS
  <1>3. /\ UNCHANGED <<ready, ring, update>>
        /\ chunk' = [chunk EXCEPT ![x].state = "starting"]
        /\ in' = [in EXCEPT !["starter"] = Append(@, x)]
    BY <1>1, <1>2 DEF FillNext, Launch, workerVars
  <1>4. /\ IndTypeOK /\ OneSpot
        /\ chunk \in [Chunk -> ChunkFields] /\ in \in [Worker -> Seq(Chunk)]
        /\ s \in Stream /\ stream[s].next < NumRoots(Query[s])
    BY DEF PlacesOK, IndTypeOK, TypeOK, HeapHasRoots
  <1>5. x \in Chunk /\ Unused(x)
    BY <1>2, <1>4, RootUnused
  <1>6. /\ "start" \in Place /\ "start" \in Whereabouts /\ "away" \in Whereabouts
        /\ Queues'["start"] = Append(Queues["start"], x)
        /\ \A u \in Place \ {"start"} : Queues'[u] = Queues[u]
    BY <1>3, <1>4 DEF Queues, Place, Worker, Whereabouts
  <1>7. Goes(x, "away", "start")
    BY <1>4, <1>5, <1>6, CreateGoes DEF Unused
  <1>8. /\ chunk'[x].state = "starting" /\ chunk'[x].restart = chunk[x].restart
        /\ \A c \in Chunk \ {x} : chunk'[c] = chunk[c]
    BY <1>3, <1>4, <1>5 DEF ChunkFields
  <1>9. OthersCount(x)
    BY <1>8 DEF OthersCount
  <1>10. Stands(chunkStats[x], x, chunk[x].restart, FALSE)
    <2>1. chunk[x].state = "created"
      BY <1>5 DEF Unused, NewChunk
    <2>2. QED
      BY <1>5, <2>1, NothingCounted
  <1>11. Counted(x, "start")'
    BY <1>8, <1>10 DEF Counted, CountFits
  <1>12. QED
    BY <1>1, <1>2, <1>4, <1>6, <1>7, <1>8, <1>9, <1>11, StepCounts

\* Sub-chunks start with no statistics, too.
LEMMA SplitCounted ==
    ASSUME PlacesOK, RangesFresh, StatsType, ChunksCounted,
           HandleSplit, NEW st, chunkStats' = [chunkStats EXCEPT ![Updated] = st]
    PROVE  ChunksCounted' /\ RestartsKept
  <1>1. PICK x : x = Updated
    OBVIOUS
  <1> DEFINE kids == Children(x)
  <1>2. /\ x \in Chunk /\ chunk[x].state = "polling"
        /\ kids \in Seq(Chunk)
        /\ \A c \in Chunk : InSeq(c, kids) => Unused(c)
        /\ chunk' = [chunk EXCEPT ![x].err = "nil"]
        /\ Replaces(x, kids)
    BY <1>1, SplitFacts
  <1>3. stream' = [stream EXCEPT ![x.stream] = Completed(@, Len(kids))]
    BY <1>1 DEF HandleSplit
  <1> HIDE DEF kids
  <1>4. /\ \A u \in Place : ~At(x, u)'
        /\ \A c \in Chunk \ {x}, u \in Place :
              At(c, u)' <=> At(c, u) \/ (u = "ready" /\ InSeq(c, kids))
    BY <1>2 DEF Replaces
  <1>5. /\ stream \in [Stream -> StreamFields] /\ x.stream \in Stream
        /\ chunk \in [Chunk -> ChunkFields]
    BY <1>2, ChunkElim DEF PlacesOK, IndTypeOK, TypeOK
  <1>6. /\ chunk'[x].state = "polling" /\ chunk'[x].restart = chunk[x].restart
        /\ \A c \in Chunk \ {x} : chunk'[c] = chunk[c]
    BY <1>2, <1>5, ErrSet
  <1>7. \A c \in Chunk \ {x} : chunkStats'[c] = chunkStats[c]
    BY <1>1 DEF StatsType
  <1>8. SameNext
    <2>1. Completed(stream[x.stream], Len(kids)).next = stream[x.stream].next
      <3>1. Len(kids) \in Nat
        BY <1>2
      <3>2. QED
        BY <1>5, <3>1, CompletedFields
    <2>2. QED
      BY <1>3, <1>5, <2>1 DEF SameNext
  <1>9. ASSUME NEW u \in Place, NEW c \in Chunk, At(c, u)'
        PROVE  Counted(c, u)'
    <2>1. c # x /\ chunk'[c] = chunk[c] /\ chunkStats'[c] = chunkStats[c]
      BY <1>4, <1>6, <1>7, <1>9
    <2>2. Counted(c, u)
      <3>1. CASE At(c, u)
        BY <3>1 DEF ChunksCounted
      <3>2. CASE u = "ready" /\ InSeq(c, kids)
        <4>1. chunk[c].state = "created"
          BY <1>2, <3>2 DEF Unused, NewChunk
        <4>2. Stands(chunkStats[c], c, chunk[c].restart, FALSE)
          BY <4>1, NothingCounted
        <4>3. QED
          BY <3>2, <4>2 DEF Counted, CountFits
      <3>3. QED
        BY <1>4, <1>9, <2>1, <3>1, <3>2
    <2>3. QED
      BY <2>1, <2>2 DEF Counted
  <1>10. \A c \in Chunk : chunk'[c].state = "created" =>
             chunkStats'[c] = NoStats /\ chunk'[c].restart = 0
    BY <1>6, <1>7 DEF ChunksCounted
  <1>11. ASSUME NEW s \in Stream, NEW i \in 0 .. stream'[s].next - 1
         PROVE  chunk'[Root(s, i)].state # "created"
    <2>1. /\ stream[s].next \in Nat /\ stream[s].next <= NumRoots(Query[s])
          /\ NumRoots(Query[s]) \in Nat /\ stream'[s].next = stream[s].next
      BY <1>8, StreamTypes DEF RangesFresh, PlacesOK, SameNext
    <2>2. Root(s, i) \in Chunk /\ i \in 0 .. stream[s].next - 1
      BY <2>1, RootIsChunk
    <2>3. chunk[Root(s, i)].state # "created"
      BY <2>2 DEF ChunksCounted
    <2>4. QED
      BY <1>6, <2>2, <2>3
  <1>12. ChunksCounted'
    BY <1>9, <1>10, <1>11 DEF ChunksCounted
  <1>13. RestartsKept
    BY <1>6 DEF RestartsKept
  <1>14. QED
    BY <1>12, <1>13

\* The other steps of the loop, the steps of the program, and all steps.
LEMMA LoopUncountedCounts ==
    ASSUME PlacesOK, RangesFresh, StatsType, ChunksCounted,
           UNCHANGED chunkStats, LoopUncounted
    PROVE  ChunksCounted' /\ RestartsKept
  <1>1. CASE HandleStop \/ HandleStopped \/ DrainLive \/ DrainDead
             \/ DrainStopping \/ DrainStop
    <2>1. /\ update # <<>> /\ update' = Tail(update)
          /\ UNCHANGED <<ring, remote, ready>>
          /\ \/ UNCHANGED <<in, chunk>>
             \/ /\ chunk' = [chunk EXCEPT ![Updated].state = "stopping"]
                /\ in' = [in EXCEPT !["stopper"] = Append(@, Updated)]
          /\ UNCHANGED stream \/ KillStream(Updated, "ErrClosed")
      BY <1>1 DEF HandleStop, HandleStopped, DrainLive, DrainDead, DrainStopping,
                  DrainStop, Draining, Receive, StopChunk, workerVars
    <2>2. Updated \in Chunk
      BY <2>1, ReceiveFacts
    <2>3. SameNext
      BY <2>1, <2>2, KillNext DEF SameNext, PlacesOK
    <2>4. QED
      BY <2>1, <2>3, DropCounts
  <1>2. CASE FillDone \/ Exit \/ CloseStreams \/ Stopped
    <2>1. AllStay
      BY <1>2 DEF FillDone, Exit, CloseStreams, Stopped, AllStay, workerVars
    <2>2. SameNext
      <3>1. CASE CloseStreams
        <4>1. \A s \in Stream : stream[s] \in StreamFields
          BY DEF PlacesOK, IndTypeOK, TypeOK
        <4>2. SUFFICES ASSUME NEW s \in Stream
                       PROVE  stream'[s].next = stream[s].next
          BY DEF SameNext
        <4>3. \/ stream'[s] = SetErr(stream[s], "ErrClosed")
              \/ stream'[s] = stream[s]
          BY <3>1 DEF CloseStreams
        <4>4. SetErr(stream[s], "ErrClosed").next = stream[s].next
          BY <4>1, SetErrFields
        <4>5. QED
          BY <4>3, <4>4
      <3>2. CASE ~CloseStreams
        <4>1. UNCHANGED stream
          BY <1>2, <3>2 DEF FillDone, Exit, Stopped
        <4>2. QED
          BY <4>1 DEF SameNext
      <3>3. QED
        BY <3>1, <3>2
    <2>3. QED
      BY <2>1, <2>2, StayCounts
  <1>3. QED
    BY <1>1, <1>2, RequeueCounts, FillReadyCounts, FillNextCounts
       DEF LoopUncounted

LEMMA ProgramCounts ==
    ASSUME IndTypeOK, ChunksCounted, UNCHANGED chunkStats,
           ProgramStep \/ UNCHANGED vars
    PROVE  ChunksCounted' /\ RestartsKept
  <1>1. AllStay
    BY DEF ProgramStep, Close, SubmitQuery, StreamClose, ReadError, vars,
           AllStay, mgrVars, workerVars
  <1>2. stream \in [Stream -> StreamFields]
    BY DEF IndTypeOK, TypeOK
  <1>3. \/ UNCHANGED stream
        \/ \E s \in Stream : stream' = [stream EXCEPT ![s].err = "ErrClosed",
                                                      ![s].blocks = <<>>]
    BY DEF ProgramStep, Close, SubmitQuery, StreamClose, ReadError, vars
  <1>4. SameNext
    <2>1. SUFFICES ASSUME NEW s \in Stream
                   PROVE  stream'[s].next = stream[s].next
      BY DEF SameNext
    <2>2. stream[s] \in StreamFields
      BY <1>2
    <2>3. \/ stream'[s] = stream[s]
          \/ stream'[s] = [stream[s] EXCEPT !.err = "ErrClosed", !.blocks = <<>>]
      BY <1>2, <1>3
    <2>4. QED
      BY <2>2, <2>3 DEF StreamFields
  <1>5. QED
    BY <1>1, <1>4, StayCounts

LEMMA CountsStep ==
    ASSUME PlacesOK, RangesFresh, StatsType, ChunksCounted,
           [StatsNext]_statsVars
    PROVE  ChunksCounted' /\ RestartsKept
  <1>1. CASE UNCHANGED statsVars
    BY <1>1, ProgramCounts DEF statsVars, stats, PlacesOK
  <1>2. ASSUME NEW s \in Stream, CountSubmit(s)
        PROVE  ChunksCounted' /\ RestartsKept
    BY <1>2, ProgramCounts DEF CountSubmit, ProgramStep, PlacesOK
  <1>3. CASE CountCompletion /\ HandleSplit
    BY <1>3, SplitCounted DEF CountCompletion, Killed
  <1>4. CASE LoopUncounted /\ UNCHANGED stats
    BY <1>4, LoopUncountedCounts DEF stats
  <1>5. CASE (StarterStep \/ PollerUncounted \/ StopperStep) /\ UNCHANGED stats
    BY <1>5, WorkerNames, CommonCounts, StarterCounts, PollerCounts,
       StopperCounts DEF stats, StarterStep, PollerUncounted, StopperStep
  <1>6. CASE ProgramUncounted /\ UNCHANGED stats
    BY <1>6, ProgramCounts DEF ProgramUncounted, ProgramStep, PlacesOK, stats
  <1>7. QED
    BY <1>1, <1>2, <1>3, <1>4, <1>5, <1>6, KillsCount, StartedCounts,
       ResultsCount DEF StatsNext

(***************************************************************************)
(* RangeMaxed, RangeDone and RangeStarted of streams and the manager.      *)
(***************************************************************************)

\* The milliseconds of a chunk, and of a set of chunks.
Moments(c) == {c.stream} \X (c.start .. c.end - 1)
MomentsOf(C) == UNION {Moments(c) : c \in C}

\* As many as the chunk is long; no more in a part, less without a chunk that
\* is apart from the others, at most its length more with it.
LEMMA MomentsCount ==
    ASSUME NEW c \in Chunk
    PROVE  IsFiniteSet(Moments(c)) /\ Cardinality(Moments(c)) = Duration(c)
  <1>1. c.start \in Int /\ c.end \in Int /\ c.start < c.end
    BY ChunkElim
  <1>2. /\ IsFiniteSet(c.start .. c.end - 1)
        /\ Cardinality(c.start .. c.end - 1) = c.end - c.start
    <2>1. c.start <= c.end
      BY <1>1
    <2>2. QED
      BY <1>1, <2>1, MillisCount, Zenon
  <1>3. IsFiniteSet({c.stream}) /\ Cardinality({c.stream}) = 1
    BY FS_Singleton
  <1>4. /\ IsFiniteSet(Moments(c))
        /\ Cardinality(Moments(c)) = 1 * (c.end - c.start)
    <2> DEFINE A == {c.stream}
               B == c.start .. c.end - 1
    <2>1. /\ IsFiniteSet(A) /\ IsFiniteSet(B)
          /\ Cardinality(A) = 1 /\ Cardinality(B) = c.end - c.start
      BY <1>2, <1>3
    <2>2. Moments(c) = A \X B
      BY DEF Moments
    <2> HIDE DEF A, B
    <2>3. /\ IsFiniteSet(A \X B)
          /\ Cardinality(A \X B) = Cardinality(A) * Cardinality(B)
      BY <2>1, FS_Product, Zenon
    <2>4. QED
      BY <2>1, <2>2, <2>3, Zenon
  <1>5. QED
    BY <1>1, <1>4 DEF Duration

LEMMA MomentsFinite ==
    ASSUME NEW C \in SUBSET Chunk
    PROVE  /\ IsFiniteSet(MomentsOf(C)) /\ Cardinality(MomentsOf(C)) \in Nat
  <1> DEFINE F == {Moments(c) : c \in C}
             f == [c \in C |-> Moments(c)]
  <1>1. f \in Surjection(C, F)
    BY DEF Surjection
  <1>2. IsFiniteSet(C)
    BY ChunkFinite, FS_Subset
  <1>3. IsFiniteSet(F)
    BY <1>1, <1>2, FS_Surjection
  <1>4. \A M \in F : IsFiniteSet(M)
    BY MomentsCount
  <1> HIDE DEF F
  <1>5. IsFiniteSet(UNION F)
    BY <1>3, <1>4, FS_UNION
  <1>6. QED
    BY <1>5, FS_CardinalityType DEF MomentsOf, F

LEMMA MomentsSub ==
    ASSUME NEW C \in SUBSET Chunk, NEW B, MomentsOf(B) \subseteq MomentsOf(C)
    PROVE  Cardinality(MomentsOf(B)) <= Cardinality(MomentsOf(C))
  BY MomentsFinite, FS_Subset

LEMMA MomentsLess ==
    ASSUME NEW C \in SUBSET Chunk, NEW x \in C,
           \A c \in C \ {x} : c.stream = x.stream => Apart(c, x)
    PROVE  Cardinality(MomentsOf(C \ {x})) + Duration(x)
               <= Cardinality(MomentsOf(C))
  <1> DEFINE A == MomentsOf(C \ {x})
  <1>1. IsFiniteSet(A) /\ IsFiniteSet(Moments(x)) /\ IsFiniteSet(MomentsOf(C))
    BY MomentsFinite, MomentsCount
  <1>2. A \cap Moments(x) = {}
    <2>1. SUFFICES ASSUME NEW m \in A, m \in Moments(x)
                   PROVE  FALSE
      OBVIOUS
    <2>2. PICK c \in C \ {x} : m \in Moments(c)
      BY DEF MomentsOf
    <2>3. /\ m[1] = x.stream /\ m[2] \in x.start .. x.end - 1
          /\ m[1] = c.stream /\ m[2] \in c.start .. c.end - 1
      BY <2>1, <2>2 DEF Moments
    <2>4. /\ c.start \in Int /\ c.end \in Int
          /\ x.start \in Int /\ x.end \in Int
      BY ChunkElim
    <2>5. Apart(c, x)
      BY <2>3
    <2>6. QED
      BY <2>3, <2>4, <2>5 DEF Apart
  <1>3. A \cup Moments(x) \subseteq MomentsOf(C)
    BY DEF MomentsOf
  <1> HIDE DEF A
  <1>4. Cardinality(A \cup Moments(x)) = Cardinality(A) + Cardinality(Moments(x))
    BY <1>1, <1>2, DisjointUnion
  <1>5. Cardinality(A \cup Moments(x)) <= Cardinality(MomentsOf(C))
    BY <1>1, <1>3, FS_Subset
  <1>6. QED
    BY <1>4, <1>5, MomentsCount DEF A

LEMMA MomentsMore ==
    ASSUME NEW C \in SUBSET Chunk, NEW x \in Chunk, NEW B,
           MomentsOf(B) \subseteq MomentsOf(C) \cup Moments(x)
    PROVE  Cardinality(MomentsOf(B)) <= Cardinality(MomentsOf(C)) + Duration(x)
  <1> DEFINE U == MomentsOf(C) \cup Moments(x)
  <1>1. IsFiniteSet(MomentsOf(C)) /\ IsFiniteSet(Moments(x))
    BY MomentsFinite, MomentsCount
  <1>2. /\ IsFiniteSet(U)
        /\ Cardinality(U) = Cardinality(MomentsOf(C)) + Cardinality(Moments(x))
               - Cardinality(MomentsOf(C) \cap Moments(x))
    BY <1>1, FS_Union
  <1>3. Cardinality(MomentsOf(C) \cap Moments(x)) \in Nat
    BY <1>1, FS_Subset, FS_CardinalityType
  <1>4. Cardinality(MomentsOf(B)) <= Cardinality(U)
    BY <1>2, FS_Subset
  <1> HIDE DEF U
  <1>5. Cardinality(MomentsOf(B)) \in Nat
    <2>1. IsFiniteSet(MomentsOf(B))
      BY <1>2, FS_Subset DEF U
    <2>2. QED
      BY <2>1, FS_CardinalityType
  <1>6. Cardinality(MomentsOf(C)) \in Nat /\ Duration(x) \in Nat
    BY MomentsFinite, ChunkDuration
  <1>7. QED
    BY <1>2, <1>3, <1>4, <1>5, <1>6, MomentsCount

\* The sub-chunks of the streams S that are still to complete, and how many
\* milliseconds they are.
SubChunks(S) == {c \in Chunk : c.stream \in S /\ Stage(c) # "out" /\ ~GenZero(c)}
Ahead(S) == Cardinality(MomentsOf(SubChunks(S)))

\* The next value of Ahead, and steps that put no sub-chunk on its way.
LEMMA AheadNext ==
    ASSUME NEW S
    PROVE  LET next == {c \in Chunk : /\ c.stream \in S /\ Stage(c)' # "out"
                                      /\ ~GenZero(c)}
           IN  /\ Ahead(S)' = Cardinality(MomentsOf(next))
               /\ Ahead(S)' \in Nat /\ Ahead(S) \in Nat
               /\ next \in SUBSET Chunk /\ SubChunks(S) \in SUBSET Chunk
  <1> DEFINE next == {c \in Chunk : /\ c.stream \in S /\ Stage(c)' # "out"
                                    /\ ~GenZero(c)}
  <1>1. SubChunks(S)' = next
    BY DEF SubChunks, GenZero
  <1>2. Ahead(S)' = Cardinality(MomentsOf(next))
    BY <1>1 DEF Ahead, MomentsOf, Moments
  <1>3. next \in SUBSET Chunk /\ SubChunks(S) \in SUBSET Chunk
    BY DEF SubChunks
  <1> HIDE DEF next
  <1>4. QED
    BY <1>2, <1>3, MomentsFinite DEF Ahead, next

LEMMA AheadStays ==
    ASSUME NEW S,
           \A c \in Chunk : c.stream \in S /\ Stage(c)' # "out"
                                => Stage(c) # "out" \/ GenZero(c)
    PROVE  Ahead(S)' <= Ahead(S)
  <1> DEFINE next == {c \in Chunk : /\ c.stream \in S /\ Stage(c)' # "out"
                                    /\ ~GenZero(c)}
  <1>1. MomentsOf(next) \subseteq MomentsOf(SubChunks(S))
    BY DEF MomentsOf, SubChunks
  <1>2. Ahead(S)' = Cardinality(MomentsOf(next)) /\ SubChunks(S) \in SUBSET Chunk
    BY AheadNext
  <1> HIDE DEF next
  <1>3. QED
    BY <1>1, <1>2, MomentsSub DEF Ahead

\* A chunk that counts is held.
LEMMA HeldStage ==
    ASSUME NEW c, Stage(c) # "out"
    PROVE  Held(c)
  BY DEF Stage

\* A chunk that leaves takes its milliseconds along if it is a sub-chunk.
LEMMA AheadLeaves ==
    ASSUME RangesFresh, NEW S, NEW x, NEW from, Turns(x, from, "out"),
           from # "out", x.stream \in S
    PROVE  /\ Ahead(S)' <= Ahead(S)
           /\ ~GenZero(x) => Ahead(S)' + Duration(x) <= Ahead(S)
  <1>1. /\ x \in Chunk /\ Held(x) /\ Stage(x) # "out" /\ Stage(x)' = "out"
        /\ \A c \in Chunk \ {x} : Stage(c)' = Stage(c)
    BY DEF Turns
  <1>2. Ahead(S)' <= Ahead(S)
    BY <1>1, AheadStays
  <1>3. CASE ~GenZero(x)
    <2> DEFINE next == {c \in Chunk : /\ c.stream \in S /\ Stage(c)' # "out"
                                      /\ ~GenZero(c)}
               C == SubChunks(S)
    <2>1. C \in SUBSET Chunk /\ Ahead(S)' = Cardinality(MomentsOf(next))
      BY AheadNext
    <2>2. x \in C /\ next = C \ {x}
      BY <1>1, <1>3 DEF SubChunks
    <2>3. \A c \in C \ {x} : c.stream = x.stream => Apart(c, x)
      <3>1. SUFFICES ASSUME NEW c \in C \ {x}, c.stream = x.stream
                     PROVE  Apart(c, x)
        OBVIOUS
      <3>2. c \in Chunk /\ Held(c)
        BY HeldStage DEF SubChunks
      <3>3. Apart(x, c)
        BY <1>1, <3>1, <3>2 DEF RangesFresh
      <3>4. QED
        BY <3>3 DEF Apart
    <2> HIDE DEF next, C
    <2>4. Cardinality(MomentsOf(C \ {x})) + Duration(x) <= Cardinality(MomentsOf(C))
      BY <2>1, <2>2, <2>3, MomentsLess
    <2>5. QED
      BY <1>2, <2>1, <2>2, <2>4 DEF Ahead, C
  <1>4. QED
    BY <1>2, <1>3

\* The sub-chunks of a chunk are ahead in its place, or come on top if it was
\* of generation 0.
LEMMA AheadSplits ==
    ASSUME IndTypeOK, RangesFresh, NEW S, NEW x, SplitUp(x), x.stream \in S
    PROVE  Ahead(S)' <= Ahead(S) + (IF GenZero(x) THEN Duration(x) ELSE 0)
  <1> DEFINE kids == Children(x)
             next == {c \in Chunk : /\ c.stream \in S /\ Stage(c)' # "out"
                                    /\ ~GenZero(c)}
             C == SubChunks(S)
  <1>1. /\ x \in Chunk /\ Stage(x) # "out" /\ Stage(x)' = "out"
        /\ \A c \in Chunk : InSeq(c, kids) => PartOf(c, x)
        /\ \A c \in Chunk \ {x} : ~InSeq(c, kids) => Stage(c)' = Stage(c)
    BY DEF SplitUp
  <1>2. C \in SUBSET Chunk /\ Ahead(S)' = Cardinality(MomentsOf(next))
    BY AheadNext
  <1>3. \A c \in Chunk : InSeq(c, kids) => Moments(c) \subseteq Moments(x)
    <2>1. SUFFICES ASSUME NEW c \in Chunk, PartOf(c, x)
                   PROVE  Moments(c) \subseteq Moments(x)
      BY <1>1
    <2>2. /\ c.stream = x.stream /\ x.start <= c.start /\ c.end <= x.end
          /\ c.start \in Int /\ c.end \in Int /\ x.start \in Int /\ x.end \in Int
      BY <1>1, <2>1, ChunkElim DEF PartOf
    <2>3. c.start .. c.end - 1 \subseteq x.start .. x.end - 1
      BY <2>2
    <2>4. QED
      BY <2>2, <2>3 DEF Moments
  <1>4. MomentsOf(next) \subseteq MomentsOf(C) \cup Moments(x)
    <2>1. SUFFICES ASSUME NEW c \in next
                   PROVE  Moments(c) \subseteq MomentsOf(C) \cup Moments(x)
      BY DEF MomentsOf
    <2>2. c \in Chunk /\ c # x
      BY <1>1
    <2>3. CASE InSeq(c, kids)
      BY <1>3, <2>2, <2>3
    <2>4. CASE ~InSeq(c, kids)
      <3>1. c \in C
        BY <1>1, <2>2, <2>4 DEF SubChunks
      <3>2. QED
        BY <3>1 DEF MomentsOf
    <2>5. QED
      BY <2>3, <2>4
  <1>5. ~GenZero(x) => Moments(x) \subseteq MomentsOf(C)
    BY <1>1 DEF MomentsOf, SubChunks
  <1> HIDE DEF kids, next, C
  <1>6. CASE GenZero(x)
    BY <1>1, <1>2, <1>4, <1>6, MomentsMore DEF Ahead, C
  <1>7. CASE ~GenZero(x)
    <2>1. MomentsOf(next) \subseteq MomentsOf(C)
      BY <1>4, <1>5, <1>7
    <2>2. Cardinality(MomentsOf(next)) <= Cardinality(MomentsOf(C))
      BY <1>2, <2>1, MomentsSub
    <2>3. Cardinality(MomentsOf(C)) \in Nat
      BY <1>2, MomentsFinite
    <2>4. Cardinality(MomentsOf(next)) \in Nat
      BY <1>2, AheadNext
    <2>5. QED
      BY <1>2, <1>7, <2>2, <2>3, <2>4 DEF Ahead, C
  <1>8. QED
    BY <1>6, <1>7

\* What the statistics st of a chunk are good for when it leaves.
Sound(x, st) ==
    /\ st \in [Counter -> Nat] /\ st.requested = 0 /\ st.maxed <= st.done
    /\ st.done \in {0, Duration(x)}
    /\ GenZero(x) => st.done <= st.started

\* A chunk that counts its own starts has sound statistics.
LEMMA StandsSound ==
    ASSUME NEW x \in Chunk, NEW st \in [Counter -> Nat], NEW n \in Nat,
           NEW done \in BOOLEAN, Stands(st, x, n, done), done => n > 0
    PROVE  /\ Sound(x, st) /\ st.failed = 0
           /\ GenZero(x) /\ n > 0 => Duration(x) <= st.started
  <1> DEFINE d == Duration(x)
  <1>1. d \in Nat
    BY ChunkDuration
  <1>2. n > 0 => d <= n * d
    <2>1. SUFFICES ASSUME n > 0
                   PROVE  d <= n * d
      OBVIOUS
    <2>2. PICK k \in Nat : n = k + 1
      <3>1. n - 1 \in Nat /\ n = (n - 1) + 1
        BY <2>1
      <3>2. QED
        BY <3>1
    <2>3. n * d = (k * d) + d /\ k * d \in Nat
      BY <1>1, <2>2
    <2>4. QED
      BY <1>1, <2>3
  <1>3. /\ st.started = IF GenZero(x) THEN n * d ELSE 0
        /\ st.done = IF done THEN d ELSE 0
        /\ st.maxed <= st.done /\ st.requested = 0 /\ st.failed = 0
    BY DEF Stands
  <1>4. st.started \in Nat
    BY DEF Counter
  <1> HIDE DEF d
  <1>5. QED
    BY <1>1, <1>2, <1>3, <1>4 DEF Sound, d

\* The statistics of a chunk that leaves in a step.
LEMMA KillStats ==
    ASSUME PlacesOK, StatsType, ChunksCounted,
           CountStartFailure \/ CountCompletion \/ CountFailure
    PROVE  \E st : /\ Killed(Updated, st) /\ Sound(Updated, st)
                   /\ CountCompletion =>
                         /\ Stands(st, Updated, chunk[Updated].restart + 1,
                                   ~HandleSplit)
                         /\ GenZero(Updated) => Duration(Updated) <= st.started
  <1> DEFINE x == Updated
             old == chunkStats[x]
             n == chunk[x].restart
  <1>1. update # <<>>
    BY DEF CountStartFailure, CountCompletion, CountFailure, HandleStartFailure,
           HandleUnexpected, HandleTerminal, HandleChunkCompletion, HandleSplit,
           Receive
  <1>2. /\ x \in Chunk /\ chunk[x] \in ChunkFields
        /\ Counted(x, "update") /\ Fits(x, "update")
    BY <1>1, ReceivedCounts
  <1>3. n \in Nat /\ old \in [Counter -> Nat] /\ Duration(x) \in Nat
    BY <1>2, ChunkDuration DEF ChunkFields, StatsType
  <1>4. CASE CountStartFailure
    <2>1. /\ chunk[x].state = "starting" /\ Killed(x, Started(x))
      BY <1>4 DEF CountStartFailure, HandleStartFailure, Receive
    <2>2. Stands(old, x, n, FALSE)
      BY <1>2, <2>1 DEF Counted, CountFits
    <2>3. PICK fs : Started(x) = Count(old, fs, Duration(x))
                    /\ fs \subseteq {"started", "failed"}
      BY DEF Started
    <2> DEFINE st == Started(x)
    <2>4. /\ st.requested = old.requested /\ st.done = old.done
          /\ st.maxed = old.maxed /\ st \in [Counter -> Nat]
      BY <1>3, <2>3, CountFields
    <2>5. old.requested = 0 /\ old.done = 0 /\ old.maxed <= old.done
      BY <2>2 DEF Stands
    <2>6. st.started \in Nat
      BY <2>4 DEF Counter
    <2> HIDE DEF st, old
    <2>7. Sound(x, st)
      BY <2>4, <2>5, <2>6 DEF Sound
    <2>8. ~CountCompletion
      BY <2>1 DEF CountCompletion, HandleChunkCompletion, HandleSplit, Receive
    <2>9. QED
      BY <2>1, <2>7, <2>8 DEF st
  <1>5. CASE CountCompletion
    <2>1. /\ Killed(x, old)
          /\ \/ HandleSplit /\ chunk[x].state = "polling"
                /\ chunk[x].err = "errSplitChunk"
             \/ HandleChunkCompletion /\ chunk[x].state = "complete"
      BY <1>5 DEF CountCompletion, HandleChunkCompletion, HandleSplit, Receive
    <2>2. HandleSplit => chunk[x].state = "polling"
      BY DEF HandleSplit, Receive
    <2>3. Stands(old, x, n + 1, ~HandleSplit)
      BY <1>2, <2>1, <2>2 DEF Counted, CountFits
    <2>4. /\ Sound(x, old)
          /\ GenZero(x) /\ n + 1 > 0 => Duration(x) <= old.started
      <3>1. n + 1 \in Nat /\ n + 1 > 0
        BY <1>3
      <3>2. PICK done \in BOOLEAN : done = ~HandleSplit
        OBVIOUS
      <3>3. Stands(old, x, n + 1, done)
        BY <2>3, <3>2
      <3> HIDE DEF n, old
      <3>4. QED
        BY <1>2, <1>3, <3>1, <3>3, StandsSound
    <2>5. QED
      BY <1>3, <2>1, <2>3, <2>4
  <1>6. CASE CountFailure
    <2> DEFINE st == Count(old, {"failed"}, Duration(x))
    <2>1. /\ Killed(x, st) /\ chunk[x].state = "polling"
          /\ chunk[x].err # "errRestartChunk"
      BY <1>6 DEF CountFailure, HandleUnexpected, HandleTerminal, Receive
    <2>2. PICK done \in BOOLEAN : Stands(old, x, n + 1, done)
      BY <1>2, <2>1 DEF Counted, CountFits
    <2>3. Sound(x, old)
      BY <1>2, <1>3, <2>2, StandsSound
    <2>4. /\ st.requested = old.requested /\ st.done = old.done
          /\ st.maxed = old.maxed /\ st.started = old.started
          /\ st \in [Counter -> Nat]
      BY <1>3, CountFields
    <2> HIDE DEF st, old
    <2>5. Sound(x, st)
      BY <2>3, <2>4 DEF Sound
    <2>6. CountCompletion => FALSE
      BY <2>1, <1>6 DEF CountCompletion, CountFailure, HandleChunkCompletion,
                  HandleSplit, HandleUnexpected, HandleTerminal, Receive
    <2>7. QED
      BY <2>1, <2>5, <2>6 DEF st
  <1>7. QED
    BY <1>4, <1>5, <1>6

\* What a chunk that leaves is to the system.
LEMMA KillEffect ==
    ASSUME PlacesOK, RangesFresh,
           CountStartFailure \/ CountCompletion \/ CountFailure
    PROVE  /\ CountCompletion => IF HandleSplit THEN SplitUp(Updated)
                                                ELSE Finishes(Updated)
           /\ ~CountCompletion => GivenUp(Updated)
  BY FailureEffect, CompletionEffect, SplitEffect
     DEF CountStartFailure, CountCompletion, CountFailure

\* What a kill adds to RangeDone, and the sub-chunks it leaves ahead, is paid
\* for by the starts it adds and by the sub-chunks ahead before it.
LEMMA KillAhead ==
    ASSUME PlacesOK, RangesFresh,
           CountStartFailure \/ CountCompletion \/ CountFailure,
           NEW st, Sound(Updated, st),
           CountCompletion =>
               /\ Stands(st, Updated, chunk[Updated].restart + 1, ~HandleSplit)
               /\ GenZero(Updated) => Duration(Updated) <= st.started,
           NEW S, Updated.stream \in S
    PROVE  Ahead(S)' + st.done <= Ahead(S) + st.started
  <1> DEFINE x == Updated
             d == Duration(x)
  <1>1. Ahead(S)' \in Nat /\ Ahead(S) \in Nat
    BY AheadNext
  <1>2. CASE CountCompletion /\ HandleSplit
    <2>1. SplitUp(x) /\ x \in Chunk
      BY <1>2, KillEffect DEF SplitUp
    <2>2. Ahead(S)' <= Ahead(S) + (IF GenZero(x) THEN d ELSE 0)
      BY <2>1, AheadSplits DEF PlacesOK
    <2>3. st.done = 0
      BY <1>2 DEF Stands
    <2>4. GenZero(x) => d <= st.started
      BY <1>2
    <2>5. st.started \in Nat /\ d \in Nat
      BY <2>1, ChunkDuration DEF Sound, Counter
    <2> HIDE DEF d, x
    <2>6. QED
      BY <1>1, <2>2, <2>3, <2>4, <2>5
  <1>3. CASE ~(CountCompletion /\ HandleSplit)
    <2>1. PICK from : from # "out" /\ Turns(x, from, "out")
      BY <1>3, KillEffect DEF GivenUp, Finishes
    <2>2. /\ Ahead(S)' <= Ahead(S)
          /\ ~GenZero(x) => Ahead(S)' + d <= Ahead(S)
      BY <2>1, AheadLeaves
    <2>3. x \in Chunk
      BY <2>1 DEF Turns
    <2>4. /\ st.started \in Nat /\ d \in Nat /\ st.done \in {0, d}
          /\ GenZero(x) => st.done <= st.started
      BY <2>3, ChunkDuration DEF Sound, Counter
    <2> HIDE DEF d, x
    <2>5. QED
      BY <1>1, <2>2, <2>4
  <1>4. QED
    BY <1>2, <1>3

\* It does nothing to another stream.
LEMMA KillElsewhere ==
    ASSUME PlacesOK, RangesFresh, NEW x, NEW s \in Stream, s # x.stream,
           SplitUp(x) \/ Finishes(x) \/ GivenUp(x)
    PROVE  /\ stream'[s] = stream[s]
           /\ \A c \in ChunksOf(s) : Stage(c)' = Stage(c)
           /\ Ahead({s})' <= Ahead({s})
  <1>1. stream'[s] = stream[s]
    <2>1. stream \in [Stream -> StreamFields]
      BY DEF PlacesOK, IndTypeOK, TypeOK
    <2>2. UNCHANGED stream \/ \E st : stream' = [stream EXCEPT ![x.stream] = st]
      BY DEF SplitUp, Finishes, GivenUp, KillStream
    <2>3. QED
      BY <2>1, <2>2
  <1>2. \A c \in Chunk : c.stream = s => Stage(c)' = Stage(c)
    <2>1. SUFFICES ASSUME NEW c \in Chunk, c.stream = s
                   PROVE  Stage(c)' = Stage(c)
      OBVIOUS
    <2>2. c # x
      BY <2>1
    <2>3. CASE SplitUp(x)
      <3>1. ~InSeq(c, Children(x))
        BY <2>1, <2>3 DEF SplitUp, PartOf
      <3>2. QED
        BY <2>2, <2>3, <3>1 DEF SplitUp
    <2>4. CASE Finishes(x) \/ GivenUp(x)
      BY <2>2, <2>4 DEF Finishes, GivenUp, Turns
    <2>5. QED
      BY <2>3, <2>4
  <1>3. Ahead({s})' <= Ahead({s})
    BY <1>2, AheadStays
  <1>4. QED
    BY <1>1, <1>2, <1>3, ChunksOfStream

\* The order of the counters, with n milliseconds of sub-chunks to come.
KeptWith(y, n) == y.maxed <= y.done /\ y.done + n <= y.started

\* A closed stream takes no more statistics.
Due(s) == IF stream[s].err = "ErrClosed" THEN 0 ELSE Ahead({s})

\* StatsOrdered with the milliseconds ahead: these are yet to count as done,
\* while their starts have been counted with the chunk that was split.
CountsOrdered ==
    /\ KeptWith(mgrStats, Ahead(Stream))
    /\ \A s \in Stream : KeptWith(streamStats[s], Due(s))

\* Adding statistics, and having fewer milliseconds ahead, keep the order.
LEMMA KillOrder ==
    ASSUME NEW y \in [Counter -> Nat], NEW st \in [Counter -> Nat],
           NEW n \in Nat, NEW k \in Nat, KeptWith(y, n), st.maxed <= st.done,
           k + st.done <= n + st.started
    PROVE  KeptWith(Plus(y, st), k)
  <1>1. /\ Plus(y, st).maxed = y.maxed + st.maxed
        /\ Plus(y, st).done = y.done + st.done
        /\ Plus(y, st).started = y.started + st.started
    BY PlusType DEF Counter
  <1>2. /\ y.maxed \in Nat /\ y.done \in Nat /\ y.started \in Nat
        /\ st.maxed \in Nat /\ st.done \in Nat /\ st.started \in Nat
    BY DEF Counter
  <1>3. y.maxed <= y.done /\ y.done + n <= y.started
    BY DEF KeptWith
  <1> DEFINE z == Plus(y, st)
  <1>4. z.maxed <= z.done /\ z.done + k <= z.started
    <2> HIDE DEF z
    <2>1. /\ z.maxed = y.maxed + st.maxed /\ z.done = y.done + st.done
          /\ z.started = y.started + st.started
      BY <1>1 DEF z
    <2>2. QED
      BY <1>2, <1>3, <2>1
  <1>5. QED
    BY <1>4 DEF KeptWith

LEMMA KeptLess ==
    ASSUME NEW y \in [Counter -> Nat], NEW n \in Nat, NEW k \in Nat,
           KeptWith(y, n), k <= n
    PROVE  KeptWith(y, k)
  <1>1. y.done \in Nat /\ y.started \in Nat
    BY DEF Counter
  <1>2. QED
    BY <1>1 DEF KeptWith

LEMMA DueNat ==
    ASSUME NEW s
    PROVE  /\ Due(s) \in Nat /\ Due(s)' \in Nat
           /\ Ahead({s})' \in Nat /\ Due(s)' <= Ahead({s})'
  <1>1. Ahead({s}) \in Nat /\ Ahead({s})' \in Nat
    BY AheadNext
  <1>2. QED
    BY <1>1 DEF Due

\* The steps that pass statistics on keep the order.
LEMMA KillOrdered ==
    ASSUME PlacesOK, RangesFresh, StatsType, ChunksCounted, CountsOrdered,
           CountStartFailure \/ CountCompletion \/ CountFailure
    PROVE  CountsOrdered'
  <1> DEFINE x == Updated
  <1>1. PICK st :
            /\ Killed(x, st) /\ Sound(x, st)
            /\ CountCompletion =>
                  /\ Stands(st, x, chunk[x].restart + 1, ~HandleSplit)
                  /\ GenZero(x) => Duration(x) <= st.started
    BY KillStats
  <1>2. /\ st \in [Counter -> Nat] /\ st.maxed <= st.done
        /\ \A S : x.stream \in S => Ahead(S)' + st.done <= Ahead(S) + st.started
    BY <1>1, KillAhead DEF Sound
  <1>3. SplitUp(x) \/ Finishes(x) \/ GivenUp(x)
    BY KillEffect
  <1>4. x \in Chunk /\ x.stream \in Stream
    <2>1. x \in Chunk
      BY <1>3 DEF SplitUp, Finishes, GivenUp, Turns
    <2>2. QED
      BY <2>1, ChunkElim
  <1>5. KeptWith(mgrStats, Ahead(Stream))'
    <2>1. mgrStats' = Plus(mgrStats, st)
      BY <1>1 DEF Killed
    <2>2. KeptWith(Plus(mgrStats, st), Ahead(Stream)')
      BY <1>2, <1>4, AheadNext, KillOrder DEF CountsOrdered, StatsType
    <2>3. QED
      BY <2>1, <2>2 DEF KeptWith
  <1>6. ASSUME NEW s \in Stream
        PROVE  KeptWith(streamStats[s], Due(s))'
    <2>1. KeptWith(streamStats[s], Due(s)) /\ streamStats[s] \in [Counter -> Nat]
      BY DEF CountsOrdered, StatsType
    <2>2. CASE s # x.stream
      <3>1. stream'[s] = stream[s] /\ Ahead({s})' <= Ahead({s})
        BY <1>3, <2>2, KillElsewhere
      <3>2. streamStats'[s] = streamStats[s]
        BY <1>1, <1>2, <1>4, <2>2, KilledStats
      <3>3. Due(s)' <= Due(s)
        BY <3>1 DEF Due
      <3>4. KeptWith(streamStats[s], Due(s)')
        BY <2>1, <3>3, DueNat, KeptLess
      <3>5. QED
        BY <3>2, <3>4 DEF KeptWith
    <2>3. CASE s = x.stream /\ stream[s].err = "ErrClosed"
      <3>1. stream'[s].err = "ErrClosed"
        BY <1>3, <1>4, <2>3, EndedFields, SplitFields, GivenUpFields DEF PlacesOK
      <3>2. streamStats' = streamStats
        BY <1>1, <2>3 DEF Killed
      <3>3. Due(s)' = 0 /\ Due(s) = 0
        BY <2>3, <3>1 DEF Due
      <3>4. KeptWith(streamStats[s], 0)
        BY <2>1, <3>3
      <3>5. QED
        BY <3>2, <3>3, <3>4 DEF KeptWith
    <2>4. CASE s = x.stream /\ stream[s].err # "ErrClosed"
      <3>1. streamStats'[s] = Plus(streamStats[s], st)
        BY <1>1, <1>2, <1>4, <2>4, KilledStats
      <3>2. Due(s) = Ahead({s})
        BY <2>4 DEF Due
      <3>3. Ahead({s})' + st.done <= Ahead({s}) + st.started
        BY <1>2, <2>4
      <3>4. KeptWith(Plus(streamStats[s], st), Ahead({s})')
        BY <1>2, <2>1, <3>2, <3>3, AheadNext, KillOrder
      <3>5. Plus(streamStats[s], st) \in [Counter -> Nat]
        BY <1>2, <2>1, PlusType
      <3>6. KeptWith(Plus(streamStats[s], st), Due(s)')
        <4>1. /\ Due(s)' \in Nat /\ Ahead({s})' \in Nat
              /\ Due(s)' <= Ahead({s})'
          BY DueNat
        <4>2. QED
          BY <3>4, <3>5, <4>1, KeptLess
      <3>7. QED
        BY <3>1, <3>6 DEF KeptWith
    <2>5. QED
      BY <2>2, <2>3, <2>4
  <1>7. QED
    BY <1>5, <1>6 DEF CountsOrdered

\* The steps in which no chunk leaves with its statistics.
Idle ==
    \/ UNCHANGED statsVars
    \/ \E s \in Stream : CountSubmit(s)
    \/ CountStarted \/ \E maxed \in BOOLEAN : CountResults(maxed)
    \/ /\ LoopUncounted \/ StarterStep \/ PollerUncounted \/ StopperStep
          \/ ProgramUncounted
       /\ UNCHANGED stats

\* They leave what streams have counted, reopen none, and move chunks only
\* in ways that put no sub-chunk ahead.
LEMMA IdleCounts ==
    ASSUME Idle
    PROVE  /\ UNCHANGED streamStats
           /\ mgrStats'.started = mgrStats.started
           /\ mgrStats'.done = mgrStats.done
           /\ mgrStats'.maxed = mgrStats.maxed
  <1>1. CASE \E s \in Stream : CountSubmit(s)
    <2>1. PICK s \in Stream : CountSubmit(s)
      BY <1>1
    <2>2. UNCHANGED streamStats
      BY <2>1 DEF CountSubmit
    <2>3. mgrStats' = Count(mgrStats, {"requested"}, streamStats[s].requested)
      BY <2>1 DEF CountSubmit
    <2>4. QED
      BY <2>2, <2>3 DEF Count, Counter
  <1>2. CASE ~\E s \in Stream : CountSubmit(s)
    BY <1>2 DEF Idle, CountStarted, CountResults, stats, statsVars
  <1>3. QED
    BY <1>1, <1>2

LEMMA IdleStream ==
    ASSUME IndTypeOK, Idle, NEW s \in Stream
    PROVE  /\ stream'[s].err \in {stream[s].err, "ErrClosed"}
           /\ stream'[s].m = stream[s].m
  <1>1. stream \in [Stream -> StreamFields]
    BY DEF IndTypeOK, TypeOK
  <1>2. CASE UNCHANGED stream
    BY <1>2
  <1>3. CASE \E maxed \in BOOLEAN : CountResults(maxed)
    <2>1. \/ UNCHANGED stream
          \/ \E r, b : stream' = [stream EXCEPT ![r].blocks = b]
      BY <1>3 DEF CountResults, PollerCompletes, PollerUnexpected
    <2>2. QED
      BY <1>1, <2>1 DEF StreamFields
  <1>4. QED
    BY <1>2, <1>3, UncountedStep
       DEF Idle, statsVars, vars, CountSubmit, SubmitQuery, CountStarted,
           HandleChunkStarted

\* What such a step is to a stream.
LEMMA IdleEffect ==
    ASSUME PlacesOK, RangesFresh, [Next]_vars, Idle, NEW s \in Stream
    PROVE  \/ Unmoved(s)
           \/ \E x \in Chunk : /\ x.stream = s
                               /\ Delivered(x) \/ GivenUp(x) \/ Made(x)
  <1>1. IndTypeOK /\ stream[s].m \in Nat
    BY StreamTypes DEF PlacesOK
  <1>2. stream'[s].m = stream[s].m
    BY <1>1, IdleStream
  <1>3. ASSUME NEW x \in Chunk, x.stream = s, Finishes(x) \/ SplitUp(x)
        PROVE  FALSE
    <2>1. stream'[s].m = stream[s].m + 1
      BY <1>1, <1>3, EndedFields, SplitFields
    <2>2. QED
      BY <1>1, <1>2, <2>1
  <1>4. QED
    BY <1>3, StreamEffect DEF Moved

\* Only generation-0 chunks are new in it.
LEMMA IdleStages ==
    ASSUME PlacesOK, RangesFresh, [Next]_vars, Idle, NEW c \in Chunk,
           Stage(c)' # "out"
    PROVE  Stage(c) # "out" \/ GenZero(c)
  <1> DEFINE s == c.stream
  <1>1. s \in Stream /\ c \in ChunksOf(s)
    BY ChunkElim, ChunksOfStream
  <1>2. CASE Unmoved(s)
    BY <1>1, <1>2 DEF Unmoved
  <1>3. CASE \E x \in Chunk : Delivered(x) \/ GivenUp(x)
    <2>1. PICK x \in Chunk :
              \E from, to : from # "out" /\ Turns(x, from, to)
      BY <1>3 DEF Delivered, GivenUp
    <2>2. QED
      BY <2>1 DEF Turns
  <1>4. CASE \E x \in Chunk : Made(x)
    <2>1. PICK x \in Chunk : Made(x)
      BY <1>4
    <2>2. PICK r \in pq :
              /\ x = Root(r, stream[r].next)
              /\ stream' = [stream EXCEPT ![r].next = @ + 1]
              /\ \A d \in Chunk \ {x} : Stage(d)' = Stage(d)
      BY <2>1 DEF Made
    <2>3. /\ x.stream = r /\ r \in Stream /\ stream[r].next \in Nat
          /\ NumRoots(Query[r]) \in Nat /\ stream[r].next < NumRoots(Query[r])
      <3>1. IndTypeOK
        BY DEF PlacesOK
      <3>2. MakesRoot(r, x)
        BY <2>2 DEF MakesRoot
      <3>3. RootMade(r, x)
        BY <2>2, <3>1, <3>2, MadeFacts
      <3>4. QED
        BY <3>3, Zenon DEF RootMade
    <2>4. GenZero(x)
      <3>1. stream[r].next \in 0 .. NumRoots(QueryOf(x)) - 1
        BY <2>3 DEF QueryOf
      <3>2. QED
        BY <2>2, <2>3, <3>1 DEF GenZero
    <2>5. QED
      BY <2>2, <2>4
  <1>5. QED
    BY <1>1, <1>2, <1>3, <1>4, IdleEffect

\* They keep the order, and with the kills they are all steps.
LEMMA IdleOrdered ==
    ASSUME PlacesOK, RangesFresh, StatsType, [Next]_vars, Idle, CountsOrdered
    PROVE  CountsOrdered'
  <1>1. \A S : Ahead(S)' <= Ahead(S)
    BY IdleStages, AheadStays
  <1>2. KeptWith(mgrStats, Ahead(Stream))'
    <2>1. /\ mgrStats'.started = mgrStats.started
          /\ mgrStats'.done = mgrStats.done /\ mgrStats'.maxed = mgrStats.maxed
      BY IdleCounts
    <2>2. KeptWith(mgrStats, Ahead(Stream)')
      BY <1>1, AheadNext, KeptLess DEF CountsOrdered, StatsType
    <2>3. QED
      BY <2>1, <2>2 DEF KeptWith
  <1>3. ASSUME NEW s \in Stream
        PROVE  KeptWith(streamStats[s], Due(s))'
    <2>1. /\ stream'[s].err \in {stream[s].err, "ErrClosed"}
          /\ streamStats' = streamStats
      BY IdleStream, IdleCounts DEF PlacesOK
    <2>2. Ahead({s})' <= Ahead({s}) /\ Ahead({s}) \in Nat /\ Ahead({s})' \in Nat
      BY <1>1, AheadNext
    <2>3. Due(s)' <= Due(s)
      BY <2>1, <2>2 DEF Due
    <2>4. KeptWith(streamStats[s], Due(s)')
      BY <2>3, DueNat, KeptLess DEF CountsOrdered, StatsType
    <2>5. QED
      BY <2>1, <2>4 DEF KeptWith
  <1>4. QED
    BY <1>2, <1>3 DEF CountsOrdered

LEMMA IdleOrNot ==
    ASSUME [StatsNext]_statsVars
    PROVE  /\ [Next]_vars
           /\ Idle \/ CountStartFailure \/ CountCompletion \/ CountFailure
  BY StatsStepIsStep DEF StatsNext, Idle

LEMMA OrderedStep ==
    ASSUME PlacesOK, RangesFresh, StatsType, ChunksCounted, CountsOrdered,
           [StatsNext]_statsVars
    PROVE  CountsOrdered'
  BY IdleOrNot, IdleOrdered, KillOrdered

\* At first nothing is on its way, and nothing was counted.
LEMMA NothingHeld ==
    ASSUME Init
    PROVE  /\ \A c \in Chunk : Unused(c) /\ Stage(c) = "out"
           /\ \A p \in Place : \A c : ~At(c, p)
  <1>1. \A p \in Place : Queues[p] = <<>>
    BY DEF Init, Queues, Place, Worker
  <1>2. \A p \in Place : \A c : ~At(c, p)
    BY <1>1 DEF At, InSeq
  <1>3. \A c \in Chunk : Unused(c)
    BY <1>2, HeldAt DEF Init, Unused
  <1>4. QED
    BY <1>2, <1>3 DEF Stage, Unused

LEMMA InitCounts == StatsInit => ChunksCounted /\ CountsOrdered
  <1> SUFFICES ASSUME StatsInit PROVE ChunksCounted /\ CountsOrdered
    OBVIOUS
  <1>1. /\ \A c \in Chunk : Unused(c) /\ Stage(c) = "out"
        /\ \A p \in Place : \A c : ~At(c, p)
    BY NothingHeld DEF StatsInit
  <1>2. /\ chunkStats = [c \in Chunk |-> NoStats]
        /\ chunk = [c \in Chunk |-> NewChunk]
        /\ stream = [s \in Stream |-> NewStream(s)]
    BY DEF StatsInit, Init
  <1>3. \A s \in Stream : 0 .. stream[s].next - 1 = {}
    BY <1>2 DEF NewStream
  <1>4. ChunksCounted
    BY <1>1, <1>2, <1>3 DEF ChunksCounted, NewChunk
  <1>5. \A S : Ahead(S) = 0
    <2>1. SUFFICES ASSUME NEW S
                   PROVE  Ahead(S) = 0
      OBVIOUS
    <2>2. SubChunks(S) = {}
      BY <1>1 DEF SubChunks
    <2>3. MomentsOf(SubChunks(S)) = {}
      BY <2>2 DEF MomentsOf
    <2>4. QED
      BY <2>3, FS_EmptySet DEF Ahead
  <1>6. KeptWith(mgrStats, Ahead(Stream))
    BY <1>5 DEF StatsInit, NoStats, Counter, KeptWith
  <1>7. ASSUME NEW s \in Stream
        PROVE  KeptWith(streamStats[s], Due(s))
    <2>1. Due(s) = 0
      BY <1>5 DEF Due
    <2>2. streamStats[s] = Count(NoStats, {"requested"}, Duration(Query[s]))
      BY DEF StatsInit
    <2>3. /\ streamStats[s].maxed = 0 /\ streamStats[s].done = 0
          /\ streamStats[s].started = 0
      BY <2>2 DEF Count, NoStats, Counter
    <2>4. QED
      BY <2>1, <2>3 DEF KeptWith
  <1>8. QED
    BY <1>4, <1>6, <1>7 DEF CountsOrdered

\* The invariant implies the property.
LEMMA OrderIsKept ==
    ASSUME StatsType, CountsOrdered
    PROVE  StatsOrdered
  <1>1. ASSUME NEW y \in [Counter -> Nat], NEW n \in Nat, KeptWith(y, n)
        PROVE  y.maxed <= y.done /\ y.done <= y.started
    <2>1. y.done \in Nat /\ y.started \in Nat
      BY DEF Counter
    <2>2. QED
      BY <1>1, <2>1 DEF KeptWith
  <1>2. Ahead(Stream) \in Nat /\ \A s \in Stream : Due(s) \in Nat
    BY AheadNext, DueNat
  <1>3. QED
    BY <1>1, <1>2 DEF CountsOrdered, StatsType, StatsOrdered

\* RangeMaxed never exceeds RangeDone, nor that RangeStarted, in a stream or
\* the manager, though sub-chunks count as done and not as started.
THEOREM StatsInOrder == StatsSpec => []StatsOrdered
  <1>1. IndInv => PlacesOK /\ RangesFresh /\ IndTypeOK
    BY DEF IndInv, PlacesOK
  <1>2. IndInv /\ StatsType /\ ChunksCounted /\ CountsOrdered
            /\ [StatsNext]_statsVars
            => StatsType' /\ ChunksCounted' /\ CountsOrdered'
    BY <1>1, StatsStep, CountsStep, OrderedStep
  <1>3. QED
    BY <1>2, InitStats, InitCounts, OrderIsKept, StatsImplement, Invariant, PTL
       DEF StatsSpec

(***************************************************************************)
(* RangeDone, RangeStarted and RangeFailed of streams at EOF.              *)
(***************************************************************************)

\* Generation-0 chunks that were made, and those of them that have left.
WasMade(s, c) == \E i \in 0 .. stream[s].next - 1 : c = Root(s, i)
Settled(s) == {c \in ChunksOf(s) : Stage(c) = "out" /\ WasMade(s, c)}

\* The milliseconds of a query that are not yet counted as done.
Opened(s) ==
    {t \in Times(s) : \/ MadeUpTo(s) <= t
                      \/ \E c \in ChunksOf(s) : Stage(c) # "out" /\ Covers(c, t)}

\* The statistics of a stream none of whose chunks was given up are exact.
StatsExact(s) ==
    /\ streamStats[s].requested = Duration(Query[s])
    /\ Intact(s) /\ stream[s].err # "ErrClosed" =>
          /\ streamStats[s].failed = 0
          /\ streamStats[s].done + Cardinality(Opened(s)) = Duration(Query[s])
          /\ streamStats[s].started = Attempted(Settled(s))

\* Both sets after a step.
LEMMA SettledNext ==
    ASSUME NEW s
    PROVE  /\ Settled(s)' = {c \in ChunksOf(s) :
                                /\ Stage(c)' = "out"
                                /\ \E i \in 0 .. stream'[s].next - 1 : c = Root(s, i)}
           /\ Opened(s)' = {t \in Times(s) :
                               \/ MadeUpTo(s)' <= t
                               \/ \E c \in ChunksOf(s) : Stage(c)' # "out" /\ Covers(c, t)}
  BY DEF Settled, WasMade, Opened, ChunksOf, Times, Covers, Root

\* A stream whose chunks neither come nor leave stays exact.
LEMMA ExactlySame ==
    ASSUME NEW s \in Stream, StatsExact(s), RestartsKept,
           streamStats'[s] = streamStats[s],
           Opened(s)' = Opened(s), Settled(s)' = Settled(s),
           Intact(s)' /\ stream'[s].err # "ErrClosed"
               => Intact(s) /\ stream[s].err # "ErrClosed"
    PROVE  StatsExact(s)'
  <1>1. Attempted(Settled(s))' = Attempted(Settled(s))
    <2>1. \A c \in Settled(s) : c \in Chunk /\ Stage(c) = "out"
      BY ChunksOfStream DEF Settled
    <2>2. \A c \in Settled(s) : chunk'[c].restart = chunk[c].restart
      BY <2>1 DEF RestartsKept
    <2>3. Attempted(Settled(s))' = Sums!SumFunction(
              [c \in Settled(s)' |-> (1 + chunk'[c].restart) * Duration(c)])
      BY DEF Attempted, Duration
    <2>4. [c \in Settled(s)' |-> (1 + chunk'[c].restart) * Duration(c)]
            = [c \in Settled(s) |-> (1 + chunk[c].restart) * Duration(c)]
      BY <2>2
    <2>5. QED
      BY <2>3, <2>4 DEF Attempted
  <1>2. Duration(Query[s])' = Duration(Query[s])
    BY DEF Duration
  <1>3. QED
    BY <1>1, <1>2 DEF StatsExact

\* When that is the case.
LEMMA SameStages ==
    ASSUME NEW s \in Stream,
           \A c \in ChunksOf(s) : Stage(c)' = "out" <=> Stage(c) = "out",
           stream'[s].next = stream[s].next
    PROVE  /\ Opened(s)' = Opened(s) /\ Settled(s)' = Settled(s)
           /\ Owed(s)' = Owed(s)
  <1>1. MadeUpTo(s)' = MadeUpTo(s)
    BY DEF MadeUpTo
  <1>2. Owed(s)' = Owed(s)
    BY OwedStage
  <1>3. QED
    BY <1>1, <1>2, SettledNext DEF Opened, Settled, WasMade

LEMMA SameIntact ==
    ASSUME NEW s \in Stream, Owed(s)' = Owed(s),
           stream'[s].next = stream[s].next,
           stream'[s].n = stream[s].n, stream'[s].m = stream[s].m
    PROVE  Intact(s)' <=> Intact(s)
  BY DEF Intact, Expected, Missing

\* A new generation-0 chunk changes nothing either.
LEMMA MadeSame ==
    ASSUME IndTypeOK, RangesFresh, ChunksCounted, NEW s \in Stream,
           NEW x \in Chunk, x.stream = s, Made(x)
    PROVE  /\ Opened(s)' = Opened(s) /\ Settled(s)' = Settled(s)
           /\ Intact(s)' <=> Intact(s)
  <1>1. PICK u \in pq :
            /\ x = Root(u, stream[u].next)
            /\ Unused(x) /\ Stage(x)' = "pending"
            /\ \A c \in Chunk \ {x} : Stage(c)' = Stage(c)
            /\ stream' = [stream EXCEPT ![u].next = @ + 1]
    BY DEF Made
  <1>2. u = s
    BY <1>1 DEF Root
  <1>3. /\ stream'[s].next = stream[s].next + 1
        /\ MadeUpTo(s) = x.start /\ MadeUpTo(s)' = x.end
        /\ stream[s].next \in Nat /\ NumRoots(Query[s]) \in Nat
    <2>1. s \in pq /\ MakesRoot(s, x)
      BY <1>1, <1>2 DEF MakesRoot
    <2>2. RootMade(s, x)
      BY <2>1, MadeFacts
    <2>3. QED
      BY <2>2, Zenon DEF RootMade
  <1>4. stream'[s].n = stream[s].n /\ stream'[s].m = stream[s].m
    BY <1>1, <1>2, StreamTypes DEF StreamFields
  <1>5. /\ x \in ChunksOf(s) /\ \A c \in ChunksOf(s) \ {x} : Stage(c)' = Stage(c)
        /\ Stage(x) = "out" /\ Stage(x)' # "out"
    BY <1>1, ChunksOfStream DEF Unused, Stage
  <1>6. Opened(s)' = Opened(s)
    <2>1. \A t \in Times(s) :
              x.start <= t <=> x.end <= t \/ Covers(x, t)
      <3>1. /\ x.start \in Int /\ x.end \in Int /\ x.start < x.end
            /\ Times(s) \subseteq Int
        BY ChunkElim, StreamTypes
      <3>2. QED
        BY <3>1 DEF Covers
    <2>2. \A t \in Times(s) :
              \/ MadeUpTo(s)' <= t
              \/ \E c \in ChunksOf(s) : Stage(c)' # "out" /\ Covers(c, t)
              <=> \/ MadeUpTo(s) <= t
                  \/ \E c \in ChunksOf(s) : Stage(c) # "out" /\ Covers(c, t)
      BY <1>3, <1>5, <2>1
    <2>3. QED
      BY <2>2, SettledNext DEF Opened
  <1>7. Settled(s)' = Settled(s)
    <2>1. ASSUME NEW c \in Settled(s)
          PROVE  c \in Settled(s)'
      <3>1. PICK i \in 0 .. stream[s].next - 1 : c = Root(s, i)
        BY DEF Settled, WasMade
      <3>2. chunk[c].state # "created"
        BY <3>1 DEF ChunksCounted
      <3>3. c # x
        BY <1>1, <3>2 DEF Unused, NewChunk
      <3>4. i \in 0 .. stream'[s].next - 1
        BY <1>3
      <3>5. c \in ChunksOf(s) /\ Stage(c) = "out"
        BY DEF Settled
      <3>6. QED
        BY <1>5, <3>1, <3>3, <3>4, <3>5, SettledNext
    <2>2. ASSUME NEW c \in Settled(s)'
          PROVE  c \in Settled(s)
      <3>1. /\ c \in ChunksOf(s) /\ Stage(c)' = "out"
            /\ \E i \in 0 .. stream'[s].next - 1 : c = Root(s, i)
        BY SettledNext
      <3>2. PICK i \in 0 .. stream'[s].next - 1 : c = Root(s, i)
        BY <3>1
      <3>3. c # x /\ Stage(c) = "out"
        BY <1>5, <3>1
      <3>4. i # stream[s].next
        BY <1>1, <1>2, <3>2, <3>3
      <3>5. i \in 0 .. stream[s].next - 1
        BY <1>3, <3>4
      <3>6. QED
        BY <3>1, <3>2, <3>3, <3>5 DEF Settled, WasMade
    <2>3. QED
      BY <2>1, <2>2
  <1>8. /\ Cardinality(Owed(s)') = Cardinality(Owed(s)) + 1
        /\ Cardinality(Owed(s)) \in Nat
    BY <1>5, ExpectedOne
  <1>9. Missing(s)' = Missing(s) /\ Expected(s)' = Expected(s)
    BY <1>3, <1>4, <1>8 DEF Missing, Expected
  <1>10. QED
    BY <1>6, <1>7, <1>9 DEF Intact

\* A step that passes no statistics on keeps the statistics exact.
LEMMA IdleExact ==
    ASSUME IndInv, [Next]_vars, ChunksCounted, RestartsKept, Idle,
           NEW s \in Stream, StatsExact(s)
    PROVE  StatsExact(s)'
  <1>1. PlacesOK /\ RangesFresh /\ IndTypeOK /\ StreamExact(s)
    BY DEF IndInv, PlacesOK, StreamsExact
  <1>2. /\ stream'[s].err # "ErrClosed" => stream[s].err # "ErrClosed"
        /\ stream'[s].m = stream[s].m /\ streamStats'[s] = streamStats[s]
    BY <1>1, IdleStream, IdleCounts
  <1>3. CASE \/ Unmoved(s)
             \/ \E x \in Chunk : x.stream = s /\ Delivered(x)
    <2>1. /\ \A c \in ChunksOf(s) : Stage(c)' = "out" <=> Stage(c) = "out"
          /\ stream'[s].next = stream[s].next /\ stream'[s].n = stream[s].n
      <3>1. CASE Unmoved(s)
        BY <3>1 DEF Unmoved
      <3>2. CASE \E x \in Chunk : x.stream = s /\ Delivered(x)
        <4>1. PICK x \in Chunk : x.stream = s /\ Delivered(x)
          BY <3>2
        <4>2. \A c \in ChunksOf(s) : Stage(c)' = "out" <=> Stage(c) = "out"
          BY <4>1, ChunksOfStream DEF Delivered, Turns
        <4>3. /\ stream'[s].next = stream[s].next
              /\ stream'[s].n = stream[s].n
          BY <1>1, <4>1, StreamTypes DEF Delivered, StreamFields
        <4>4. QED
          BY <4>2, <4>3
      <3>3. QED
        BY <1>3, <3>1, <3>2
    <2>2. /\ Opened(s)' = Opened(s) /\ Settled(s)' = Settled(s)
          /\ Owed(s)' = Owed(s)
      BY <2>1, SameStages
    <2>3. Intact(s)' <=> Intact(s)
      BY <1>2, <2>1, <2>2, SameIntact
    <2>4. QED
      BY <1>2, <2>2, <2>3, ExactlySame
  <1>4. CASE \E x \in Chunk : x.stream = s /\ GivenUp(x)
    <2>1. Missing(s)' = Missing(s) /\ Expected(s)' = Expected(s) - 1
          /\ Missing(s) \in Int /\ Expected(s) \in Int
      BY <1>1, <1>4, GivenUpCounts
    <2>2. ~Intact(s)'
      BY <1>1, <2>1 DEF Intact, StreamExact
    <2>3. Duration(Query[s])' = Duration(Query[s])
      BY DEF Duration
    <2>4. QED
      BY <1>2, <2>2, <2>3 DEF StatsExact
  <1>5. CASE \E x \in Chunk : x.stream = s /\ Made(x)
    <2>1. /\ Opened(s)' = Opened(s) /\ Settled(s)' = Settled(s)
          /\ Intact(s)' <=> Intact(s)
      BY <1>1, <1>5, MadeSame
    <2>2. QED
      BY <1>2, <2>1, ExactlySame
  <1>6. QED
    BY <1>1, <1>3, <1>4, <1>5, IdleEffect

(* A chunk leaves. *)

\* The sets are finite.
LEMMA OpenedFinite ==
    ASSUME NEW s \in Stream
    PROVE  /\ IsFiniteSet(Opened(s)) /\ Cardinality(Opened(s)) \in Nat
           /\ Cardinality(Opened(s)') \in Nat
  <1>1. IsFiniteSet(Times(s))
    <2>1. /\ Query[s].start \in Int /\ Query[s].end \in Int
          /\ Query[s].start <= Query[s].end
      BY StreamQuery, QueryDurations
    <2>2. QED
      BY <2>1, MillisCount, Zenon DEF Times
  <1>2. Opened(s) \subseteq Times(s) /\ Opened(s)' \subseteq Times(s)
    BY SettledNext DEF Opened
  <1>3. /\ IsFiniteSet(Opened(s)) /\ IsFiniteSet(Opened(s)')
    BY <1>1, <1>2, FS_Subset
  <1>4. QED
    BY <1>3, FS_CardinalityType

LEMMA SettledFinite ==
    ASSUME NEW s \in Stream
    PROVE  /\ IsFiniteSet(Settled(s)) /\ IsFiniteSet(Settled(s)')
           /\ Settled(s) \in SUBSET Chunk /\ Settled(s)' \in SUBSET Chunk
  <1>1. Settled(s) \subseteq ChunksOf(s) /\ Settled(s)' \subseteq ChunksOf(s)
    BY SettledNext DEF Settled
  <1>2. QED
    BY <1>1, ChunksOfFinite, ChunksOfStream, FS_Subset

\* A generation-0 chunk that is held was made.
LEMMA HeldWasMade ==
    ASSUME IndTypeOK, RangesFresh, NEW s \in Stream, NEW x \in Chunk,
           x.stream = s, Held(x)
    PROVE  GenZero(x) <=> WasMade(s, x)
  <1>1. stream[s].next \in Nat /\ NumRoots(Query[s]) \in Nat
    BY StreamTypes
  <1>2. ASSUME GenZero(x)
        PROVE  WasMade(s, x)
    <2>1. PICK i \in 0 .. NumRoots(Query[s]) - 1 : x = Root(s, i)
      BY <1>2 DEF GenZero, QueryOf
    <2>2. CASE i < stream[s].next
      BY <1>1, <2>1, <2>2 DEF WasMade
    <2>3. CASE ~(i < stream[s].next)
      <3>1. x \in Unmade(s)
        BY <1>1, <2>1, <2>3 DEF Unmade
      <3>2. MadeUpTo(x.stream) <= x.start
        BY <3>1, UnmadeAhead
      <3>3. QED
        BY <3>2 DEF RangesFresh, Unused
    <2>4. QED
      BY <2>2, <2>3
  <1>3. ASSUME WasMade(s, x)
        PROVE  GenZero(x)
    <2>1. PICK i \in 0 .. stream[s].next - 1 : x = Root(s, i)
      BY <1>3 DEF WasMade
    <2>2. stream[s].next <= NumRoots(Query[s])
      BY DEF RangesFresh
    <2>3. i \in 0 .. NumRoots(QueryOf(x)) - 1
      BY <1>1, <2>2 DEF QueryOf
    <2>4. QED
      BY <2>1, <2>3 DEF GenZero
  <1>4. QED
    BY <1>2, <1>3

\* It adds its starts to what the stream has attempted.
LEMMA OneAttempted ==
    ASSUME NEW x \in Chunk, NEW S \in SUBSET Chunk, x \notin S,
           \A c \in S \cup {x} : /\ chunk'[c].restart = chunk[c].restart
                                 /\ chunk[c].restart \in Nat
    PROVE  Sums!SumFunction([c \in S \cup {x} |->
                                (1 + chunk'[c].restart) * Duration(c)])
             = (chunk[x].restart + 1) * Duration(x) + Attempted(S)
  <1> DEFINE D == S \cup {x}
  <1>1. IsFiniteSet(D) /\ D \ {x} = S /\ x \in D
    BY ChunkFinite, FS_Subset
  <1>2. \A c \in D : /\ (1 + chunk'[c].restart) * Duration(c) \in Int
                     /\ (1 + chunk[c].restart) * Duration(c) \in Int
                     /\ chunk'[c].restart = chunk[c].restart
                     /\ chunk[c].restart \in Nat /\ Duration(c) \in Nat
    <2>1. \A c \in D : /\ c \in Chunk /\ Duration(c) \in Nat
                       /\ chunk[c].restart \in Nat
                       /\ chunk'[c].restart = chunk[c].restart
      BY ChunkDuration
    <2>2. QED
      BY <2>1
  <1>3. PICK f : f = [c \in D |-> (1 + chunk'[c].restart) * Duration(c)]
    OBVIOUS
  <1>4. PICK e : e = [c \in D \ {x} |-> (1 + chunk[c].restart) * Duration(c)]
    OBVIOUS
  <1>5. f \in [D -> Int]
    BY <1>2, <1>3
  <1>6. e \in [D \ {x} -> Int]
    BY <1>2, <1>4
  <1>7. \A c \in D \ {x} : e[c] = f[c]
    BY <1>2, <1>3, <1>4
  <1>8. f[x] = (chunk[x].restart + 1) * Duration(x)
    BY <1>1, <1>2, <1>3
  <1>9. e = [c \in S |-> (1 + chunk[c].restart) * Duration(c)]
    BY <1>1, <1>4
  <1>10. IsFiniteSet(D) /\ x \in D
    BY <1>1
  <1> HIDE DEF D
  <1>11. Sums!SumFunction(f) = f[x] + Sums!SumFunction(e)
    BY <1>5, <1>6, <1>7, <1>10, SumOneMore
  <1>12. QED
    BY <1>3, <1>8, <1>9, <1>11 DEF Attempted, D

\* A chunk that completes or is split is settled if it is of generation 0;
\* split, its milliseconds stay open, done, they are closed.
LEMMA LeftSettled ==
    ASSUME IndTypeOK, RangesFresh, ChunksCounted, NEW s \in Stream,
           NEW x \in Chunk, x.stream = s, Finishes(x) \/ SplitUp(x)
    PROVE  /\ x \notin Settled(s)
           /\ Settled(s)' = Settled(s) \cup (IF GenZero(x) THEN {x} ELSE {})
  <1> DEFINE kids == IF SplitUp(x) THEN {c \in Chunk : InSeq(c, Children(x))} ELSE {}
  <1>1. /\ Held(x) /\ Stage(x) # "out" /\ Stage(x)' = "out" /\ x \in ChunksOf(s)
        /\ \A c \in Chunk \ {x} : c \notin kids => Stage(c)' = Stage(c)
        /\ \A c \in kids : Unused(c) /\ Stage(c)' # "out" /\ c \in Chunk
    <2>1. x \in ChunksOf(s)
      BY ChunksOfStream
    <2>2. CASE SplitUp(x)
      BY <2>1, <2>2 DEF SplitUp
    <2>3. CASE ~SplitUp(x)
      BY <2>1, <2>3 DEF Finishes, Turns
    <2>4. QED
      BY <2>2, <2>3
  <1>2. stream'[s].next = stream[s].next
    BY EndedFields, SplitFields
  <1>3. \A c \in kids : ~WasMade(s, c)
    BY <1>1 DEF Unused, NewChunk, WasMade, ChunksCounted
  <1>4. GenZero(x) <=> WasMade(s, x)
    BY <1>1, HeldWasMade
  <1>5. Settled(s)' = {c \in ChunksOf(s) : Stage(c)' = "out" /\ WasMade(s, c)}
    BY <1>2, SettledNext DEF WasMade
  <1>6. \A c \in ChunksOf(s) : c \in Chunk
    BY ChunksOfStream
  <1> HIDE DEF kids
  <1>7. x \notin Settled(s)
    BY <1>1 DEF Settled
  <1>8. \A c \in ChunksOf(s) \ {x} : WasMade(s, c) => Stage(c)' = Stage(c)
    BY <1>1, <1>3, <1>6
  <1>9. \A c : c \in Settled(s)' <=> c \in Settled(s) \/ (c = x /\ GenZero(x))
    BY <1>1, <1>4, <1>5, <1>8 DEF Settled
  <1>10. QED
    BY <1>7, <1>9

LEMMA SplitOpened ==
    ASSUME IndTypeOK, RangesFresh, NEW s \in Stream,
           NEW x \in Chunk, x.stream = s, SplitUp(x)
    PROVE  Opened(s)' = Opened(s)
  <1> DEFINE kids == Children(x)
  <1>1. /\ Stage(x) # "out" /\ Stage(x)' = "out" /\ x \in ChunksOf(s)
        /\ \A c \in Chunk : InSeq(c, kids) =>
              Stage(c) = "out" /\ Stage(c)' # "out" /\ PartOf(c, x)
        /\ \A c \in Chunk \ {x} : ~InSeq(c, kids) => Stage(c)' = Stage(c)
    BY ChunksOfStream DEF SplitUp, Unused, Stage
  <1>2. /\ kids \in Seq(Chunk)
        /\ \A t \in Int : Covers(x, t) =>
              \E k \in DOMAIN kids : Covers(kids[k], t)
    BY ChildrenFacts DEF SplitUp
  <1>3. stream'[s].next = stream[s].next
    BY SplitFields
  <1>4. MadeUpTo(s)' = MadeUpTo(s)
    BY <1>3 DEF MadeUpTo
  <1>5. ASSUME NEW t \in Times(s)
        PROVE  (\E c \in ChunksOf(s) : Stage(c)' # "out" /\ Covers(c, t))
                  <=> \E c \in ChunksOf(s) : Stage(c) # "out" /\ Covers(c, t)
    <2>1. t \in Int
      BY StreamTypes
    <2>2. ASSUME NEW c \in ChunksOf(s), Stage(c)' # "out", Covers(c, t)
          PROVE  \E d \in ChunksOf(s) : Stage(d) # "out" /\ Covers(d, t)
      <3>1. c \in Chunk /\ c # x
        BY <1>1, <2>2, ChunksOfStream
      <3>2. CASE InSeq(c, kids)
        <4>1. PartOf(c, x)
          BY <1>1, <3>1, <3>2
        <4>2. Covers(x, t)
          <5>1. /\ c.start \in Int /\ c.end \in Int
                /\ x.start \in Int /\ x.end \in Int
            BY <3>1, ChunkElim
          <5>2. QED
            BY <2>1, <2>2, <4>1, <5>1 DEF PartOf, Covers
        <4>3. QED
          BY <1>1, <4>2
      <3>3. CASE ~InSeq(c, kids)
        BY <1>1, <2>2, <3>1, <3>3
      <3>4. QED
        BY <3>2, <3>3
    <2>3. ASSUME NEW c \in ChunksOf(s), Stage(c) # "out", Covers(c, t)
          PROVE  \E d \in ChunksOf(s) : Stage(d)' # "out" /\ Covers(d, t)
      <3>1. c \in Chunk
        BY ChunksOfStream
      <3>2. CASE c = x
        <4>1. PICK k \in DOMAIN kids : Covers(kids[k], t)
          BY <1>2, <2>1, <2>3, <3>2
        <4>2. kids[k] \in Chunk /\ InSeq(kids[k], kids)
          BY <1>2 DEF InSeq
        <4>3. kids[k] \in ChunksOf(s) /\ Stage(kids[k])' # "out"
          BY <1>1, <4>2, ChunksOfStream DEF PartOf
        <4>4. QED
          BY <4>1, <4>3
      <3>3. CASE c # x
        BY <1>1, <2>3, <3>1, <3>3
      <3>4. QED
        BY <3>2, <3>3
    <2>4. QED
      BY <2>2, <2>3
  <1>6. QED
    BY <1>4, <1>5, SettledNext DEF Opened

LEMMA EndedOpened ==
    ASSUME IndTypeOK, RangesFresh, NEW s \in Stream,
           NEW x \in Chunk, x.stream = s, Finishes(x)
    PROVE  Cardinality(Opened(s)) = Cardinality(Opened(s)') + Duration(x)
  <1> DEFINE X == x.start .. x.end - 1
  <1>1. /\ Held(x) /\ Stage(x) # "out" /\ Stage(x)' = "out" /\ x \in ChunksOf(s)
        /\ \A c \in Chunk \ {x} : Stage(c)' = Stage(c)
    BY ChunksOfStream DEF Finishes, Turns
  <1>2. stream'[s].next = stream[s].next
    BY EndedFields
  <1>3. MadeUpTo(s)' = MadeUpTo(s) /\ MadeUpTo(s) \in Int
    BY <1>2, StreamTypes DEF MadeUpTo
  <1>4. /\ x.start \in Nat /\ x.end \in Nat /\ x.start < x.end
        /\ Query[s].start <= x.start /\ x.end <= Query[s].end
        /\ Query[s].start \in Nat /\ Query[s].end \in Nat
    BY ChunkElim, StreamTypes DEF QueryOf
  <1>5. \A t \in X : t \in Times(s) /\ Covers(x, t) /\ t \in Int
    BY <1>4 DEF Times, Covers
  <1>6. \A t \in Times(s) : Covers(x, t) => t \in X
    BY <1>4, StreamTypes DEF Times, Covers
  <1>7. ASSUME NEW t \in X
        PROVE  t \in Opened(s) /\ t \notin Opened(s)'
    <2>1. t \in Opened(s)
      BY <1>1, <1>5 DEF Opened
    <2>2. ~(MadeUpTo(s) <= t)
      <3>1. x.end <= MadeUpTo(s)
        BY <1>1 DEF RangesFresh
      <3>2. QED
        BY <1>3, <1>4, <1>5, <3>1 DEF Covers
    <2>3. ASSUME NEW c \in ChunksOf(s), Stage(c)' # "out", Covers(c, t)
          PROVE  FALSE
      <3>1. c \in Chunk /\ c # x /\ c.stream = s
        BY <1>1, <2>3, ChunksOfStream
      <3>2. Held(c)
        BY <1>1, <2>3, <3>1, HeldStage
      <3>3. Apart(x, c)
        BY <1>1, <3>1, <3>2 DEF RangesFresh
      <3>4. QED
        BY <1>5, <2>3, <3>1, <3>3, ApartCovers
    <2>4. QED
      BY <1>3, <2>1, <2>2, <2>3, SettledNext
  <1>8. \A t \in Opened(s) : t \in X \/ t \in Opened(s)'
    <2>1. SUFFICES ASSUME NEW t \in Opened(s), t \notin X
                   PROVE  t \in Opened(s)'
      OBVIOUS
    <2>2. t \in Times(s)
      BY DEF Opened
    <2>3. CASE MadeUpTo(s) <= t
      BY <1>3, <2>2, <2>3, SettledNext
    <2>4. CASE \E c \in ChunksOf(s) : Stage(c) # "out" /\ Covers(c, t)
      <3>1. PICK c \in ChunksOf(s) : Stage(c) # "out" /\ Covers(c, t)
        BY <2>4
      <3>2. c # x /\ c \in Chunk
        BY <1>6, <2>1, <2>2, <3>1, ChunksOfStream
      <3>3. Stage(c)' # "out"
        BY <1>1, <3>1, <3>2
      <3>4. QED
        BY <2>2, <3>1, <3>3, SettledNext
    <2>5. QED
      BY <2>3, <2>4 DEF Opened
  <1>9. \A t \in Opened(s)' : t \in Opened(s)
    <2>1. SUFFICES ASSUME NEW t \in Opened(s)'
                   PROVE  t \in Opened(s)
      OBVIOUS
    <2>2. /\ t \in Times(s)
          /\ \/ MadeUpTo(s) <= t
             \/ \E c \in ChunksOf(s) : Stage(c)' # "out" /\ Covers(c, t)
      BY <1>3, SettledNext
    <2>3. \A c \in ChunksOf(s) : Stage(c)' # "out" => Stage(c) # "out"
      BY <1>1, ChunksOfStream
    <2>4. QED
      BY <2>2, <2>3 DEF Opened
  <1>10. IsFiniteSet(X) /\ Cardinality(X) = Duration(x)
    <2>1. x.start \in Int /\ x.end \in Int /\ x.start <= x.end
      BY <1>4
    <2>2. QED
      BY <2>1, MillisCount, Zenon DEF Duration
  <1> HIDE DEF X
  <1>11. /\ Opened(s) = Opened(s)' \cup X /\ Opened(s)' \cap X = {}
         /\ IsFiniteSet(Opened(s)')
    BY <1>7, <1>8, <1>9, OpenedFinite, FS_Subset
  <1>12. QED
    BY <1>10, <1>11, DisjointUnion

\* Passing statistics on: the chunk's own are exactly what its stream lacks,
\* and a chunk given up makes its stream one of which nothing is claimed.
LEMMA KillExact ==
    ASSUME IndInv, StatsType, ChunksCounted, RestartsKept, [Next]_vars,
           CountStartFailure \/ CountCompletion \/ CountFailure,
           NEW s \in Stream, StatsExact(s)
    PROVE  StatsExact(s)'
  <1> DEFINE x == Updated
             old == streamStats[s]
  <1>1. /\ PlacesOK /\ RangesFresh /\ IndTypeOK /\ StreamExact(s)
        /\ Duration(Query[s])' = Duration(Query[s])
    BY DEF IndInv, PlacesOK, StreamsExact, Duration
  <1>2. PICK st :
            /\ Killed(x, st) /\ Sound(x, st)
            /\ CountCompletion =>
                  Stands(st, x, chunk[x].restart + 1, ~HandleSplit)
    BY <1>1, KillStats
  <1>3. /\ CountCompletion => IF HandleSplit THEN SplitUp(x) ELSE Finishes(x)
        /\ ~CountCompletion => GivenUp(x)
    BY <1>1, KillEffect
  <1>4. /\ x \in Chunk /\ x.stream \in Stream /\ st \in [Counter -> Nat]
        /\ st.requested = 0
    <2>1. x \in Chunk
      BY <1>3 DEF SplitUp, Finishes, GivenUp, Turns
    <2>2. QED
      BY <1>2, <2>1, ChunkElim DEF Sound
  <1>5. CASE s # x.stream
    <2>1. /\ stream'[s] = stream[s]
          /\ \A c \in ChunksOf(s) : Stage(c)' = Stage(c)
      BY <1>1, <1>3, <1>5, KillElsewhere
    <2>2. streamStats'[s] = streamStats[s]
      BY <1>2, <1>4, <1>5, KilledStats
    <2>3. /\ Opened(s)' = Opened(s) /\ Settled(s)' = Settled(s)
          /\ Owed(s)' = Owed(s)
      BY <2>1, SameStages
    <2>4. Intact(s)' <=> Intact(s)
      BY <2>1, <2>3, SameIntact
    <2>5. QED
      BY <2>1, <2>2, <2>3, <2>4, ExactlySame
  <1>6. CASE s = x.stream /\ stream[s].err = "ErrClosed"
    <2>1. stream'[s].err = "ErrClosed"
      BY <1>1, <1>3, <1>4, <1>6, EndedFields, SplitFields, GivenUpFields
    <2>2. streamStats' = streamStats
      BY <1>2, <1>6 DEF Killed
    <2>3. QED
      BY <1>1, <2>1, <2>2 DEF StatsExact
  <1>7. CASE s = x.stream /\ stream[s].err # "ErrClosed"
    <2>1. streamStats'[s] = Plus(old, st) /\ old \in [Counter -> Nat]
      BY <1>2, <1>4, <1>7, KilledStats DEF StatsType
    <2>2. /\ streamStats'[s].requested = old.requested
          /\ streamStats'[s].done = old.done + st.done
          /\ streamStats'[s].failed = old.failed + st.failed
          /\ streamStats'[s].started = old.started + st.started
          /\ old.requested \in Nat /\ old.done \in Nat
          /\ old.failed \in Nat /\ old.started \in Nat
      <3>1. \A f \in Counter : /\ streamStats'[s][f] = old[f] + st[f]
                               /\ old[f] \in Nat
        BY <1>4, <2>1, PlusType
      <3>2. QED
        BY <1>4, <3>1 DEF Counter
    <2> HIDE DEF old
    <2>3. old.requested = Duration(Query[s])
      BY DEF StatsExact, old
    <2>4. CASE ~CountCompletion
      <3>1. Missing(s)' = Missing(s) /\ Expected(s)' = Expected(s) - 1
            /\ Missing(s) \in Int /\ Expected(s) \in Int
        BY <1>1, <1>3, <1>4, <1>7, <2>4, GivenUpCounts
      <3>2. ~Intact(s)'
        BY <1>1, <3>1 DEF Intact, StreamExact
      <3>3. QED
        BY <1>1, <2>2, <2>3, <3>2 DEF StatsExact
    <2>5. CASE CountCompletion
      <3>1. Finishes(x) \/ SplitUp(x)
        BY <1>3, <2>5
      <3>2. SUFFICES ASSUME Intact(s)'
                     PROVE  /\ streamStats'[s].failed = 0
                            /\ streamStats'[s].done + Cardinality(Opened(s)')
                                  = Duration(Query[s])
                            /\ streamStats'[s].started = Attempted(Settled(s))'
        BY <1>1, <2>2, <2>3 DEF StatsExact
      <3>3. Intact(s)
        BY <1>1, <1>4, <1>7, <3>1, <3>2, EndedCounts, SplitCounts DEF Intact
      <3>4. /\ old.failed = 0
            /\ old.done + Cardinality(Opened(s)) = Duration(Query[s])
            /\ old.started = Attempted(Settled(s))
        BY <1>7, <3>3 DEF StatsExact, old
      <3>5. /\ st.failed = 0
            /\ st.done = IF HandleSplit THEN 0 ELSE Duration(x)
            /\ st.started = IF GenZero(x)
                            THEN (chunk[x].restart + 1) * Duration(x) ELSE 0
        BY <1>2, <2>5 DEF Stands
      <3>6. Cardinality(Opened(s)) = Cardinality(Opened(s)') + st.done
        <4>1. Cardinality(Opened(s)') \in Nat
          BY OpenedFinite
        <4>2. CASE HandleSplit
          BY <1>1, <1>3, <1>4, <1>7, <2>5, <3>5, <4>1, <4>2, SplitOpened
        <4>3. CASE ~HandleSplit
          BY <1>1, <1>3, <1>4, <1>7, <2>5, <3>5, <4>3, EndedOpened
        <4>4. QED
          BY <4>2, <4>3
      <3>7. Attempted(Settled(s))' = Attempted(Settled(s)) + st.started
        <4>1. /\ x \notin Settled(s)
              /\ Settled(s)' = Settled(s) \cup (IF GenZero(x) THEN {x} ELSE {})
          BY <1>1, <1>4, <1>7, <3>1, LeftSettled
        <4>2. /\ Settled(s) \in SUBSET Chunk
              /\ \A c \in Settled(s) : Stage(c) = "out"
          BY SettledFinite DEF Settled
        <4>3. \A c \in Settled(s) \cup {x} :
                  /\ chunk'[c].restart = chunk[c].restart
                  /\ chunk[c].restart \in Nat
          <5>1. chunk \in [Chunk -> ChunkFields]
            BY <1>1 DEF IndTypeOK, TypeOK
          <5>2. \A c \in Chunk : chunk[c].restart \in Nat
            BY <5>1 DEF ChunkFields
          <5>3. chunk'[x].restart = chunk[x].restart
            <6>1. \/ UNCHANGED chunk
                  \/ chunk' = [chunk EXCEPT ![x].err = "nil"]
              BY <2>5 DEF CountCompletion, HandleChunkCompletion, HandleSplit
            <6>2. QED
              BY <1>4, <5>1, <6>1 DEF ChunkFields
          <5>4. QED
            BY <1>4, <4>2, <5>2, <5>3 DEF RestartsKept
        <4>4. Attempted(Settled(s))' = Sums!SumFunction(
                  [c \in Settled(s)' |-> (1 + chunk'[c].restart) * Duration(c)])
          BY DEF Attempted, Duration
        <4>5. CASE GenZero(x)
          <5>1. Settled(s)' = Settled(s) \cup {x}
            BY <4>1, <4>5
          <5>2. Attempted(Settled(s))' = st.started + Attempted(Settled(s))
            BY <1>4, <3>5, <4>1, <4>2, <4>3, <4>4, <4>5, <5>1, OneAttempted
          <5>3. Attempted(Settled(s)) \in Nat /\ st.started \in Nat
            BY <1>4, <2>2, <3>4 DEF Counter
          <5>4. QED
            BY <5>2, <5>3
        <4>6. CASE ~GenZero(x)
          <5>1. Settled(s)' = Settled(s)
            BY <4>1, <4>6
          <5>2. [c \in Settled(s)' |-> (1 + chunk'[c].restart) * Duration(c)]
                  = [c \in Settled(s) |-> (1 + chunk[c].restart) * Duration(c)]
            BY <4>3, <5>1
          <5>3. Attempted(Settled(s))' = Attempted(Settled(s))
            BY <4>4, <5>2 DEF Attempted
          <5>4. Attempted(Settled(s)) \in Nat /\ st.started = 0
            BY <2>2, <3>4, <3>5, <4>6
          <5>5. QED
            BY <5>3, <5>4
        <4>7. QED
          BY <4>5, <4>6
      <3>8. Cardinality(Opened(s)') \in Nat /\ st.done \in Nat
        BY <1>4, OpenedFinite DEF Counter
      <3>9. QED
        BY <2>2, <3>4, <3>5, <3>6, <3>7, <3>8
    <2>6. QED
      BY <2>4, <2>5
  <1>8. QED
    BY <1>5, <1>6, <1>7

\* At first all is open and nothing settled.
LEMMA InitExact == StatsInit => \A s \in Stream : StatsExact(s)
  <1> SUFFICES ASSUME StatsInit, NEW s \in Stream PROVE StatsExact(s)
    OBVIOUS
  <1>1. /\ streamStats[s].requested = Duration(Query[s])
        /\ streamStats[s].failed = 0 /\ streamStats[s].done = 0
        /\ streamStats[s].started = 0
    <2>1. streamStats[s] = Count(NoStats, {"requested"}, Duration(Query[s]))
      BY DEF StatsInit
    <2>2. Duration(Query[s]) \in Nat
      BY StreamQuery, QueryDurations
    <2>3. QED
      BY <2>1, <2>2 DEF Count, NoStats, Counter
  <1>2. stream[s].next = 0
    BY DEF StatsInit, Init, NewStream
  <1>3. Attempted(Settled(s)) = 0
    <2>1. Settled(s) = {}
      BY <1>2 DEF Settled, WasMade
    <2>2. [c \in {} |-> (1 + chunk[c].restart) * Duration(c)] \in [{} -> Int]
      OBVIOUS
    <2>3. QED
      BY <2>1, <2>2, SumOfNone DEF Attempted
  <1>4. Cardinality(Opened(s)) = Duration(Query[s])
    <2>1. /\ Query[s].start \in Nat /\ Query[s].end \in Nat
          /\ Query[s].start < Query[s].end /\ Query[s] \in ValidQuery
          /\ Duration(Query[s]) = Query[s].end - Query[s].start
      BY StreamQuery, QueryDurations
    <2>2. NumRoots(Query[s]) \in Nat \ {0} /\ 0 \in 0 .. NumRoots(Query[s]) - 1
      BY <2>1, RootsPartition
    <2>3. NextChunkRange(Query[s], 0).start = Query[s].start
      BY <2>1, <2>2, RootsPartition
    <2>4. MadeUpTo(s) = Query[s].start
      BY <1>2, <2>2, <2>3 DEF MadeUpTo, Root
    <2>5. Opened(s) = Query[s].start .. Query[s].end - 1
      BY <2>1, <2>4 DEF Opened, Times
    <2>6. /\ Query[s].start \in Int /\ Query[s].end \in Int
          /\ Query[s].start <= Query[s].end
      BY <2>1
    <2>7. QED
      BY <2>1, <2>5, <2>6, MillisCount, Zenon
  <1>5. QED
    BY <1>1, <1>3, <1>4, StreamQuery, QueryDurations DEF StatsExact

\* At EOF nothing is open and every generation-0 chunk is settled.
LEMMA ExactAtEOF ==
    ASSUME IndInv, StatsType, \A s \in Stream : StatsExact(s)
    PROVE  StatsAtEOF
  <1> SUFFICES ASSUME NEW s \in Stream, stream[s].err = "EOF"
               PROVE  /\ streamStats[s].done = streamStats[s].requested
                      /\ streamStats[s].failed = 0
                      /\ streamStats[s].started
                            = Attempted({Root(s, i) : i \in 0 .. NumRoots(Query[s]) - 1})
    BY DEF StatsAtEOF
  <1>1. Missing(s) = 0 /\ StatsExact(s)
    BY DEF IndInv, StreamsExact, StreamExact
  <1>2. /\ Owed(s) = {} /\ stream[s].next = NumRoots(Query[s]) /\ Intact(s)
        /\ MadeUpTo(s) = Query[s].end
    BY <1>1, AtEOF
  <1>3. \A c \in ChunksOf(s) : Stage(c) = "out"
    BY <1>2, OwedStage
  <1>4. Opened(s) = {}
    <2>1. Query[s].end \in Nat /\ Query[s].start \in Nat
      BY StreamQuery, QueryDurations
    <2>2. \A t \in Times(s) : ~(MadeUpTo(s) <= t)
      BY <1>2, <2>1 DEF Times
    <2>3. QED
      BY <1>3, <2>2 DEF Opened
  <1>5. Settled(s) = {Root(s, i) : i \in 0 .. NumRoots(Query[s]) - 1}
    <2>1. ASSUME NEW i \in 0 .. NumRoots(Query[s]) - 1
          PROVE  Root(s, i) \in ChunksOf(s)
      <3>1. i \in Nat /\ i < NumRoots(Query[s])
        BY StreamQuery, RootsPartition
      <3>2. Root(s, i) \in Chunk /\ Root(s, i).stream = s
        BY <3>1, RootIsChunk DEF Root
      <3>3. QED
        BY <3>2, ChunksOfStream
    <2>2. QED
      BY <1>2, <1>3, <2>1 DEF Settled, WasMade
  <1>6. /\ streamStats[s].failed = 0
        /\ streamStats[s].done + Cardinality(Opened(s)) = Duration(Query[s])
        /\ streamStats[s].started = Attempted(Settled(s))
        /\ streamStats[s].requested = Duration(Query[s])
    BY <1>1, <1>2 DEF StatsExact
  <1>7. streamStats[s].done \in Nat
    BY DEF StatsType, Counter
  <1>8. QED
    BY <1>4, <1>5, <1>6, <1>7, FS_EmptySet

\* At EOF the whole range of the query is done, nothing has failed, and each
\* generation-0 chunk was counted as started as often as it was started.
THEOREM StatsAddUp == StatsSpec => []StatsAtEOF
  <1> DEFINE Exact == \A s \in Stream : StatsExact(s)
             Inv == StatsType /\ ChunksCounted /\ Exact
  <1>1. IndInv => PlacesOK /\ RangesFresh /\ IndTypeOK
    BY DEF IndInv, PlacesOK
  <1>2. IndInv /\ Inv /\ [StatsNext]_statsVars => Inv'
    <2> SUFFICES ASSUME IndInv, Inv, [StatsNext]_statsVars PROVE Inv'
      OBVIOUS
    <2>1. StatsType' /\ ChunksCounted' /\ RestartsKept
      BY <1>1, StatsStep, CountsStep
    <2>2. ASSUME NEW s \in Stream
          PROVE  StatsExact(s)'
      BY <2>1, IdleOrNot, IdleExact, KillExact
    <2>3. QED
      BY <2>1, <2>2
  <1>3. StatsInit => Inv
    BY InitStats, InitCounts, InitExact
  <1>4. IndInv /\ Inv => StatsAtEOF
    BY ExactAtEOF
  <1> HIDE DEF Inv
  <1>5. QED
    BY <1>2, <1>3, <1>4, StatsImplement, Invariant, PTL DEF StatsSpec
=============================================================================
