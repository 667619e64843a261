----------------------------- MODULE RangeStats -----------------------------
(***************************************************************************)
(* The range statistics of chunks, streams and the manager (Stats in       *)
(* incite.go): QueryManager with the counters RangeRequested, RangeStarted,*)
(* RangeDone, RangeFailed and RangeMaxed added to the steps that count.    *)
(***************************************************************************)
EXTENDS QueryManager

Sums == INSTANCE Functions

VARIABLES
    chunkStats,   \* c.Stats of each chunk
    streamStats,  \* s.stats of each stream
    mgrStats      \* m.stats

stats == <<chunkStats, streamStats, mgrStats>>
statsVars == <<vars, stats>>

Counter == {"requested", "started", "done", "failed", "maxed"}

NoStats == [f \in Counter |-> 0]

\* Stats.add
Plus(x, y) == [f \in Counter |-> x[f] + y[f]]

\* d more milliseconds in the counters fs.
Count(x, fs, d) == [f \in Counter |-> IF f \in fs THEN x[f] + d ELSE x[f]]

StatsInit ==
    /\ Init
    /\ chunkStats = [c \in Chunk |-> NoStats]
    /\ streamStats = [s \in Stream |->
                        Count(NoStats, {"requested"}, Duration(Query[s]))]
    /\ mgrStats = NoStats

\* c.gen == 0
GenZero(c) == \E i \in 0 .. NumRoots(QueryOf(c)) - 1 : c = Root(c.stream, i)

\* Faulty variant of Started: sub-chunks count as well.
StartedAnyGeneration(c) ==
    Count(chunkStats[c],
          {"started"} \cup (IF chunk[c].err = "nil" THEN {} ELSE {"failed"}),
          Duration(c))

\* chunk.started, on the statistics of chunk c.
Started(c) ==
    Count(chunkStats[c],
          (IF GenZero(c) THEN {"started"} ELSE {})
              \cup (IF chunk[c].err = "nil" THEN {} ELSE {"failed"}),
          Duration(c))

\* killStream: the statistics st of chunk c go to the manager, and to the
\* stream unless it is closed.
Killed(c, st) ==
    /\ chunkStats' = [chunkStats EXCEPT ![c] = st]
    /\ mgrStats' = Plus(mgrStats, st)
    /\ streamStats' = IF stream[c.stream].err = "ErrClosed" THEN streamStats
                      ELSE [streamStats EXCEPT ![c.stream] = Plus(@, st)]

(* The steps that count. *)

CountSubmit(s) ==
    /\ SubmitQuery(s)
    /\ mgrStats' = Count(mgrStats, {"requested"}, streamStats[s].requested)
    /\ UNCHANGED <<chunkStats, streamStats>>

CountStartFailure == HandleStartFailure /\ Killed(Updated, Started(Updated))

CountStarted ==
    /\ HandleChunkStarted
    /\ chunkStats' = [chunkStats EXCEPT ![Updated] = Started(Updated)]
    /\ UNCHANGED <<streamStats, mgrStats>>

\* The completion of a chunk, by its results or by its sub-chunks.
CountCompletion ==
    /\ HandleChunkCompletion \/ HandleSplit
    /\ Killed(Updated, chunkStats[Updated])

\* Faulty variant of CountFailure: counts after the statistics were passed on.
CountFailureLate ==
    /\ HandleUnexpected \/ HandleTerminal
    /\ Killed(Updated, chunkStats[Updated])

CountFailure ==
    /\ HandleUnexpected \/ HandleTerminal
    /\ Killed(Updated, Count(chunkStats[Updated], {"failed"},
                             Duration(Updated)))

\* Faulty variant of CountResults: RangeDone is not counted for a chunk that
\* is maxed out.
CountResultsUnlessMaxed(maxed) ==
    LET c == Current("poller")
    IN  /\ PollerCompletes \/ PollerUnexpected(TRUE)
        /\ maxed => ~Splittable(QueryOf(c), c)
        /\ chunkStats' = [chunkStats EXCEPT ![c] =
               Count(@, IF maxed THEN {"maxed"} ELSE {"done"}, Duration(c))]
        /\ UNCHANGED <<streamStats, mgrStats>>

\* A complete query, its results translated or not; maxed if there are as
\* many as Limit allows and the chunk is not split for it.
CountResults(maxed) ==
    LET c == Current("poller")
    IN  /\ PollerCompletes \/ PollerUnexpected(TRUE)
        /\ maxed => ~Splittable(QueryOf(c), c)
        /\ chunkStats' = [chunkStats EXCEPT ![c] =
               Count(@, IF maxed THEN {"done", "maxed"} ELSE {"done"},
                     Duration(c))]
        /\ UNCHANGED <<streamStats, mgrStats>>

(* All other steps. *)

LoopUncounted ==
    \/ HandleReduceParallel \/ HandleRestart \/ HandleStop \/ HandleStopped
    \/ FillReady \/ FillNext \/ FillDone
    \/ Exit
    \/ DrainLive \/ DrainDead \/ DrainStopping \/ CloseStreams
    \/ DrainStop \/ Stopped

PollerUncounted ==
    \/ CommonStep("poller")
    \/ PollerRetry \/ PollerInconclusive \/ PollerUnexpected(FALSE)
    \/ PollerMaxed \/ PollerRestarts \/ PollerTerminal

ProgramUncounted ==
    \/ Close
    \/ \E s \in Stream : StreamClose(s) \/ ReadError(s)

StatsNext ==
    \/ \E s \in Stream : CountSubmit(s)
    \/ CountStartFailure \/ CountStarted \/ CountCompletion \/ CountFailure
    \/ \E maxed \in BOOLEAN : CountResults(maxed)
    \/ /\ LoopUncounted \/ StarterStep \/ PollerUncounted \/ StopperStep
          \/ ProgramUncounted
       /\ UNCHANGED stats

StatsSpec == StatsInit /\ [][StatsNext]_statsVars

(***************************************************************************)
(* What the documentation of Stats promises (incite.go:203-257).           *)
(***************************************************************************)

\* RangeMaxed "is always less than or equal to RangeDone", which "is always
\* less than or equal to RangeStarted", in a stream and in the manager,
\* though sub-chunks are done without being counted as started.
StatsOrdered ==
    \A x \in {mgrStats} \cup {streamStats[s] : s \in Stream} :
        x.maxed <= x.done /\ x.done <= x.started

\* The length of the chunks C, each as often as it was started.
Attempted(C) ==
    Sums!SumFunction([c \in C |-> (1 + chunk[c].restart) * Duration(c)])

\* At EOF RangeDone has reached RangeRequested and nothing counts as failed;
\* RangeStarted counts each start of a generation-0 chunk, the restarts too
\* (against the documentation, see README.md).
StatsAtEOF ==
    \A s \in Stream : stream[s].err = "EOF" =>
        /\ streamStats[s].done = streamStats[s].requested
        /\ streamStats[s].failed = 0
        /\ streamStats[s].started
              = Attempted({Root(s, i) : i \in 0 .. NumRoots(Query[s]) - 1})

\* GetStats "will stop changing after the Read method returns io.EOF"
\* (incite.go:347-350), whatever chunks are still being put away.
StatsFinalAtEOF ==
    [][\A s \in Stream :
          reported[s] = "EOF" => streamStats'[s] = streamStats[s]]_statsVars

\* A stream that failed has counted some of its range as failed by the time
\* its reader can see the error.
FailureCounted ==
    \A s \in Stream :
        stream[s].err \in PublicErr \ {"nil", "ErrClosed"} =>
            streamStats[s].failed > 0
=============================================================================
