---------------------------- MODULE ManagerState ----------------------------
(***************************************************************************)
(* The state a QueryManager's goroutines share: the manager loop, its      *)
(* three workers (starter, poller, stopper), the channels between them,    *)
(* the chunks that travel on the channels, the streams the chunks feed,    *)
(* and the Insights queries the chunks stand for in CloudWatch Logs.       *)
(***************************************************************************)
EXTENDS Ranges, FiniteSets

CONSTANTS
    Stream,      \* the queries a program may submit
    Query,       \* the QuerySpec of each of them
    Parallel,    \* Config.Parallel
    MaxTries,    \* maxTemporaryError of each worker
    MaxRestart,  \* maxRestart (poller.go)
    Faults       \* the answers of CloudWatch Logs, other than plain success,
                 \* that may occur

Worker == {"starter", "poller", "stopper"}

\* What CloudWatch Logs may answer to StartQuery, GetQueryResults and
\* StopQuery besides a started, completed or stopped query.
FaultKind ==
    {"StartRetry", "StartLimit", "StartFailure",
     "PollRetry", "PollPending", "PollUnexpected", "PollMaxed",
     "PollFailed", "PollTerminal",
     "StopThrottled", "StopTemporary"}

ASSUME StreamAssumption == IsFiniteSet(Stream)

ASSUME QueryAssumption == Query \in [Stream -> ValidQuery]

ASSUME LimitAssumption ==
    /\ Parallel \in Nat \ {0}
    /\ MaxTries \in [Worker -> Nat \ {0}]
    /\ MaxRestart \in Nat

ASSUME FaultAssumption == Faults \subseteq FaultKind

(***************************************************************************)
(* A chunk is named by its stream and range.  The chunks of one query form *)
(* a forest of ever shorter ranges, so no two of them share a name.        *)
(***************************************************************************)
ChunksOf(s) ==
    LET T == Query[s].start .. Query[s].end
    IN  {c \in {[stream |-> s, start |-> a, end |-> b] : a, b \in T} :
            c.start < c.end}

Chunk == UNION {ChunksOf(s) : s \in Stream}

QueryOf(c) == Query[c.stream]

Root(s, i) ==
    LET r == NextChunkRange(Query[s], i)
    IN  [stream |-> s, start |-> r.start, end |-> r.end]

Children(c) ==
    LET rs == SplitRange(c, SplitUntil(QueryOf(c)))
    IN  [k \in DOMAIN rs |->
            [stream |-> c.stream, start |-> rs[k].start, end |-> rs[k].end]]

\* Errors a chunk or a stream holds: exported ones, then the internal
\* instructions from a worker to the manager loop.
PublicErr   == {"nil", "ErrClosed", "StartQueryError",
                "UnexpectedQueryError", "TerminalQueryStatusError"}
InternalErr == {"errReduceParallel", "errStopChunk", "errRestartChunk",
                "errSplitChunk"}
Err == PublicErr \cup InternalErr \cup {"EOF"}

VARIABLES
    loop,      \* the point reached by mgr.loop and mgr.shutdown
    closing,   \* m.close and m.query are closed
    parallel,  \* int(m.parallel.value())
    num,       \* m.numStarting, m.numPolling, m.numStopping
    pq,        \* the streams in the heap m.pq
    ready,     \* the ring m.ready, oldest chunk first
    in,        \* the channels m.start, m.poll, m.stop, by receiving worker
    ring,      \* each worker's in-progress chunks, oldest first
    pc,        \* the point reached by each worker's loop and shutdown
    update,    \* the channel m.update
    chunk,     \* the mutable fields of each chunk
    stream,    \* the mutable fields of each stream
    accepted,  \* streams Query returned to the program
    remote,    \* each chunk's latest Insights query, in CloudWatch Logs
    reported   \* history: the last error Stream.Read returned, per stream

mgrVars    == <<loop, parallel, num, pq, ready>>
workerVars == <<ring, pc>>
userVars   == <<closing, accepted, reported>>
vars == <<loop, closing, parallel, num, pq, ready, in, ring, pc, update,
          chunk, stream, accepted, remote, reported>>

ChunkFields ==
    [state : {"created", "starting", "started", "polling", "complete",
              "stopping"},
     err : Err, tmp : Nat, restart : 0 .. MaxRestart]

StreamFields ==
    [err : Err, next : Nat, m : Nat, n : Nat, blocks : Seq(Chunk)]

NewChunk == [state |-> "created", err |-> "nil", tmp |-> 0, restart |-> 0]

\* Faulty variant of NewStream: Query leaves n0 at its initial 1.
NewStreamOneChunk(s) ==
    [err |-> "nil", next |-> 0, m |-> 0, n |-> 1, blocks |-> <<>>]

NewStream(s) ==
    [err |-> "nil", next |-> 0, m |-> 0, n |-> NumRoots(Query[s]),
     blocks |-> <<>>]

Init ==
    /\ loop = "select"
    /\ closing = FALSE
    /\ parallel = Parallel
    /\ num = [starting |-> 0, polling |-> 0, stopping |-> 0]
    /\ pq = {}
    /\ ready = <<>>
    /\ in = [w \in Worker |-> <<>>]
    /\ ring = [w \in Worker |-> <<>>]
    /\ pc = [w \in Worker |-> "pop"]
    /\ update = <<>>
    /\ chunk = [c \in Chunk |-> NewChunk]
    /\ stream = [s \in Stream |-> NewStream(s)]
    /\ accepted = {}
    /\ remote = [c \in Chunk |-> "none"]
    /\ reported = [s \in Stream |-> "nil"]

\* Type invariant of the shared state.
TypeOK ==
    /\ loop \in {"select", "fill", "drain", "drainStop", "stopped", "panic"}
    /\ closing \in BOOLEAN
    /\ parallel \in 1 .. Parallel
    /\ num \in [starting : Int, polling : Int, stopping : Int]
    /\ pq \subseteq Stream
    /\ ready \in Seq(Chunk)
    /\ in \in [Worker -> Seq(Chunk)]
    /\ ring \in [Worker -> Seq(Chunk)]
    /\ pc \in [Worker -> {"pop", "wait", "call", "release", "done",
                       "panic"}]
    /\ update \in Seq(Chunk)
    /\ chunk \in [Chunk -> ChunkFields]
    /\ stream \in [Stream -> StreamFields]
    /\ accepted \subseteq Stream
    /\ remote \in [Chunk -> {"none", "running", "ended"}]
    /\ reported \in [Stream -> Err]

\* stream.alive
Alive(s) == stream[s].err = "nil"

\* stream.setErr, on the fields of a stream: a closed stream stays closed,
\* any other error is replaced, by nil too.
SetErr(st, e) == IF st.err = "ErrClosed" THEN st ELSE [st EXCEPT !.err = e]

\* A goroutine panicked, which ends the program.
Crashed == loop = "panic"

\* Chunks handed to the workers and not yet handed back.
InFlight == num.starting + num.polling + num.stopping

\* A worker's in channel is closed by mgr.shutdown: start and poll first,
\* stop once starter and poller gave all their chunks back.
InClosed(w) ==
    IF w = "stopper"
    THEN loop \in {"drainStop", "stopped"}
    ELSE loop \in {"drain", "drainStop", "stopped"}
=============================================================================
