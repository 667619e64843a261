--------------------------- MODULE QueryInvariant ---------------------------
(***************************************************************************)
(* The inductive invariant behind the safety theorems about QueryManager:  *)
(* in which queue each chunk is, what the queue says of the chunk, which   *)
(* chunks nobody has used yet, and how the counts of a stream relate to    *)
(* the chunks it still expects.                                            *)
(***************************************************************************)
EXTENDS QueryManager

(***************************************************************************)
(* Where the chunks are.                                                   *)
(***************************************************************************)

\* The ready ring, the four channels, and the rings of the three workers.
Place ==
    {"ready", "start", "poll", "stop", "starter", "poller", "stopper",
     "update"}

Queues ==
    [ready   |-> ready,           update  |-> update,
     start   |-> in["starter"],   starter |-> ring["starter"],
     poll    |-> in["poller"],    poller  |-> ring["poller"],
     stop    |-> in["stopper"],   stopper |-> ring["stopper"]]

At(c, p) == InSeq(c, Queues[p])

NoRepeat(q) == \A i, j \in DOMAIN q : q[i] = q[j] => i = j

\* OnePlace without counting.
OneSpot ==
    /\ \A p \in Place : NoRepeat(Queues[p])
    /\ \A c \in Chunk : \A p \in Place : At(c, p) =>
          \A r \in Place : At(c, r) => p = r

\* The loop and the workers leave their work only after Close.
ClosedFirst ==
    /\ loop \in {"drain", "drainStop", "stopped"} => closing
    /\ \A w \in Worker : pc[w] \in {"release", "done"} => closing

\* The instructions that say the Insights query has come to its end.
EndedErr == {"errSplitChunk", "errRestartChunk", "TerminalQueryStatusError"}

PollingErr ==
    EndedErr \cup {"errStopChunk", "UnexpectedQueryError", "ErrClosed"}

StartingErr == {"nil", "errReduceParallel", "StartQueryError"}

\* What each place says of a chunk in it.
Fits(c, p) ==
    LET f == chunk[c]
        idle == remote[c] # "running"
    IN  CASE p = "ready" ->
                /\ f.state \in {"created", "starting", "polling"}
                /\ f.err \in {"nil", "errReduceParallel"} /\ idle
          [] p \in {"start", "starter"} ->
                f.state = "starting" /\ f.err \in StartingErr /\ idle
          [] p \in {"poll", "poller"} -> f.state = "polling"
          [] p \in {"stop", "stopper"} -> f.state = "stopping"
          [] p = "update" ->
                \/ /\ f.state = "starting"
                   /\ f.err \in StartingErr \cup {"ErrClosed"} /\ idle
                \/ f.state = "started"
                \/ /\ f.state = "polling" /\ f.err \in PollingErr
                   /\ f.err \in EndedErr => idle
                   /\ f.err = "ErrClosed" => closing
                \/ f.state \in {"complete", "stopping"} /\ idle

ChunksFit == \A p \in Place : \A c \in Chunk : At(c, p) => Fits(c, p)

(***************************************************************************)
(* Which of the counts of mgr.go:29-31 a chunk is in.                      *)
(***************************************************************************)

CountedAs(c, places, states) ==
    (\E p \in places : At(c, p)) \/ (At(c, "update") /\ chunk[c].state \in states)

Starting ==
    {c \in Chunk : CountedAs(c, {"start", "starter"}, {"starting", "started"})}
Polling ==
    {c \in Chunk : CountedAs(c, {"poll", "poller"}, {"polling", "complete"})}
Stopping ==
    {c \in Chunk : CountedAs(c, {"stop", "stopper"}, {"stopping"})}

\* CountersMatch over sets, and what shutdown waits for.
CountsExact ==
    /\ num.starting = Cardinality(Starting)
    /\ num.polling = Cardinality(Polling)
    /\ num.stopping = Cardinality(Stopping)
    /\ loop \in {"drainStop", "stopped"} => num.starting = 0 /\ num.polling = 0

PlacesOK ==
    /\ IndTypeOK /\ OneSpot /\ ClosedFirst /\ ChunksFit
    /\ NoOrphanWhileOpen /\ CountsExact /\ NoInternalError

(***************************************************************************)
(* Which ranges are in use.                                                *)
(***************************************************************************)

Apart(c, d) == c.end <= d.start \/ d.end <= c.start

\* A chunk that splitting c, and its parts, may make.
PartOf(d, c) ==
    /\ d.stream = c.stream /\ d # c
    /\ c.start <= d.start /\ d.end <= c.end

Unused(c) == ~Held(c) /\ chunk[c] = NewChunk /\ remote[c] = "none"

\* Where the next generation-0 chunk of a stream begins.
MadeUpTo(s) ==
    IF stream[s].next < NumRoots(Query[s])
    THEN Root(s, stream[s].next).start
    ELSE Query[s].end

\* Held chunks of a query are disjoint and behind the next generation-0
\* chunk; what is ahead of it, or part of a held chunk, was never used.
RangesFresh ==
    /\ \A s \in Stream : stream[s].next <= NumRoots(Query[s])
    /\ \A c \in Chunk : MadeUpTo(c.stream) <= c.start => Unused(c)
    /\ \A c \in Chunk : Held(c) =>
          /\ c.end <= MadeUpTo(c.stream)
          /\ \A d \in Chunk :
                /\ PartOf(d, c) => Unused(d)
                /\ d # c /\ d.stream = c.stream /\ Held(d) => Apart(c, d)

\* No two blocks of a stream overlap, nor a block and a chunk that may still
\* deliver one.
BlocksOK(s) ==
    LET blocks == stream[s].blocks
    IN  \A i \in DOMAIN blocks :
            /\ blocks[i].end <= MadeUpTo(s)
            /\ \A j \in DOMAIN blocks : i # j => Apart(blocks[i], blocks[j])
            /\ \A c \in Chunk :
                  Pending(c) /\ c.stream = s => Apart(blocks[i], c)

BlocksApart == \A s \in Stream : BlocksOK(s)

(***************************************************************************)
(* What a stream still expects.                                            *)
(***************************************************************************)

\* The chunks that were neither given up nor counted in m.
Owed(s) == {c \in ChunksOf(s) : Held(c) /\ chunk[c].state # "stopping"}

\* What m must still grow by, and the chunks that may make it grow.
Missing(s)  == stream[s].n - stream[s].m
Expected(s) == Cardinality(Owed(s)) + NumRoots(Query[s]) - stream[s].next

\* No chunk of the stream was ever given up.
Intact(s) == Expected(s) = Missing(s)

Failures ==
    {"StartQueryError", "UnexpectedQueryError", "TerminalQueryStatusError"}

\* Millisecond t has been delivered, or a chunk will deliver it.
Served(s, t) ==
    LET blocks == stream[s].blocks
    IN  \/ \E i \in DOMAIN blocks : Covers(blocks[i], t)
        \/ \E c \in Owed(s) : chunk[c].state # "complete" /\ Covers(c, t)
        \/ MadeUpTo(s) <= t

\* An expected chunk never leaves the counts by itself.  As long as none was
\* given up, all milliseconds are served and no Insights query is forgotten;
\* a failure of the stream stands for one that was, and excludes EOF for good.
StreamExact(s) ==
    /\ Expected(s) <= Missing(s)
    /\ Intact(s) => /\ \A c \in ChunksOf(s) :
                          remote[c] = "running" => c \in Owed(s)
                    /\ stream[s].err # "ErrClosed" =>
                          \A t \in Times(s) : Served(s, t)
    /\ stream[s].err \in Failures => ~Intact(s)
    /\ "EOF" \in {stream[s].err, reported[s]} => Missing(s) = 0
    /\ s \notin accepted =>
          stream[s] = NewStream(s) /\ reported[s] = "nil" /\ Owed(s) = {}

StreamsExact == \A s \in Stream : StreamExact(s)

\* The inductive invariant.
IndInv == PlacesOK /\ RangesFresh /\ BlocksApart /\ StreamsExact
=============================================================================
