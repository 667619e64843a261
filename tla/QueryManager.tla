---------------------------- MODULE QueryManager ----------------------------
(***************************************************************************)
(* The whole QueryManager: the manager loop and its workers, composed with *)
(* the program that submits queries, reads and closes the streams, and     *)
(* closes the manager.                                                     *)
(***************************************************************************)
EXTENDS Workers, ManagerLoop

(* The program's calls. *)

\* Query sends the stream on the unbuffered channel m.query while it holds
\* m.queryLock, so it returns when the manager loop receives the stream; the
\* loop pushes it on the heap (addQuery).  After Close the send panics, and
\* Query returns ErrClosed.
SubmitQuery(s) ==
    /\ loop = "select" /\ ~closing /\ s \notin accepted
    /\ accepted' = accepted \cup {s}
    /\ pq' = pq \cup {s}
    /\ loop' = "fill"
    /\ UNCHANGED <<closing, parallel, num, ready, in, ring, pc, update,
                   chunk, stream, remote, reported>>

\* mgr.Close, the call that finds the manager open.
Close ==
    /\ ~closing /\ ~Crashed
    /\ closing' = TRUE
    /\ UNCHANGED <<mgrVars, workerVars, accepted, reported, in, update,
                   chunk, stream, remote>>

\* stream.Close: setErr, cancel the chunks' context, drop the results.
StreamClose(s) ==
    /\ s \in accepted /\ stream[s].err # "ErrClosed" /\ ~Crashed
    /\ stream' = [stream EXCEPT ![s].err = "ErrClosed", ![s].blocks = <<>>]
    /\ UNCHANGED <<mgrVars, workerVars, userVars, in, update, chunk, remote>>

\* A Read that has consumed all blocks returns the stream's error.
ReadError(s) ==
    /\ s \in accepted /\ ~Alive(s) /\ reported[s] # stream[s].err /\ ~Crashed
    /\ reported' = [reported EXCEPT ![s] = stream[s].err]
    /\ UNCHANGED <<mgrVars, workerVars, closing, accepted, in, update,
                   chunk, stream, remote>>

(* The composition. *)

\* All four goroutines returned, or the program crashed.
Ended == Crashed \/ (loop = "stopped" /\ \A w \in Worker : pc[w] = "done")

ProgramStep ==
    \/ Close
    \/ \E s \in Stream : SubmitQuery(s) \/ StreamClose(s) \/ ReadError(s)

SystemStep == LoopStep \/ StarterStep \/ PollerStep \/ StopperStep

Next ==
    \/ SystemStep
    \/ ProgramStep
    \/ Ended /\ UNCHANGED vars

Spec == Init /\ [][Next]_vars

\* Every goroutine that can go on does so, and the select of a closed
\* manager, which Go resolves at random, does not favour m.update for ever.
Fairness ==
    /\ WF_vars(LoopStep)
    /\ WF_vars(StarterStep) /\ WF_vars(PollerStep) /\ WF_vars(StopperStep)
    /\ SF_vars(Exit)

\* A poll of chunk c that ends its polling.
Conclusive(c) ==
    /\ pc["poller"] = "call" /\ Current("poller") = c
    /\ PollerAnswer /\ update' # update

FairSpec == Spec /\ Fairness

(***************************************************************************)
(* Where the chunks are.                                                   *)
(***************************************************************************)

Occurrences(q, c) == Cardinality({i \in DOMAIN q : q[i] = c})

\* The number of places chunk c is in: the ready ring, a worker's channel
\* or ring, or the update channel.
Places(c) ==
    LET inWorker(w) == Occurrences(in[w], c) + Occurrences(ring[w], c)
    IN  Occurrences(ready, c) + Occurrences(update, c)
        + inWorker("starter") + inWorker("poller") + inWorker("stopper")

InSeq(c, q) == \E i \in DOMAIN q : q[i] = c

\* Chunk c is somewhere between the manager loop and the workers.
Held(c) ==
    InSeq(c, ready) \/ InSeq(c, update)
    \/ \E w \in Worker : InSeq(c, in[w]) \/ InSeq(c, ring[w])

\* A held chunk that still has its range of the query to deliver.
Pending(c) == Held(c) /\ chunk[c].state \notin {"complete", "stopping"}

\* The generation-0 chunks of a stream the loop has yet to make.
Unmade(s) == {Root(s, i) : i \in stream[s].next .. NumRoots(Query[s]) - 1}

Covers(c, t) == c.start <= t /\ t < c.end

Times(s) == Query[s].start .. Query[s].end - 1

\* In how many ways a millisecond of the query has been or may still be
\* delivered to the program.
TimesCovered(s, t) ==
    LET blocks == stream[s].blocks
    IN  Cardinality({i \in DOMAIN blocks : Covers(blocks[i], t)})
        + Cardinality({c \in ChunksOf(s) : Pending(c) /\ Covers(c, t)})
        + Cardinality({c \in Unmade(s) : Covers(c, t)})

(***************************************************************************)
(* Safety.                                                                 *)
(***************************************************************************)

\* A chunk is never in two places, so no two goroutines ever own it at once
\* (chunk.go gives its fields no lock).
OnePlace == \A c \in Chunk : Places(c) <= 1

\* numStarting, numPolling and numStopping (mgr.go:29-31) count exactly the
\* chunks in the hands of each worker or on their way back from it, whatever
\* becomes of a chunk.
CountersMatch ==
    LET with(w) == Len(in[w]) + Len(ring[w])
        back(states) == Cardinality({i \in DOMAIN update :
                                        chunk[update[i]].state \in states})
    IN  /\ num.starting = with("starter") + back({"starting", "started"})
        /\ num.polling = with("poller") + back({"polling", "complete"})
        /\ num.stopping = with("stopper") + back({"stopping"})

\* No send on a channel can block its sender: the buffers made in
\* NewQueryManager are big enough "to prevent deadlock" (mgr.go:100-104).
ChannelsFit ==
    /\ \A w \in Worker : Len(in[w]) <= Parallel
    /\ Len(update) <= 3 * Parallel

\* The chunks in flight never outnumber Config.Parallel, though parallelism
\* may drop while they fly, and splits and restarts add chunks (mgr.go:258).
InFlightWithinParallel == InFlight <= Parallel

\* "Parallel gives the upper limit on the number of Insights queries the
\* QueryManager may have open at any one time" (incite.go:449-450), until
\* the manager is closed.
OpenQueriesWithinParallel ==
    ~closing => Cardinality({c \in Chunk : remote[c] = "running"}) <= Parallel

\* Until the manager is closed no running Insights query is forgotten: its
\* chunk is held by somebody who will look at it again.
NoOrphanWhileOpen ==
    ~closing => \A c \in Chunk : remote[c] = "running" => Held(c)

\* Results are never delivered twice: splits, restarts and stream errors
\* leave every millisecond of the query in at most one block or chunk.
DeliveredAtMostOnce ==
    \A s \in Stream : \A t \in Times(s) : TimesCovered(s, t) <= 1

\* At EOF the blocks cover the whole query range, each millisecond once.
CompleteAtEOF ==
    \A s \in Stream : stream[s].err = "EOF" =>
        LET blocks == stream[s].blocks
        IN  \A t \in Times(s) :
                Cardinality({i \in DOMAIN blocks : Covers(blocks[i], t)}) = 1

\* "The Read method returns io.EOF when [...] the query is over and all
\* local and remote resources have been released" (incite.go:341-345).
ReleasedAtEOF ==
    \A s \in Stream : reported[s] = "EOF" =>
        /\ s \notin pq
        /\ \A c \in ChunksOf(s) : ~Pending(c) /\ remote[c] # "running"

\* The counts m and n of a stream leave room for every chunk that may still
\* complete, so a stream cannot end early (mgr.go:412-416).
CountsLeaveRoom ==
    \A s \in Stream :
        Cardinality({c \in ChunksOf(s) : Pending(c)})
            + NumRoots(Query[s]) - stream[s].next
        <= stream[s].n - stream[s].m

\* The instructions workers send to the manager loop in c.err never become
\* the error of a stream, where a Read would return them (errors.go:205-211).
NoInternalError ==
    \A s \in Stream : stream[s].err \notin InternalErr

(***************************************************************************)
(* The inductive invariant behind the theorems.                            *)
(***************************************************************************)

\* A worker that waits or calls has its current chunk.
WorkersHaveChunk ==
    \A w \in Worker : pc[w] \in {"wait", "call"} => ring[w] # <<>>

\* A stream in the heap has a generation-0 chunk to make; one that was not
\* submitted yet has them all to make.
HeapHasRoots ==
    /\ pq \subseteq accepted
    /\ \A s \in pq : stream[s].next < NumRoots(Query[s])
    /\ \A s \in Stream \ accepted : stream[s].next = 0

\* Only chunks that can be split are sent back to be split.
SplitsAreLong ==
    \A c \in Chunk : chunk[c].err = "errSplitChunk" => Splittable(QueryOf(c), c)

\* The type invariant made inductive: no chunk the loop or a worker makes or
\* passes on is ever empty or outside its query, and parallelism stays
\* between parallelMin and Config.Parallel (mgr.go:27).
IndTypeOK == TypeOK /\ WorkersHaveChunk /\ HeapHasRoots /\ SplitsAreLong

(***************************************************************************)
(* Liveness.                                                               *)
(***************************************************************************)

\* After Close all four goroutines return (mgr.shutdown, worker.shutdown).
CloseEndsGoroutines ==
    closing ~> (loop = "stopped" /\ \A w \in Worker : pc[w] = "done")

(***************************************************************************)
(* What the documentation says and the code does not do; README.md tells   *)
(* why each of these is violated.                                          *)
(***************************************************************************)

\* A temporary error of any worker "should be retried up to the worker's
\* maximum try limit" (worker.go:33-35); it does not end the program.
TemporaryErrorsRetried == ~Crashed

\* Closing a stream cancels its query, "releasing the local (in-process) and
\* remote [...] resources it consumes" (incite.go:337-339).
StreamCloseReleases ==
    \A s \in Stream :
        stream[s].err = "ErrClosed" ~>
            closing \/ \A c \in ChunksOf(s) : ~Held(c)

\* Once Read returned an error, "all subsequent reads on the stream will
\* return an error" (errors.go:29-31).
ErrorsSticky == \A s \in Stream : reported[s] # "nil" => ~Alive(s)

\* Closing the manager acts "as if each query's Stream had been explicitly
\* closed" (incite.go:310-312), so no Read can wait for ever.
CloseClosesStreams ==
    loop = "stopped" => \A s \in accepted : ~Alive(s)

\* Closing the manager "will immediately cancel all running queries"
\* (incite.go:310-311).
CloseStopsQueries ==
    loop = "stopped" => \A c \in Chunk : remote[c] # "running"
=============================================================================
