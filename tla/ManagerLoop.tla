----------------------------- MODULE ManagerLoop -----------------------------
(***************************************************************************)
(* mgr.loop and mgr.shutdown (mgr.go): the goroutine that hands chunks to  *)
(* the workers, reacts to the chunks they hand back, and, once the manager *)
(* is closed, takes all chunks back and stops the workers.                 *)
(***************************************************************************)
EXTENDS ManagerState

(* What handlers share. *)

\* The loop received the oldest chunk on m.update, in a given state; when it
\* is handled, the loop goes on to fill the starter's channel.
Updated == Head(update)

Receive(state) ==
    /\ loop = "select" /\ update # <<>>
    /\ chunk[Updated].state = state
    /\ update' = Tail(update)
    /\ loop' = "fill"
    /\ UNCHANGED <<userVars, workerVars, pq, remote>>

\* killStream, which despite its name also reports success: err may be nil.
KillStream(c, e) == stream' = [stream EXCEPT ![c.stream] = SetErr(@, e)]

\* stopChunk, its numStopping++ left to the caller.
StopChunk(c) ==
    /\ chunk' = [chunk EXCEPT ![c].state = "stopping"]
    /\ in' = [in EXCEPT !["stopper"] = Append(@, c)]

(* handleStartingError *)

\* The Insights concurrency limit was hit: the chunk waits for another turn.
\* It keeps errReduceParallel as its error.
HandleReduceParallel ==
    /\ Receive("starting")
    /\ chunk[Updated].err = "errReduceParallel"
    /\ num' = [num EXCEPT !.starting = @ - 1]
    /\ parallel' = Later(1, parallel - 1)
    /\ ready' = Append(ready, Updated)
    /\ UNCHANGED <<in, chunk, stream>>

HandleStartFailure ==
    /\ Receive("starting")
    /\ chunk[Updated].err # "errReduceParallel"
    /\ num' = [num EXCEPT !.starting = @ - 1]
    /\ KillStream(Updated, chunk[Updated].err)
    /\ UNCHANGED <<parallel, ready, in, chunk>>

\* Faulty variant of HandleChunkStarted: no maximum parallelism.
HandleChunkStartedAboveMax ==
    /\ Receive("started")
    /\ num' = [num EXCEPT !.starting = @ - 1, !.polling = @ + 1]
    /\ chunk' = [chunk EXCEPT ![Updated].state = "polling"]
    /\ in' = [in EXCEPT !["poller"] = Append(@, Updated)]
    /\ parallel' \in parallel .. parallel + 1
    /\ UNCHANGED <<ready, stream>>

\* handleChunkStarted: m.parallel may grow, by an amount that depends on the
\* time since it last changed.
HandleChunkStarted ==
    /\ Receive("started")
    /\ num' = [num EXCEPT !.starting = @ - 1, !.polling = @ + 1]
    /\ chunk' = [chunk EXCEPT ![Updated].state = "polling"]
    /\ in' = [in EXCEPT !["poller"] = Append(@, Updated)]
    /\ parallel' \in parallel .. Parallel
    /\ UNCHANGED <<ready, stream>>

(* handlePollingError *)

\* Faulty variant of Completed: does not count the sub-chunks.
CompletedWithoutKids(st, kids) ==
    LET done == [st EXCEPT !.m = @ + 1]
    IN  SetErr(done, IF done.m = done.n THEN "EOF" ELSE "nil")

\* handleChunkCompletion, on the fields of a stream: one more of its chunks
\* is done, and kids more chunks are to come.
Completed(st, kids) ==
    LET done == [st EXCEPT !.m = @ + 1, !.n = @ + kids]
    IN  SetErr(done, IF done.m = done.n THEN "EOF" ELSE "nil")

HandleRestart ==
    /\ Receive("polling")
    /\ chunk[Updated].err = "errRestartChunk"
    /\ num' = [num EXCEPT !.polling = @ - 1]
    /\ chunk' = [chunk EXCEPT ![Updated].err = "nil"]
    /\ ready' = Append(ready, Updated)
    /\ UNCHANGED <<parallel, in, stream>>

\* Faulty variant of HandleSplit: counts the chunk as replaced by its
\* sub-chunks, though it is also counted as complete.
HandleSplitReplaces ==
    LET kids == Children(Updated)
    IN  /\ Receive("polling")
        /\ chunk[Updated].err = "errSplitChunk"
        /\ num' = [num EXCEPT !.polling = @ - 1]
        /\ chunk' = [chunk EXCEPT ![Updated].err = "nil"]
        /\ ready' = ready \o kids
        /\ stream' = [stream EXCEPT ![Updated.stream] =
                                        Completed(@, Len(kids) - 1)]
        /\ UNCHANGED <<parallel, in>>

\* Faulty variant of HandleSplit: keeps the instruction it followed.
HandleSplitKeepsErr ==
    LET kids == Children(Updated)
        done == [stream[Updated.stream] EXCEPT !.m = @ + 1, !.n = @ + Len(kids)]
    IN  /\ Receive("polling")
        /\ chunk[Updated].err = "errSplitChunk"
        /\ num' = [num EXCEPT !.polling = @ - 1]
        /\ ready' = ready \o kids
        /\ stream' = [stream EXCEPT ![Updated.stream] =
                                        SetErr(done, "errSplitChunk")]
        /\ UNCHANGED <<parallel, in, chunk>>

HandleSplit ==
    LET kids == Children(Updated)
    IN  /\ Receive("polling")
        /\ chunk[Updated].err = "errSplitChunk"
        /\ num' = [num EXCEPT !.polling = @ - 1]
        /\ chunk' = [chunk EXCEPT ![Updated].err = "nil"]
        /\ ready' = ready \o kids
        /\ stream' = [stream EXCEPT ![Updated.stream] =
                                        Completed(@, Len(kids))]
        /\ UNCHANGED <<parallel, in>>

\* Faulty variant of HandleStop: does not count the chunk as stopping.
HandleStopUncounted ==
    /\ Receive("polling")
    /\ chunk[Updated].err = "errStopChunk"
    /\ num' = [num EXCEPT !.polling = @ - 1]
    /\ StopChunk(Updated)
    /\ UNCHANGED <<parallel, ready, stream>>

\* The poller found the stream dead.
HandleStop ==
    /\ Receive("polling")
    /\ chunk[Updated].err = "errStopChunk"
    /\ num' = [num EXCEPT !.polling = @ - 1, !.stopping = @ + 1]
    /\ StopChunk(Updated)
    /\ UNCHANGED <<parallel, ready, stream>>

\* Faulty variant of HandleUnexpected: lets the Insights query run on.
HandleUnexpectedUnstopped ==
    /\ Receive("polling")
    /\ chunk[Updated].err = "UnexpectedQueryError"
    /\ num' = [num EXCEPT !.polling = @ - 1]
    /\ KillStream(Updated, "UnexpectedQueryError")
    /\ UNCHANGED <<parallel, ready, in, chunk>>

\* killStream reads c.err after stopChunk sent c away.  By then a stopper
\* that is shutting down may have set it to ErrClosed.
HandleUnexpected ==
    /\ Receive("polling")
    /\ chunk[Updated].err = "UnexpectedQueryError"
    /\ num' = [num EXCEPT !.polling = @ - 1, !.stopping = @ + 1]
    /\ StopChunk(Updated)
    /\ \/ KillStream(Updated, "UnexpectedQueryError")
       \/ closing /\ KillStream(Updated, "ErrClosed")
    /\ UNCHANGED <<parallel, ready>>

\* A terminal status, or a chunk the poller released while shutting down.
HandleTerminal ==
    /\ Receive("polling")
    /\ chunk[Updated].err \in {"TerminalQueryStatusError", "ErrClosed"}
    /\ num' = [num EXCEPT !.polling = @ - 1]
    /\ KillStream(Updated, chunk[Updated].err)
    /\ UNCHANGED <<parallel, ready, in, chunk>>

HandleChunkCompletion ==
    /\ Receive("complete")
    /\ num' = [num EXCEPT !.polling = @ - 1]
    /\ stream' = [stream EXCEPT ![Updated.stream] = Completed(@, 0)]
    /\ UNCHANGED <<parallel, ready, in, chunk>>

HandleStopped ==
    /\ Receive("stopping")
    /\ num' = [num EXCEPT !.stopping = @ - 1]
    /\ UNCHANGED <<parallel, ready, in, chunk, stream>>

HandleChunk ==
    \/ HandleReduceParallel \/ HandleStartFailure \/ HandleChunkStarted
    \/ HandleRestart \/ HandleSplit \/ HandleStop \/ HandleUnexpected
    \/ HandleTerminal \/ HandleChunkCompletion \/ HandleStopped

(* The loop that fills the starter's channel. *)

\* streamHeap.Less
Less(s, t) ==
    \/ Query[s].priority < Query[t].priority
    \/ /\ Query[s].priority = Query[t].priority
       /\ stream[s].next < stream[t].next

\* The heap may hand out live stream s after popping the dead streams D:
\* everything before s, and any of the dead streams that compare equal.
PopsNext(s, D) ==
    /\ Alive(s)
    /\ \A t \in D : ~Alive(t) /\ ~Less(s, t)
    /\ \A t \in pq \ (D \cup {s}) : ~Less(t, s)

Launch(c) ==
    /\ chunk' = [chunk EXCEPT ![c].state = "starting"]
    /\ num' = [num EXCEPT !.starting = @ + 1]
    /\ in' = [in EXCEPT !["starter"] = Append(@, c)]
    /\ UNCHANGED <<userVars, workerVars, loop, parallel, update, remote>>

\* Faulty variant of HasCapacity: off by one.
HasCapacityOffByOne == InFlight <= parallel

HasCapacity == InFlight < parallel

FillReady ==
    /\ loop = "fill" /\ HasCapacity /\ ready # <<>>
    /\ ready' = Tail(ready)
    /\ Launch(Head(ready))
    /\ UNCHANGED <<pq, stream>>

\* A new generation-0 chunk passes through m.ready on its way.
FillNext ==
    /\ loop = "fill" /\ HasCapacity /\ ready = <<>>
    /\ \E s \in pq, D \in SUBSET pq :
          /\ PopsNext(s, D)
          /\ pq' = IF stream[s].next + 1 < NumRoots(Query[s])
                   THEN pq \ D ELSE pq \ (D \cup {s})
          /\ stream' = [stream EXCEPT ![s].next = @ + 1]
          /\ Launch(Root(s, stream[s].next))
    /\ UNCHANGED ready

\* A full house, or nothing to start after popping the dead streams.
FillDone ==
    /\ loop = "fill"
    /\ \/ ~HasCapacity /\ UNCHANGED pq
       \/ /\ HasCapacity /\ ready = <<>> /\ \A s \in pq : ~Alive(s)
          /\ pq' = {}
    /\ loop' = "select"
    /\ UNCHANGED <<userVars, workerVars, parallel, num, ready, in, update,
                   chunk, stream, remote>>

(* Leaving the loop, and shutdown. *)

\* m.close or m.query is closed; m.start and m.poll are closed next.
Exit ==
    /\ loop = "select" /\ closing
    /\ loop' = "drain"
    /\ UNCHANGED <<userVars, workerVars, parallel, num, pq, ready, in,
                   update, chunk, stream, remote>>

Draining(states) ==
    /\ loop = "drain" /\ num.starting + num.polling > 0
    /\ update # <<>> /\ chunk[Updated].state \in states
    /\ update' = Tail(update)
    /\ UNCHANGED <<userVars, workerVars, loop, parallel, pq, ready, remote>>

DrainLive ==
    /\ Draining({"started", "polling"})
    /\ num' = IF chunk[Updated].state = "started"
              THEN [num EXCEPT !.starting = @ - 1, !.stopping = @ + 1]
              ELSE [num EXCEPT !.polling = @ - 1, !.stopping = @ + 1]
    /\ StopChunk(Updated)
    /\ KillStream(Updated, "ErrClosed")

DrainDead ==
    /\ Draining({"starting", "complete"})
    /\ num' = IF chunk[Updated].state = "starting"
              THEN [num EXCEPT !.starting = @ - 1]
              ELSE [num EXCEPT !.polling = @ - 1]
    /\ KillStream(Updated, "ErrClosed")
    /\ UNCHANGED <<in, chunk>>

DrainStopping ==
    /\ Draining({"stopping"})
    /\ num' = [num EXCEPT !.stopping = @ - 1]
    /\ UNCHANGED <<in, chunk, stream>>

\* Starter and poller gave everything back: the streams in the heap are
\* closed, then m.stop.
CloseStreams ==
    /\ loop = "drain" /\ num.starting + num.polling <= 0
    /\ loop' = "drainStop"
    /\ stream' = [s \in Stream |->
                     IF s \in pq THEN SetErr(stream[s], "ErrClosed")
                                 ELSE stream[s]]
    /\ UNCHANGED <<userVars, workerVars, parallel, num, pq, ready, in,
                   update, chunk, remote>>

DrainStop ==
    /\ loop = "drainStop" /\ num.stopping > 0 /\ update # <<>>
    /\ update' = Tail(update)
    /\ num' = [num EXCEPT !.stopping = @ - 1]
    /\ UNCHANGED <<userVars, workerVars, loop, parallel, pq, ready, in,
                   chunk, stream, remote>>

Stopped ==
    /\ loop = "drainStop" /\ num.stopping <= 0
    /\ loop' = "stopped"
    /\ UNCHANGED <<userVars, workerVars, parallel, num, pq, ready, in,
                   update, chunk, stream, remote>>

LoopStep ==
    \/ HandleChunk
    \/ FillReady \/ FillNext \/ FillDone
    \/ Exit
    \/ DrainLive \/ DrainDead \/ DrainStopping \/ CloseStreams
    \/ DrainStop \/ Stopped
=============================================================================
