------------------------------- MODULE Workers -------------------------------
(***************************************************************************)
(* worker.loop and worker.shutdown (worker.go), and the manipulators that  *)
(* specialise a worker: starter, poller and stopper.                       *)
(*                                                                         *)
(* ring[w] holds the chunks the worker has in progress.  While pc[w] is    *)
(* "wait" or "call" the chunk in the local variable c of worker.loop is    *)
(* the head of ring[w]; at "pop" no chunk is taken out of the ring.        *)
(***************************************************************************)
EXTENDS ManagerState

Current(w) == Head(ring[w])

(* What the loop does with the current chunk. *)

\* w.push(c): to the back of the ring.
PushBack(w) ==
    /\ ring' = [ring EXCEPT ![w] = Append(Tail(@), Head(@))]
    /\ UNCHANGED update

\* Faulty variant of SendOut: leaves the chunk in the ring as well.
SendOutKept(w) ==
    /\ ring' = [ring EXCEPT ![w] = Append(Tail(@), Head(@))]
    /\ update' = Append(update, Current(w))

\* w.out <- c
SendOut(w) ==
    /\ ring' = [ring EXCEPT ![w] = Tail(@)]
    /\ update' = Append(update, Current(w))

\* Faulty variant of Pop: with work in progress, does not notice that the
\* channel was closed.
PopIgnoringClosed(w) ==
    /\ pc[w] = "pop"
    /\ \/ /\ in[w] # <<>>
          /\ in' = [in EXCEPT ![w] = Tail(@)]
          /\ ring' = [ring EXCEPT ![w] = Append(@, Head(in[w]))]
          /\ chunk' = [chunk EXCEPT ![Head(in[w])].tmp = 0]
          /\ pc' = [pc EXCEPT ![w] = "wait"]
       \/ /\ in[w] = <<>> /\ (ring[w] # <<>> \/ InClosed(w))
          /\ pc' = [pc EXCEPT ![w] = IF ring[w] # <<>> THEN "wait"
                                                       ELSE "release"]
          /\ UNCHANGED <<in, ring, chunk>>
    /\ UNCHANGED <<mgrVars, userVars, update, stream, remote>>

\* pop: receive a chunk if the channel has one, without blocking when the
\* ring has work to do; a closed and empty channel ends the loop.
Pop(w) ==
    /\ pc[w] = "pop"
    /\ \/ /\ in[w] # <<>>
          /\ in' = [in EXCEPT ![w] = Tail(@)]
          /\ ring' = [ring EXCEPT ![w] = Append(@, Head(in[w]))]
          /\ chunk' = [chunk EXCEPT ![Head(in[w])].tmp = 0]
          /\ pc' = [pc EXCEPT ![w] = "wait"]
       \/ /\ in[w] = <<>> /\ ~InClosed(w) /\ ring[w] # <<>>
          /\ pc' = [pc EXCEPT ![w] = "wait"]
          /\ UNCHANGED <<in, ring, chunk>>
       \/ /\ in[w] = <<>> /\ InClosed(w)
          /\ pc' = [pc EXCEPT ![w] = "release"]
          /\ UNCHANGED <<in, ring, chunk>>
    /\ UNCHANGED <<mgrVars, userVars, update, stream, remote>>

\* The rate-limiting wait saw m.close closed.
WaitClosing(w) ==
    /\ pc[w] = "wait" /\ closing
    /\ PushBack(w)
    /\ pc' = [pc EXCEPT ![w] = "release"]
    /\ UNCHANGED <<mgrVars, userVars, in, chunk, stream, remote>>

\* The wait is over and manipulate begins: starter and poller hand back the
\* chunk of a dead stream, all others go on to call CloudWatch Logs.
Begin(w) ==
    /\ pc[w] = "wait"
    /\ IF w = "stopper" \/ Alive(Current(w).stream)
       THEN /\ pc' = [pc EXCEPT ![w] = "call"]
            /\ UNCHANGED <<ring, update, chunk>>
       ELSE /\ pc' = [pc EXCEPT ![w] = "pop"]
            /\ SendOut(w)
            /\ chunk' = IF w = "poller"
                        THEN [chunk EXCEPT ![Current(w)].err = "errStopChunk"]
                        ELSE chunk
    /\ UNCHANGED <<mgrVars, userVars, in, stream, remote>>

\* The outcomes throttlingError and temporaryError: try again until the
\* worker's limit, then hand the chunk back with the error of the last try.
Retry(w, e) ==
    LET c == Current(w)
    IN  /\ chunk' = [chunk EXCEPT ![c].tmp = @ + 1, ![c].err = e]
        /\ IF chunk[c].tmp + 1 < MaxTries[w] THEN PushBack(w) ELSE SendOut(w)

\* CloudWatch Logs answered: the worker goes back to pop.
Answered(w) ==
    /\ pc[w] = "call"
    /\ pc' = [pc EXCEPT ![w] = "pop"]
    /\ UNCHANGED <<mgrVars, userVars, in>>

(* starter.manipulate, after StartQuery answered. *)

StarterRetry ==
    /\ Answered("starter")
    /\ "StartRetry" \in Faults
    /\ Retry("starter", "StartQueryError")
    /\ UNCHANGED <<stream, remote>>

\* The concurrency limit is exceeded.
StarterLimited ==
    /\ Answered("starter")
    /\ "StartLimit" \in Faults
    /\ SendOut("starter")
    /\ chunk' = [chunk EXCEPT ![Current("starter")].err = "errReduceParallel"]
    /\ UNCHANGED <<stream, remote>>

\* Stream.Close cancels the context of the calls about the stream's chunks.
Cancelled(c) == stream[c.stream].err = "ErrClosed"

\* A permanent failure, a nil query ID or a cancelled call.
StarterFails ==
    /\ Answered("starter")
    /\ "StartFailure" \in Faults \/ Cancelled(Current("starter"))
    /\ SendOut("starter")
    /\ chunk' = [chunk EXCEPT ![Current("starter")].err = "StartQueryError"]
    /\ UNCHANGED <<stream, remote>>

StarterStarts ==
    LET c == Current("starter")
    IN  /\ Answered("starter")
        /\ SendOut("starter")
        /\ chunk' = [chunk EXCEPT ![c].state = "started", ![c].err = "nil"]
        /\ remote' = [remote EXCEPT ![c] = "running"]
        /\ UNCHANGED stream

(* poller.manipulate, after GetQueryResults answered. *)

PollerRetry ==
    /\ Answered("poller")
    /\ "PollRetry" \in Faults
    /\ Retry("poller", "UnexpectedQueryError")
    /\ UNCHANGED <<stream, remote>>

\* Scheduled, Unknown, or Running without a preview error.
PollerInconclusive ==
    /\ Answered("poller")
    /\ "PollPending" \in Faults
    /\ PushBack("poller")
    /\ chunk' = [chunk EXCEPT ![Current("poller")].err = "nil"]
    /\ UNCHANGED <<stream, remote>>

\* A non-retryable error, a nil status, a cancelled call, or a result that
\* cannot be translated; only in the last case may the query have ended.
PollerUnexpected(ended) ==
    LET c == Current("poller")
    IN  /\ Answered("poller")
        /\ "PollUnexpected" \in Faults \/ (Cancelled(c) /\ ~ended)
        /\ SendOut("poller")
        /\ chunk' = [chunk EXCEPT ![c].err = "UnexpectedQueryError"]
        /\ remote' = IF ended THEN [remote EXCEPT ![c] = "ended"] ELSE remote
        /\ UNCHANGED stream

\* Complete with the maximum number of results, in a splittable chunk.
PollerMaxed ==
    LET c == Current("poller")
    IN  /\ Answered("poller")
        /\ "PollMaxed" \in Faults
        /\ Splittable(QueryOf(c), c)
        /\ SendOut("poller")
        /\ chunk' = [chunk EXCEPT ![c].err = "errSplitChunk"]
        /\ remote' = [remote EXCEPT ![c] = "ended"]
        /\ UNCHANGED stream

\* Complete: sendChunkBlock appends the results to the stream, which may
\* have died since Begin looked.
PollerCompletes ==
    LET c == Current("poller")
    IN  /\ Answered("poller")
        /\ SendOut("poller")
        /\ chunk' = [chunk EXCEPT ![c].state = "complete", ![c].err = "nil"]
        /\ stream' = [stream EXCEPT ![c.stream].blocks = Append(@, c)]
        /\ remote' = [remote EXCEPT ![c] = "ended"]

\* Failed, in a chunk that may be restarted.
PollerRestarts ==
    LET c == Current("poller")
    IN  /\ Answered("poller")
        /\ "PollFailed" \in Faults
        /\ ~QueryOf(c).preview /\ chunk[c].restart < MaxRestart
        /\ SendOut("poller")
        /\ chunk' = [chunk EXCEPT ![c].restart = @ + 1,
                                  ![c].err = "errRestartChunk"]
        /\ remote' = [remote EXCEPT ![c] = "ended"]
        /\ UNCHANGED stream

\* Cancelled, Timeout, an unknown status, or Failed once too often.
PollerTerminal ==
    LET c == Current("poller")
    IN  /\ Answered("poller")
        /\ "PollTerminal" \in Faults
        /\ SendOut("poller")
        /\ chunk' = [chunk EXCEPT ![c].err = "TerminalQueryStatusError"]
        /\ remote' = [remote EXCEPT ![c] = "ended"]
        /\ UNCHANGED stream

(* stopper.manipulate: its answers change nothing but the chunk's tries.   *)
(* An Insights query counts as ended once its last stop attempt is made.   *)

\* The errors with an Unwrap method, all of which have a cause.
Wraps(e) == e \in {"StartQueryError", "UnexpectedQueryError"}

StopperRetry ==
    LET c == Current("stopper")
    IN  /\ Answered("stopper")
        /\ \/ "StopThrottled" \in Faults
           \/ "StopTemporary" \in Faults /\ Wraps(chunk[c].err)
        /\ Retry("stopper", chunk[c].err)
        /\ remote' = IF chunk[c].tmp + 1 < MaxTries["stopper"]
                     THEN remote ELSE [remote EXCEPT ![c] = "ended"]
        /\ UNCHANGED stream

\* worker.loop logs a temporary error by unwrapping c.err.  Starter and
\* poller just set c.err to an error that wraps its cause; the stopper
\* leaves it alone, and a nil dereference ends the program.
StopperPanics ==
    /\ pc["stopper"] = "call"
    /\ "StopTemporary" \in Faults /\ ~Wraps(chunk[Current("stopper")].err)
    /\ pc' = [w \in Worker |-> "panic"]
    /\ loop' = "panic"
    /\ UNCHANGED <<userVars, parallel, num, pq, ready, in, ring, update, chunk,
                   stream, remote>>

StopperFinishes ==
    /\ Answered("stopper")
    /\ SendOut("stopper")
    /\ remote' = [remote EXCEPT ![Current("stopper")] = "ended"]
    /\ UNCHANGED <<chunk, stream>>

(* worker.shutdown: release the in-progress chunks, then the chunks left   *)
(* in the in channel until the manager loop closes it.  The stopper makes  *)
(* one stop attempt for each of them.                                      *)

ReleaseChunk(w, c) ==
    /\ update' = Append(update, c)
    /\ chunk' = [chunk EXCEPT ![c].err = "ErrClosed"]
    /\ remote' = IF w = "stopper" THEN [remote EXCEPT ![c] = "ended"]
                                  ELSE remote
    /\ UNCHANGED <<mgrVars, userVars, pc, stream>>

ReleaseInProgress(w) ==
    /\ pc[w] = "release" /\ ring[w] # <<>>
    /\ ReleaseChunk(w, Current(w))
    /\ ring' = [ring EXCEPT ![w] = Tail(@)]
    /\ UNCHANGED in

ReleaseStray(w) ==
    /\ pc[w] = "release" /\ ring[w] = <<>> /\ in[w] # <<>>
    /\ ReleaseChunk(w, Head(in[w]))
    /\ in' = [in EXCEPT ![w] = Tail(@)]
    /\ UNCHANGED ring

WorkerDone(w) ==
    /\ pc[w] = "release" /\ ring[w] = <<>> /\ in[w] = <<>> /\ InClosed(w)
    /\ pc' = [pc EXCEPT ![w] = "done"]
    /\ UNCHANGED <<mgrVars, userVars, in, ring, update, chunk, stream, remote>>

StarterAnswer ==
    \/ StarterRetry \/ StarterLimited \/ StarterFails \/ StarterStarts

PollerAnswer ==
    \/ PollerRetry \/ PollerInconclusive
    \/ \E ended \in BOOLEAN : PollerUnexpected(ended)
    \/ PollerMaxed \/ PollerCompletes \/ PollerRestarts \/ PollerTerminal

StopperAnswer == StopperRetry \/ StopperPanics \/ StopperFinishes

\* What every worker does besides reacting to answers.
CommonStep(w) ==
    \/ Pop(w) \/ WaitClosing(w) \/ Begin(w)
    \/ ReleaseInProgress(w) \/ ReleaseStray(w) \/ WorkerDone(w)

StarterStep == CommonStep("starter") \/ StarterAnswer
PollerStep  == CommonStep("poller") \/ PollerAnswer
StopperStep == CommonStep("stopper") \/ StopperAnswer
=============================================================================
