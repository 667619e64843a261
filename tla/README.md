# A verification project for Incite

Incite is a Go library that runs CloudWatch Logs Insights queries. A program
creates a `QueryManager`, submits queries to it and reads the results of each
query from a `Stream`. Inside, the manager cuts the time range of every query
into *chunks*, and four goroutines pass the chunks around over channels. This
directory holds TLA+ modules that model the library, TLC configurations that
model-check them on small instances, and theorems about them that TLAPS proves.

Paths like `mgr.go:258` are relative to `src/`.

1. [The system](#1-the-system): components, interactions, hard behaviours
2. [The modules](#2-the-modules): how state and actions correspond to the code
3. [What the runs show](#3-what-the-runs-show): properties, bounds, fairness
4. [Where documentation and code disagree](#4-where-documentation-and-code-disagree)
5. [What is proved](#5-what-is-proved)
6. [What is not modelled](#6-what-is-not-modelled), and [the plan](#7-the-plan)

## 1. The system

### Components

| Component | Code | State it keeps | Operations |
|---|---|---|---|
| Manager loop | `mgr.go` | the heap `pq` of streams, the ring `ready` of chunks, `numReady`, `numStarting`, `numPolling`, `numStopping`, the adapter `parallel`, statistics | `loop`, `addQuery`, `handleChunk` and its handlers, `getReadyChunk`, `splitChunk`, `shutdown` |
| Worker framework | `worker.go` | a ring of in-progress chunks, a count of them, tries of each chunk, a regulator | `loop`, `pop`, `push`, `shutdown` |
| Starter, poller, stopper | `starter.go`, `poller.go`, `stopper.go` | none of their own: they write the chunk (state, error, query ID, restarts) and, the poller, the stream's blocks | `context`, `manipulate`, `release` |
| Chunk planning and splitting | `stream.go`, `chunk.go`, `mgr.go`, `poller.go` | `next`, `m`, `n0`, `n` of a stream; `start`, `end`, `gen` of a chunk | `nextChunkRange`, `splitChunk`, `split`, `splittable` |
| Public API of the manager | `mgr.go`, `incite.go` | `m.close`, `m.query`, `queryLock` | `NewQueryManager`, `Query`, `Close`, `GetStats` |
| Stream | `stream.go` | `blocks`, the position `i`, `j` of the reader, `err`, statistics, a lock and a condition variable | `Read`, `Close`, `setErr`, `alive`, `GetStats` |
| Rate regulation, adaptive capacity | `regulator.go`, `adapter.go` | a timer, the time of the last request, the current value of an adapted limit | `wait`, `setTimerRPS`, `increase`, `decrease` |
| Range statistics | `chunk.go`, `mgr.go`, `poller.go`, `incite.go` | `Stats` of chunk, stream, manager | `started`, `add`, `Stats.add` |
| Preview | `poller.go` | the set of `@ptr`s a chunk has reported | `translateResultsPreview`, `translateResultsNoPreview` |
| Synchronous query, ReadAll | `query.go`, `readall.go` | a manager and a stream of its own | `Query`, `ReadAll` |
| Error classification | `errors.go` | none | `classifyError`, the exported error types |
| Unmarshal | `unmarshal.go` | none between calls | `Unmarshal` |
| Client interface, logging, time helpers, version | `cloudwatchlogs_actions.go`, `log.go`, `time.go`, `version.go` | none | conversions, formatting |

### How they interact

    program --Query--> m.query --+                 +-- m.start --> starter --+
                                 v                 |                         |
                            manager loop ----------+-- m.poll ---> poller  --+--> m.update
                              ^   heap, ready ring |                  |      |       |
                              |                    +-- m.stop ---> stopper --+       |
                              +------------------------------------------------------+
                                                                      |
    program <--Read-- stream  <------ blocks (poller), err (loop) ----+

A chunk is owned by whoever holds it: the manager loop puts it on a worker's
channel, the worker keeps it in its ring, calls CloudWatch Logs about it, and
sends it back on `m.update`. What the worker wants done is in two fields of the
chunk, `state` and `err`: some error values (`errSplitChunk`,
`errRestartChunk`, `errStopChunk`, `errReduceParallel`) are instructions to the
loop. Streams are shared by the loop (which sets `err`), the poller (which
appends blocks and looks at `alive`), the starter (`alive`) and the program,
under the stream's lock. Closing `m.close` tells all four goroutines to
finish: workers give their chunks back, the loop collects them, stops those
whose Insights query runs, and closes the workers' channels.

### What is hard about it

* All four goroutines and the program interleave freely; `select` picks at
  random among ready cases, so what a closed manager does next is a race.
* `state` and `err` of a chunk are set by one goroutine and interpreted by
  another, several queue positions later. A field nobody resets is a message
  nobody sent.
* Streams end when `m == n`, with `n` moving while splits happen, chunks
  completing in any order and failing at any moment.
* Parallelism drops while chunks are in flight; Insights queries stay open
  while their chunk waits for the stopper.
* CloudWatch Logs throttles, fails, restarts and splits at will.
* Chunk boundaries are aligned to absolute multiples of the chunk size, while
  the number of chunks is computed once, somewhere else.
* `Query` holds a lock while it waits for the loop; `Close` wants the same lock
  and makes the loop leave. Both learn of a closed manager from a panic.
* A stream's lock does not guard everything that happens to its blocks, and its
  condition variable wakes one reader at a time.
* A Go timer that fired keeps its value until somebody receives it, so whoever
  sets it again must know whether anybody did.

### What makes each component correct

* *Manager loop*: every chunk is in one place and is counted once; no more than
  `Parallel` chunks in flight; no channel is ever over-full; no running
  Insights query is forgotten; a more urgent query goes first; after `Close`
  everything ends.
* *Workers*: a chunk taken in is given back; tries are limited; a retried
  chunk changes nothing; on `Close` all chunks come back, in the state they
  are in.
* *Planning and splitting*: chunks are non-empty, inside their query, disjoint
  and complete; `n0` is their exact number; splits make progress.
* *Stream*: results in blocks are delivered once; EOF means all of them were;
  an error is final; a blocked reader wakes up when there is something to read.
* *Regulator, adapter*: never faster than the current rate; values stay in
  bounds; the worker is never stuck on a timer.
* *Statistics*: `RangeStarted`, `RangeDone`, `RangeFailed`, `RangeMaxed` add up
  to the range requested.
* *Preview*: previews, minus the rows they take back, end as the final result.

`PROJECT.json` lists the hazards this code is exposed to, each at its line and
with the properties that would catch it going wrong.

## 2. The modules

| Module | Extends | What it is |
|---|---|---|
| `Ranges` | | the arithmetic of time ranges: number, boundaries and splits of chunks |
| `ChunkPlan` | `Ranges` | all ways in which one query may be cut and split |
| `ManagerState` | `Ranges` | constants, variables, initial state, type invariant of the manager |
| `Workers` | `ManagerState` | worker framework, starter, poller, stopper |
| `ManagerLoop` | `ManagerState` | `mgr.loop`, the handlers, `mgr.shutdown` |
| `QueryManager` | `Workers`, `ManagerLoop` | the composition with the program's calls; specifications and properties |
| `QueryContract` | | abstract: what a query looks like to the program that submitted it |
| `ContractRefinement` | `QueryManager` | the mapping under which `QueryManager` implements `QueryContract` |
| `RangeStats` | `QueryManager` | the range statistics, added to the steps that count |
| `PublicCalls` | `QueryManager` | `mgr.Query` and `mgr.Close` step by step, with `queryLock` |
| `SyncQuery` | `PublicCalls` | the synchronous `Query` and `ReadAll` over a manager of their own |
| `Preview` | | the rows sent for a batch of previewed results, and what they mean to a reader |
| `ResultQueue` | | abstract: a queue of rows that ends in an error |
| `ResultStream` | `Preview` | a stream at the granularity of its lock: readers, poller, loop, `Close` |
| `Regulator` | | a worker's rate limit: timer, minimum delay, adaptive rate, with a clock |
| `MCChunkPlan`, `MCQueryManager`, `MCRangeStats`, `MCPublicCalls`, `MCSyncQuery`, `MCResultStream` | | small instances for TLC |
| `QueryInvariant` | `QueryManager` | the inductive invariant `IndInv` behind the proofs about the manager |
| `RangesProofs`, `ChunkPlanProofs`, `RegulatorProofs` | the module of that name | theorems about the arithmetic, the chunk plan, the regulator |
| `QueryManagerProofs` | `QueryManager`, `RangesProofs` | types, and the number of chunks in flight |
| `PlacesProofs` | `QueryInvariant`, `QueryManagerProofs` | in which queue each chunk is, what the counters count |
| `DeliveryProofs` | `ContractRefinement`, `PlacesProofs` | what the streams deliver; `IndInv` as a whole; the refinement of the contract |
| `CompositionProofs` | `SyncQuery`, `RangeStats`, `DeliveryProofs` | the public calls, the synchronous `Query`, the statistics |
| `StreamProofs` | `ResultStream`, `RangesProofs` | the stream under its lock: the queue it is, previews, `Close` |

Operators called "Faulty variant of ..." are no part of the specifications.
Each is what the definition after it would be with a plausible bug, and there
to show that the property it is listed with in `PROJECT.json` notices the bug.

### State

| Variable | In the code |
|---|---|
| `loop` | the program counter of the manager loop: `select` (`mgr.go:247-256`), `fill` (`258-266`), `drain` (`274-298`), `drainStop` (`308-312`), `stopped`; `panic` when the program died |
| `closing` | `m.close` and `m.query` are closed (both in `Close`, under `queryLock`) |
| `parallel` | `int(m.parallel.value())`, the whole part of the adapter's float |
| `num` | `numStarting`, `numPolling`, `numStopping`. Like the code's, they are integers that nothing keeps from going below zero |
| `pq`, `ready` | the heap, as the set of its streams (`Less` chooses among them); the ring, as a sequence |
| `in` | `m.start`, `m.poll`, `m.stop`, by the worker that receives |
| `update` | `m.update` |
| `ring`, `pc` | a worker's in-progress ring, the current chunk at its head; its program counter: `pop`, `wait` (for the rate limit), `call`, `release` (`worker.shutdown`), `done` |
| `chunk` | `state`, `err`, the tries of the current worker, `restart` |
| `stream` | `err`, `next`, `m`, `n`, `blocks` |
| `accepted` | streams that `Query` returned to the program |
| `remote` | the Insights query of a chunk in CloudWatch Logs |
| `reported` | history: the last error `Read` returned |

`RangeStats` adds `chunkStats`, `streamStats` and `mgrStats` (the embedded `Stats`
of chunk, stream and manager). `PublicCalls` adds `queryLock` and, per calling
goroutine, `call`, the point its call has reached. `SyncQuery` adds the program
counters of the main goroutine, the helper and the drainer, and the value on its
way through the channel `c`. `ResultStream` has the fields of `stream` under their
own names, `lock` with its holder, `waiting` for the queue inside `sync.Cond`, and
the poller's local slice while it appends. `Regulator` has `minDelay`, `timer`,
`ding`, `val` and, as ages, `lastReq` and `last`; `full` is the buffer of the
timer's channel. Its history `recent` has the ages of the last `Rps + 1` requests.

`numReady` is `Len(ready)`. A chunk is named by its stream and its range: the
chunks of one query form a forest of ever shorter ranges (that is
`SplitPartition`, below), so no two have the same name.

### Actions

Every handler of `mgr.handleChunk` is one action of `ManagerLoop`; the inner
loop that fills the starter's channel takes one step per chunk (`FillReady`,
`FillNext`), so the program and the workers interleave with it. `getReadyChunk`
pops dead streams from the heap until it finds a live one; the streams it pops
are `PopsNext`'s choice among those the order of the heap allows. Each worker
takes `Pop`, then `Begin` (or `WaitClosing`) when its rate-limiting wait is
over, then one action per class of answer. `Begin` reads `alive` and the answer
is handled in a later step, as in the code, where the stream may die in
between. Sending on a channel is not guarded by its capacity: `ChannelsFit`
says that it need not be.

In `RangeStats` each action is one of `QueryManager` with the counting the code
does in the same handler. In `PublicCalls` `Query` and `Close` are split where
another goroutine can come between: before the lock, at the unbuffered send
(together with the receive in `mgr.loop`), and between the two channels that
`Close` closes. `SyncQuery` is a program that uses those calls, so that a whole
`QueryManager` runs under the two goroutines of `query.go`.

In `ResultStream` a step under `s.lock` is atomic except where something happens
without the lock. `stream.Close` resets `blocks`, `i` and `j` after it gave the
lock back (`stream.go:44`): three steps, in any order. A `Read` therefore tests
`i`, loads a block, copies a row and goes to the next block in separate steps, and
the poller's `append` reads and stores the blocks in two. Loads and stores of one
field are taken to be atomic.

`Regulator` follows one worker around its loop: `BeginWait` is `setTimerRPS` with
`setTimer` inlined, and `stuck` is the state of a goroutine that receives from a
timer's channel in which there is nothing and never will be. The stopper differs
in that its waits are not cancelled and that it makes requests, at the same
pace, while it releases chunks during shutdown. Go's timers changed in version
1.23; `go.mod` asks for 1.14, so the older ones apply.

### Abstractions

* Whole milliseconds are the unit of time (`hasSubMillisecond` refuses anything
  else), and time 0 is Go's zero time, to which `Truncate` is relative. Times
  are unbounded: saturation of `time.Duration` after 292 years is left out.
* In the modules of the manager results are abstracted to the chunk they belong
  to. `blocks` lists the chunks whose final results were delivered, also when
  they are empty, in which case the code appends no block; previews are left out
  there. In `ResultStream` a row is its `@ptr` and whether it is `@deleted`.
* What CloudWatch Logs answers is chosen from `Faults`, by the class that
  `classifyError` and the query status put it in. Logging is left out except
  where it ends the program (`StopperPanics`).
* In the modules of the manager the rate-limiting wait has no duration and the
  adapter of parallelism no clock: `HandleChunkStarted` lets it grow by any amount
  up to its maximum. In `Regulator` there is a clock, and a chunk is reduced to
  whether a request is made about it and whether that is throttled.
* The contexts of calls: closing a stream may make a call about it fail
  (`Cancelled`). Closing the manager makes no call fail.
* A query is `ended` when CloudWatch Logs said it is over, or once the program
  made its last attempt to stop it, whatever came of that attempt. A query
  whose `StartQuery` answer was lost has no ID the program could know and is
  not followed.
* In the modules of the manager `Stream.Close` and a `Read` that returns an error
  are one step each; a `Read` that returns data changes nothing the manager sees
  and is left out. In `QueryManager` alone `Query` is one step as well.

## 3. What the runs show

### Passing runs

| Run | Instance | Properties |
|---|---|---|
| `EveryFault.cfg` (`QueryManager`) | a chunk that splits in two, `Parallel` 2, two tries of starter and stopper, one restart, every fault | `CountersMatch`, `NoOrphanWhileOpen`, `OnePlace`, `ReleasedAtEOF`, `NoInternalError`, `ImplementsContract` |
| `Splits.cfg` (`RangeStats`) | two chunks, one of which splits, `Parallel` 2, one restart, concurrency limit, failures to start and to poll; up to the first `Close` or `Stream.Close` | `ChannelsFit`, `InFlightWithinParallel`, `OpenQueriesWithinParallel`, `CompleteAtEOF`, `CountsLeaveRoom`, `DeliveredAtMostOnce`, `StatsOrdered`, `StatsAtEOF`, `FailureCounted`, `StatsFinalAtEOF` |
| `Shutdown.cfg` (`PublicCalls`) | two goroutines that query, two that close, `Parallel` 1 | `CallResults`, `CallsReturn`, `CloseEndsGoroutines` |
| `SyncQuery.cfg` (`SyncQuery`) | one chunk that splits, fails and restarts, and a context | `IndInv`, `SyncComplete`, `SyncReturns`, `SyncLeavesNothing` |
| `Delivery.cfg` (`ResultStream`) | two readers with slices of one and two rows; a chunk of up to two rows and two previews, and one without rows | `ImplementsQueue`, `PreviewsConsistent`, `NetViewAtEOF`, `PanicOnlyInClose`, `EndIsSeen`, `RowsAreRead` |
| `Regulator.cfg` (`Regulator`) | three requests per second, six ticks per second, fixed and adaptive, stopper and others | `TypeOK`, `NeverStuck`, `RequestsPerSecond`, `RecoversSlowly`, `Paced`, `WaitsEnd` |
| `ChunkPlan.cfg` (`ChunkPlan`) | every query of at most 8 ms, every chunk size and `SplitUntil`; one chunk of 1 to 11 ms from an odd start | `LeavesDisjoint`, `CoversAfterLastRoot`, `RootsAligned`, `SplitsIntoFew`, `SplittingEnds` |

In `EveryFault` and `Shutdown` the program may close a stream, and the
manager, at any moment; in `SyncQuery` the manager is closed by `Query` itself.

* `IndInv` is the inductive invariant of section 5, from which most of the others
  follow for every configuration. It is the dearest to evaluate, and `SyncQuery.cfg` checks it
  with a split, a restart and `Close`; the faults and the second slot that
  run lacks are those of the proof.
* `CountersMatch`: the three counts are exact in every state, also during
  shutdown. They decide whether the loop may start a chunk and whether
  `shutdown` waits, on a chunk that must come, or leaves.
* `ChannelsFit`: the buffers made in `NewQueryManager` are never exceeded. With
  fewer the loop and a worker could each wait for the other to receive.
* `NoOrphanWhileOpen`: while the manager is open a running Insights query has a
  chunk that somebody will look at again. (After `Close` this fails: see
  below.)
* `InFlightWithinParallel`, `OpenQueriesWithinParallel`: the first is about the
  program, the second about CloudWatch Logs, where a query stays open until it
  ends by itself or is stopped.
* `ReleasedAtEOF`, `CompleteAtEOF`, `CountsLeaveRoom`: what EOF promises. A
  stream says EOF when as many chunks completed as it has; with `n` one too small,
  or counted at the wrong time, it would say so early.
* `ImplementsContract`: the refinement of `QueryContract`. The mapping forgets
  everything but how each stream stands and how often each millisecond's results
  are in it. What the manager does then looks as if results of disjoint parts
  arrived in any order, with EOF when all are there and nothing but `Close` after
  it. The contract lets a failed query recover: the documentation does not, but
  the code does (`StickyError.cfg`).
* `NoInternalError`: instructions between goroutines do not reach the program.
* `OnePlace`, `DeliveredAtMostOnce`: ownership of chunks, and of their results.
* `CloseEndsGoroutines`: no goroutine outlives `Close`.
* `CallResults`, `CallsReturn`: a `Query` waiting in its send with the lock held
  cannot keep `Close` from the lock for ever, nor the other way round, and what
  either returns is true: refused queries never run.
* `SyncComplete`, `SyncReturns`, `SyncLeavesNothing`: the synchronous `Query`
  returns when its context expires, whatever the service does, and otherwise as
  soon as the service lets the query end; without an error it has all results
  once; helper, drainer and the manager's goroutines end. The helper does
  not when the manager was closed with the only chunk in the ready ring, as
  nobody then closes the stream it reads (`CloseReady.cfg`), and the
  property says so. The run leaves out failures that revive a stream, after
  which it cannot end either (`StickyError.cfg`).
* `StatsOrdered`, `StatsAtEOF`, `StatsFinalAtEOF`, `FailureCounted`: the order the
  documentation of `Stats` gives the counters, their values at EOF, that they
  stay as they are from the moment `Read` returned EOF, and that a failure the
  reader can see has been counted.
* `ImplementsQueue`: until `Close` a stream is the abstract `ResultQueue`. The
  unread rows are computed from `blocks`, `i` and `j`; each row copied takes the
  first of them, whatever the sizes of slices and blocks and however readers and
  poller take turns, and an error is told to nobody while a row is left.
* `PreviewsConsistent`, `NetViewAtEOF`: a preview that comes, goes and comes
  again is neither repeated nor lost; after EOF the rows that were not taken back
  are the final results.
* `PanicOnlyInClose`: `Read` does index out of range when `Close` takes the blocks
  away between its test and its use of `i` (section 4), and in no other way.
* `EndIsSeen`, `RowsAreRead`: `Signal` wakes one waiting reader. That is enough for
  rows, and for one reader to learn of the end; the other ones may wait for ever,
  so a stream has at most one reader that can count on EOF.
* `NeverStuck`, `RequestsPerSecond`, `WaitsEnd`: `ding` and the timer agree about
  the value in the channel, however waits end. Otherwise the worker would wait
  for a value that was received already, or find an old one and go too early.
* `Paced`, `RecoversSlowly`: the delay follows the adapted rate, and the rate the
  clock. `RequestsPerSecond` holds to the nanosecond if `RPS` divides a second, as
  it does in the model; otherwise the truncated division in `setMinDelay` lets
  the next request come up to `RPS` nanoseconds early.
* The properties of `ChunkPlan` are about arithmetic: `n0` as `Query` computes
  it, boundaries as `nextChunkRange` does, and splits as `splitChunk` does,
  agree for ranges that are aligned to the chunk size at either end, both or
  neither.

### Bounds, and why they are enough

The state is finite without any bound in a guard: chunks come from finite
ranges, tries stop at `MaxTries`, restarts at `MaxRestart`, a closed stream
or manager cannot be closed again. `MaxTries` is 10 (3 for the stopper)
and `maxRestart` 2 in the code; in the runs a chunk meets both the try before
the limit and the one at it (`MaxTries` 2) or only the latter (1), and fails below and at `MaxRestart`.
`Parallel` is 1 or 2, with as many chunks and more than that. Two chunks
in flight are needed for one to complete while another fails, and for the
concurrency limit to lower parallelism below what is in flight; a third one
waits while they do (in `Splits.cfg` it comes from a split); and two
streams are needed for the heap to have an order (`Shutdown.cfg`). A split in the runs of the manager makes two sub-chunks, which suffices for
counting; `ChunkPlan` has splits into three and four. A quarter of a range
first fails to be a whole millisecond, with `SplitUntil` below it, at 5 ms;
11 ms covers all remainders more than once.

Faults are divided among the runs. `EveryFault` has all of them, with a chunk
that can split; there the constraint `FewRepeats` lets one chunk at a time be
between two tries or restarted. Runs with more chunks, with
statistics or with liveness have the faults that matter to their properties, as
the full set exceeds what TLC can enumerate in minutes. `Splits` also leaves out what follows a `Close` or a
`Stream.Close` (the constraint `NothingClosed`), which multiplies its states by
ten or more: its properties are about queries that come to their end.

`ResultStream` bounds the polls that find a chunk running (`MaxPolls`): two, and
the final batch, let a row come, go and come again. Slices of one and two rows end
inside a block, at its end, and beyond it; two readers are needed for one to
wait while the other is woken, two chunks for one to fail while the other
completes. Its histories `got` and `final` end with `Close`, after which nothing is
said about rows. `Regulator` caps ages where they stop to matter (a second for
`lastReq`; as long as full recovery takes for `last`); six ticks give one, two and
three requests per second delays of six, three and two ticks, and a rate between
them is truncated as in the code.

### Fairness

`Fairness` is weak fairness for each of the four goroutines, which the Go
scheduler gives, and calls to CloudWatch Logs return. It has strong fairness
for `Exit`: the loop sees `m.close` closed every time it comes to its `select`,
where Go picks at random among ready cases, so `m.update` cannot win for ever.
The program's calls are under no fairness.

`CallsFairness` adds that a `Query` or `Close` that can go on does, and that the
loop's `select` does not pass over a waiting send for ever. `SyncFairness` is the
same for the goroutines of `query.go`; nothing makes the context expire. The second
half of `SyncReturns` also needs the service to end a query: `Responsive` is
strong fairness of a poll of each chunk that is not answered "still running".

In `ResultStream` readers go on and get the lock when it is free, and what the
poller and the loop have in hand they finish; nothing makes the service answer or
anybody close. In `Regulator` time passes, timers fire, and a goroutine receives
from a channel that has something for it.

## 4. Where documentation and code disagree

Each of these runs checks one statement of the documentation, and TLC finds an
execution of the model that violates it.

| Run | The statement | What happens |
|---|---|---|
| `StopTemporary.cfg` | a temporary error "should be retried up to the worker's maximum try limit" (`worker.go:33-35`) | `StopQuery` meets a temporary error for the chunk of a closed stream. `worker.loop` logs `errors.Unwrap(c.err).Error()`, but the stopper has not set `c.err`, which is `errStopChunk` and wraps nothing: nil dereference, the program ends. |
| `DeadStream.cfg` | closing a stream releases "the local (in-process) and remote" resources (`incite.go:337-339`) | The chunk's `StartQuery` hits the concurrency limit and the chunk waits with `c.err` still `errReduceParallel`. The stream is closed. The starter returns the chunk of a dead stream as it is; the loop reads the old error as a new one, lowers parallelism and makes the chunk ready again, for ever. |
| `StickyError.cfg` | after `StartQueryError` "all subsequent reads on the stream will return an error" (`errors.go:29-31`) | One chunk fails and `Read` says so. Another chunk completes: `handleChunkCompletion` calls `killStream` with a nil `c.err`, and `setErr` replaces the error by nil. The stream is alive again, though it cannot end. |
| `CloseReady.cfg` | closing the manager acts "as if each query's Stream had been explicitly closed" (`incite.go:310-312`) | A chunk waits in the ready ring and its stream has no other chunk left to make, so it is not in the heap. `shutdown` closes the streams in the heap and of the chunks it collects, not this one: its reader waits for ever. |
| `CloseOrphan.cfg` | closing the manager "will immediately cancel all running queries" (`incite.go:310-311`) | The poller notices `m.close` first and gives its chunk back with `ErrClosed`. The loop's `select` picks `m.update` before `m.close`, and `handlePollingError` takes the chunk for one that is over: its Insights query is never stopped. |

`DeadStream.cfg` is about something that must happen eventually and is checked
under `FairSpec`; the others are violated by a finite execution.

These need no run to see them: they fail by construction of the code, or the
passing runs are stated so as to allow them.

* A lower priority number goes first (`incite.go:156-159`), but restarted, split
  and delayed chunks in the ready ring go before anything in the heap, whatever
  their priority (`mgr.go:438`).
* With `Parallel` 1, chunks run "serially, in ascending order of time"
  (`query.go:20-23`), but a restarted sub-chunk is made ready again behind its
  later siblings (`mgr.go:383`).
* Sub-chunks are "no smaller than SplitUntil" (`incite.go:175-177`), but the last
  one is whatever is left (`chunk.go:78`).
* `RangeStarted` is "always less than or equal to RangeRequested"
  (`incite.go:224-226`), but a generation-0 chunk that is restarted is counted
  again at each start (`chunk.go:69`; `StatsAtEOF` has the exact sum).
* `RangeFailed` counts ranges that ended "because the Stream or QueryManager was
  closed" (`incite.go:242-246`), but chunks stopped or drained for that reason are
  not counted.
* Statistics "will stop changing after the Read method returns io.EOF or any
  other error" (`incite.go:347-350`): true of EOF (`StatsFinalAtEOF`), not of other
  errors, after which further chunks of the stream still complete.
* The lock of a stream controls "access to the below mutable fields"
  (`stream.go:27`), but `Close` resets `blocks`, `i` and `j` without it
  (`stream.go:44`). A `Read` at the same time may panic with an index out of range,
  and results appended at the same time, or later, are read from the closed
  stream before `ErrClosed`.
* With adaptation disabled (`Config.DisableAdaptation`) the request rates are fixed,
  but parallelism still adapts (`mgr.go:84`).

## 5. What is proved

The proofs hold for every value of the constants that the modules' assumptions
allow: any finite set of queries, any valid times, chunk sizes and
`SplitUntil`, any `Parallel`, `MaxTries` and `MaxRestart`, any set of faults.
The assumptions are what `Query` and `NewQueryManager` enforce.

**Ranges** (`RangesProofs`). `RootsPartition`: for a valid query,
`NextChunkRange` for `0 .. NumRoots - 1` gives non-empty, contiguous ranges from
the start of the query to its end. The heart of it is that an aligned end is a
whole number of chunk sizes, so that the floor in `Truncate` and the division
in `NumRoots` count the same steps. `SplitPartition`: the sub-chunks of a range
longer than `SplitUntil` are two to four, non-empty, contiguous, and shorter
than the range. The module also has what the proofs about rows and sums need and
the library states in a form its provers cannot use: `LeastNumber`, `Induction` and
`BoundedInduction`, over sets of numbers instead of predicates, and `Recursion`,
that a function defined from 0 to `n` by its steps exists.

**Chunk plan** (`ChunkPlanProofs`). `PlanDisjoint` and `PlanCovers`, for every
order of making and splitting chunks. `LeavesDisjoint` is not inductive, since
the next generation-0 chunk might overlap an earlier one: the invariant adds
that all leaves lie before the range to be made next. For coverage the
invariant is that the leaves cover exactly what was made so far. A split
replaces a leaf by a partition of it. `PlanAligned` and `PlanSplitsIntoFew` follow
from the two theorems about ranges.

**Types of the manager** (`QueryManagerProofs`). `InductiveType` is
`Spec => []IndTypeOK`. `TypeOK` says among other things that every chunk
anywhere is a non-empty range inside its query and that `1 <= parallel <=
Parallel`. It is not inductive alone:

* `WorkersHaveChunk`: a worker that waits or calls has a current chunk, or it
  would pass on the head of an empty ring;
* `HeapHasRoots`: a stream in the heap has a generation-0 chunk left to make, or
  the next one made would be an empty or reversed range;
* `SplitsAreLong`: `errSplitChunk` is only in chunks that can be split, or their
  sub-chunks would not be shorter ranges of the query.

The proof has one lemma per action and rests on the two theorems about ranges.
`TypeCorrect` is its corollary. `InFlightBounded` is
`Spec => []InFlightWithinParallel`: only `Launch` adds to the chunks in flight,
it does so below `int(m.parallel.value())`, and that is at most `Parallel` by
`TypeOK`; all other actions move a chunk from one count to another or out.

**The invariant of the manager** (`QueryInvariant`, proved in `PlacesProofs` and
`DeliveryProofs`). `IndInv` has four parts, each of which the next one needs:

* `PlacesOK`. Every chunk is at most once in one of eight queues (`OneSpot`), and
  what its `state` and `err` say fits the queue it is in (`ChunksFit`): an
  instruction is in `err` only of a chunk that is on its way back from polling, for
  example, and a chunk in the ready ring has no Insights query that runs. From it
  follow the counters (`CountsExact`, over sets of chunks instead of positions).
  Without `ChunksFit` a handler could meet a chunk in a state that the counter it
  decreases does not count; without `OneSpot` it would count a chunk twice.
* `RangesFresh`. What splitting or the next generation-0 chunk will make was never
  used, and the ranges of held chunks are disjoint. This is `PlanDisjoint` lifted
  to chunks that travel; a new chunk would otherwise be found in a
  queue, which breaks `OneSpot`.
* `BlocksApart`. Delivered blocks overlap neither each other nor a chunk that may
  still deliver.
* `StreamsExact`. `n - m` (`Missing`) is at least the number of chunks that are
  held or still to be made (`Expected`). The two are equal as long as no chunk was
  given up (`Intact`). Then every millisecond is in a block, a held chunk or yet to
  be made, and no running query is without its chunk. A failed stream is not
  `Intact`, and never becomes so again: this is why it can be revived but
  cannot end, and why EOF means what it says.

That a step preserves `PlacesOK` is shown action by action. For the other parts
each step is first classified by what it does to one chunk or stream
(`SystemEffect`): nothing that matters; a root is made, a chunk delivers its block,
finishes, is given up, or is split up. A chunk is in one of three stages (out of
the queues, pending, or complete and waiting to be counted), and the sets of
`StreamExact` differ by the chunk that changes its stage. So there is one lemma
per class and not per action.

What follows: `ChunkInOnePlace`, `CountersExact`, `NoneForgotten`,
`InstructionsStayInside` (parts of the invariant); `FewOpenQueries`, as a running
query has its own chunk among those in flight; `NoSendBlocks`, as what is in
the channels is in flight; `NeverTwice`, as ranges are apart; `RoomInCounts`;
`Complete` and `Released`, as `Missing = 0` leaves nothing expected and all
milliseconds served.

**The contract** (`DeliveryProofs`). `Implementation` is `Spec => ImplementsContract`, the refinement
of `QueryContract`: under the mapping every step is a step of the contract, or a
stutter. `BlocksApart` shows that a delivered part was missing before, and
`StreamsExact` that the contract's guard for EOF holds.

**Compositions** (`CompositionProofs`). `CallsImplement`, `SyncImplements` and
`StatsImplement` say that `PublicCalls`, `SyncQuery` and `RangeStats` are
`QueryManager`s, so that all of the above holds of them. On top of that:

* `CallsTellTruth`: `CallResults` for any number of callers. Its invariant relates
  the point a caller has reached to `closing` and `accepted`, and says that only one
  `Close` is past the lock without an error.
* `SyncIsComplete`: `SyncComplete`, from `Complete`. An answer without an error was
  taken from a stream at EOF.
* `StatsAreFinal`: `StatsFinalAtEOF`. A handler that passes statistics on holds a
  chunk its stream expects, but after EOF none is expected.
* `FailureIsCounted`: `FailureCounted`. Every handler that fails a stream has added
  the chunk's duration, which is not zero, to its statistics first.
* `StatsInOrder` and `StatsAddUp`: `StatsOrdered` and `StatsAtEOF`. Neither is
  inductive. Their invariant has three parts. `ChunksCounted` is about one chunk:
  what each queue says of the statistics of a chunk in it, up to how often it was
  started (`restart`, or one more). It is what a chunk's statistics are worth
  when a handler passes them on. `CountsOrdered` is `StatsOrdered` made strong enough
  to be kept: `RangeDone`, *plus the milliseconds of the sub-chunks on their way*
  (`Ahead`, a set, since held chunks are disjoint), is at most `RangeStarted`. A
  split of a generation-0 chunk adds a duration to both sides; a sub-chunk
  that is done only moves its own from `Ahead` to `RangeDone`. `StatsExact` says of a
  stream none of whose chunks was given up that what is done and what is still
  open (`Opened`, a set of milliseconds) add up to the query, and that
  `RangeStarted` is the sum over the generation-0 chunks that have left
  (`Settled`). At EOF nothing is open and all of them are settled. The sum is the
  library's `SumFunction`, a `CHOOSE` of a recursive function: `SumExists` and
  `SumsAgree` show, by induction on the size of the set, that there is such a
  function and that any two give the same sum, so that `SumOneMore` can take off
  whichever element has just been added.

  TLC found no state of the `Splits` faults that violates the three parts, on one
  chunk that splits, with `Close` and `Stream.Close` (6,179,569 distinct states).

**Stream** (`StreamProofs`), for any number of readers with slices of any length and
any chunks and rows.

* `PanicNeedsClose`: `PanicOnlyInClose`. The invariant `LockInv` says who holds `s.lock`
  (`LockHeld`), that whoever waits is in the queue of the condition variable once
  (`WaitingOK`), and that until `Close` the position `i`, `j` points into `blocks`, a
  reader that tested `i` may still rely on it, and what the poller read before
  its `append` is what is still there (`BlocksKept`). The last part is what `Close`,
  which writes without the lock, takes away.
* `PreviewsAreConsistent` and `NetViewIsFinal`: `PreviewsConsistent` and
  `NetViewAtEOF`. `DeliveryInv` is about `Sent`, the rows read, then the unread ones,
  then the block the poller has in hand. Each of them agrees with what those
  before it leave a reader with, and the last view is what the `ptr` sets of all
  chunks hold together (`SentIsHeld`). Reading and appending change nothing in
  `Sent`; a batch adds the block of its new and deleted rows, and chunks have
  rows of their own. At EOF all chunks are complete and there is nothing left to
  read.
* `StreamIsQueue`: `ImplementsQueue`, `ResultStream` implements `ResultQueue`. Under the
  mapping to `Unread` every step is a step of the queue or a stutter: the poller's
  store adds its block at the end (`Unread` is a suffix of a block and then a
  concatenation of blocks), a row copied is the first one, going on to the next
  block takes nothing, and an error is told with `Unread` empty.

`View` and `FlattenSeq` are recursive functions; that they obey their equations is
proved with `Induction` and `Recursion`. TLC evaluated `LockInv` and `DeliveryInv` on the
instance of `Delivery.cfg`, too (1,501,415 distinct states).

**Regulator** (`RegulatorProofs`), for every `Rps` and every `Second` that is a
multiple of it (a choice of the unit of time). `NoStuckWorker`: `ding` and the
timer agree (`TimerHeard`): if the timer is off and nobody noted that its value
was received, the value is in the channel. `RateLimit`: the gap between any two
requests in `recent` is at least the delay at the full rate (`Spaced`), and `Rps` of
those make a second (`RateCovered`); this needs that a request is never
sooner than `minDelay` after the last, which is `PacedRequests`, and that
`minDelay` is always the delay of the present rate
(`DelayKept`). `SlowRecovery`, and `RegulatorType`, the bounds of rate and delay.

**Only model-checked**, and why:

* liveness (`CloseEndsGoroutines`, `CallsReturn`, `SyncReturns`,
  `SyncLeavesNothing`, `EndIsSeen`, `RowsAreRead`, `WaitsEnd`, `SplittingEnds`) and
  `ENABLED` are out of the reach of the provers that are available to TLAPS here;
* the statements of section 4 do not hold.

Every invariant, every property of single steps and both refinements that a
passing run checks are theorems.

## 6. What is not modelled

* `Query`'s validation other than of times, `Chunk` and `SplitUntil`, and the
  `GetStats` methods, which read under a lock.
* The three statistics the service reports, which are added as the others are;
  rows without `@ptr` in previews, which are sent with every preview.
* Torn reads of a slice whose fields another goroutine is writing
  (`stream.go:44`): more of the same race.
* Durations beyond 292 years, at which `time.Duration` saturates.
* An Insights query whose `StartQuery` answer was lost: nobody knows its ID.
* `Unmarshal`: reflection over the types of the program, one call at a time and
  without state between calls; its cases are Go types, not behaviours.
* Logging, interfaces, constants, and the table of AWS error codes in
  `classifyError`: text and data, better tested than modelled.

## 7. The plan

The modules are written and their safety properties are proved. What would be worth
adding, in the order of weight:

1. Fairness arguments on paper for the liveness properties, from the invariants that
   are proved: the loop and the workers are never blocked on a channel
   (`ChannelsFit`), and every chunk is in one queue (`OnePlace`) and comes out
   of it after finitely many tries.
2. The order in which chunks start (section 4, first two items): what the heap and
   the ready ring together do guarantee.
3. Saturation of durations in `Query`, with times of a bounded width.
