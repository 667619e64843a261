---------------------------- MODULE ResultStream ----------------------------
(***************************************************************************)
(* A stream (stream.go) and the goroutines that meet in it: readers, the   *)
(* poller that appends results and previews of its chunks (poller.go), the *)
(* manager loop that sets its error, and a goroutine that closes it.       *)
(*                                                                         *)
(* What is done under s.lock is one step, except that Read goes through    *)
(* the blocks, and the poller appends one, step by step with the lock      *)
(* held: Close changes blocks, i and j without it.                         *)
(***************************************************************************)
EXTENDS Preview, FiniteSets

CONSTANTS
    Reader,    \* goroutines that call Read until it returns an error
    Size,      \* the length of the slice each of them reads into
    Chunk,     \* the chunks of the stream's query
    Ptr,       \* the @ptr values of the results of each chunk
    MaxPolls   \* bound, for each chunk, on the polls that find it running

ASSUME StreamAssumption ==
    /\ IsFiniteSet(Reader) /\ IsFiniteSet(Chunk) /\ Chunk # {}
    /\ "free" \notin Reader /\ "poller" \notin Reader
    /\ DOMAIN Ptr = Chunk /\ \A c \in Chunk : IsFiniteSet(Ptr[c])
    /\ \A c, d \in Chunk : c # d => Ptr[c] \cap Ptr[d] = {}
    /\ Size \in [Reader -> Nat \ {0}]
    /\ MaxPolls \in [Chunk -> Nat]

VARIABLES
    lock,     \* the holder of s.lock, or "free"
    waiting,  \* the readers in s.more.Wait, longest first
    blocks, i, j, err,  \* the fields of the stream
    reader,   \* of each reader: pc, n of this call, and the block in hand
    poller,   \* what the poller does: pc, and the append it is to make
    chunk,    \* of each chunk: its state, polls that found it running, ptr
    closed,   \* Close was called, and found the stream not closed
    unreset,  \* the fields Close has still to reset
    got,      \* history, until Close: the rows read, whoever read them
    told,     \* history: the error each reader was told
    final     \* history, until Close: the last batch of each chunk

fields == <<blocks, i, j>>
history == <<got, told, final>>
svars == <<lock, waiting, blocks, i, j, err, reader, poller, chunk, closed,
           unreset, got, told, final>>

PollerIdle == [pc |-> "idle"]

\* A reader that is not going through the blocks.
Reading(pc) == [pc |-> pc, n |-> 0, block |-> <<>>]

Init ==
    /\ lock = "free" /\ waiting = <<>>
    /\ blocks = <<>> /\ i = 0 /\ j = 0 /\ err = "nil"
    /\ reader = [r \in Reader |-> Reading("call")]
    /\ poller = PollerIdle
    /\ chunk = [c \in Chunk |-> [state |-> "polling", polls |-> 0, ptr |-> {}]]
    /\ closed = FALSE /\ unreset = {}
    /\ got = <<>> /\ told = [r \in Reader |-> "nil"]
    /\ final = [c \in Chunk |-> {}]

\* A panic of one goroutine ends the program.
Crashed == \E r \in Reader : reader[r].pc = "panicked"

\* Faulty variant of Signal: nobody is woken.
SignalNobody == UNCHANGED <<waiting, reader>>

\* s.more.Signal: wakes the longest waiting reader, which takes the lock
\* before it reads again.
Signal ==
    IF waiting = <<>> THEN UNCHANGED <<waiting, reader>>
    ELSE /\ waiting' = Tail(waiting)
         /\ reader' = [reader EXCEPT ![Head(waiting)].pc = "call"]

\* setErr, with the lock free to take.
SetErr(e) ==
    /\ lock = "free" /\ err # "ErrClosed"
    /\ err' = e
    /\ Signal

(* Read. *)

\* Faulty variant of ReadLock: does not wait for the lock.
ReadLockAnyway(r) ==
    /\ reader[r].pc = "call"
    /\ lock' = r
    /\ reader' = [reader EXCEPT ![r] = Reading("check")]
    /\ UNCHANGED <<waiting, fields, err, poller, chunk, closed, unreset, history>>

ReadLock(r) ==
    /\ reader[r].pc = "call" /\ lock = "free"
    /\ lock' = r
    /\ reader' = [reader EXCEPT ![r] = Reading("check")]
    /\ UNCHANGED <<waiting, fields, err, poller, chunk, closed, unreset, history>>

\* s.i < len(s.blocks), and then s.blocks[s.i], which panics if Close came
\* between the two.
ReadCheck(r) ==
    /\ reader[r].pc = "check" /\ i < Len(blocks)
    /\ reader' = [reader EXCEPT ![r].pc = "load"]
    /\ UNCHANGED <<lock, waiting, fields, err, poller, chunk, closed, unreset,
                   history>>

ReadLoad(r) ==
    /\ reader[r].pc = "load"
    /\ reader' = IF i < Len(blocks)
                 THEN [reader EXCEPT ![r].pc = "row", ![r].block = blocks[i + 1]]
                 ELSE [reader EXCEPT ![r] = Reading("panicked")]
    /\ lock' = IF i < Len(blocks) THEN lock ELSE "free"
    /\ UNCHANGED <<waiting, fields, err, poller, chunk, closed, unreset, history>>

ReadRow(r) ==
    /\ reader[r].pc = "row" /\ j < Len(reader[r].block)
    /\ reader[r].n < Size[r]
    /\ got' = IF closed THEN got ELSE Append(got, reader[r].block[j + 1])
    /\ j' = j + 1
    /\ reader' = [reader EXCEPT ![r].n = @ + 1]
    /\ UNCHANGED <<lock, waiting, blocks, i, err, poller, chunk, closed, unreset,
                   told, final>>

\* Read returns a full slice, without an error; the reader calls again.
ReadFull(r) ==
    /\ reader[r].pc = "row" /\ j < Len(reader[r].block)
    /\ reader[r].n = Size[r]
    /\ reader' = [reader EXCEPT ![r] = Reading("call")]
    /\ lock' = "free"
    /\ UNCHANGED <<waiting, fields, err, poller, chunk, closed, unreset, history>>

\* Faulty variant of ReadNextBlock: keeps its position within the block.
ReadNextBlockAtJ(r) ==
    /\ reader[r].pc = "row" /\ j >= Len(reader[r].block)
    /\ i' = i + 1
    /\ reader' = [reader EXCEPT ![r].pc = "check", ![r].block = <<>>]
    /\ UNCHANGED <<lock, waiting, blocks, j, err, poller, chunk, closed, unreset,
                   history>>

ReadNextBlock(r) ==
    /\ reader[r].pc = "row" /\ j >= Len(reader[r].block)
    /\ i' = i + 1 /\ j' = 0
    /\ reader' = [reader EXCEPT ![r].pc = "check", ![r].block = <<>>]
    /\ UNCHANGED <<lock, waiting, blocks, err, poller, chunk, closed, unreset,
                   history>>

\* All blocks are read: Read returns the rows it has, and the error if there
\* is one, after which the reader stops.
ReadEnd(r) ==
    /\ reader[r].pc = "check" /\ i >= Len(blocks)
    /\ reader[r].n > 0 \/ err # "nil"
    /\ told' = [told EXCEPT ![r] = err]
    /\ reader' = [reader EXCEPT ![r] =
                     Reading(IF err = "nil" THEN "call" ELSE "done")]
    /\ lock' = "free"
    /\ UNCHANGED <<waiting, fields, err, poller, chunk, closed, unreset, got,
                   final>>

\* s.more.Wait: releases the lock until it is signalled.
ReadWait(r) ==
    /\ reader[r].pc = "check" /\ i >= Len(blocks)
    /\ reader[r].n = 0 /\ err = "nil"
    /\ waiting' = Append(waiting, r)
    /\ reader' = [reader EXCEPT ![r] = Reading("wait")]
    /\ lock' = "free"
    /\ UNCHANGED <<fields, err, poller, chunk, closed, unreset, history>>

ReadStep(r) ==
    \/ ReadLock(r) \/ ReadCheck(r) \/ ReadLoad(r) \/ ReadRow(r)
    \/ ReadFull(r) \/ ReadNextBlock(r) \/ ReadEnd(r) \/ ReadWait(r)

(* The poller. *)

\* The poller takes up chunk c, unless the stream died.
Poll(c) ==
    /\ poller.pc = "idle" /\ chunk[c].state = "polling"
    /\ lock = "free" /\ err = "nil"
    /\ poller' = [pc |-> "call", c |-> c]
    /\ UNCHANGED <<lock, waiting, fields, err, reader, chunk, closed, unreset,
                   history>>

GiveUp(c) ==
    /\ poller.pc = "idle" /\ chunk[c].state = "polling"
    /\ lock = "free" /\ err # "nil"
    /\ chunk' = [chunk EXCEPT ![c].state = "over"]
    /\ UNCHANGED <<lock, waiting, fields, err, reader, poller, closed, unreset,
                   history>>

\* sendChunkBlock: the chunk's ptr is up to date before the block is in the
\* stream; an empty block is not sent.  then is the state of the chunk after.
Send(c, batch, then, polls) ==
    LET block == PreviewBlock(chunk[c].ptr, batch)
    IN  /\ chunk' = [chunk EXCEPT
                        ![c].ptr = PreviewPtr(@, batch),
                        ![c].polls = polls,
                        ![c].state = IF block = <<>> THEN then ELSE @]
        /\ poller' = IF block = <<>> THEN PollerIdle
                     ELSE [pc |-> "append", c |-> c, block |-> block,
                           then |-> then]

\* The query runs: a preview.  Without previews the answer changes nothing.
AnswerRunning(c, batch) ==
    /\ poller.pc = "call" /\ poller.c = c
    /\ chunk[c].polls < MaxPolls[c]
    /\ Send(c, batch, "polling", chunk[c].polls + 1)
    /\ UNCHANGED <<lock, waiting, fields, err, reader, closed, unreset, history>>

AnswerComplete(c, batch) ==
    /\ poller.pc = "call" /\ poller.c = c
    /\ Send(c, batch, "complete", chunk[c].polls)
    /\ final' = IF closed THEN final ELSE [final EXCEPT ![c] = batch]
    /\ UNCHANGED <<lock, waiting, fields, err, reader, closed, unreset, got, told>>

\* The query or the call failed for good, or rows cannot be translated.
AnswerFailed(c) ==
    /\ poller.pc = "call" /\ poller.c = c
    /\ chunk' = [chunk EXCEPT ![c].state = "failed"]
    /\ poller' = PollerIdle
    /\ UNCHANGED <<lock, waiting, fields, err, reader, closed, unreset, history>>

\* append, with the lock held: the old blocks are read, and the longer slice
\* is stored.
AppendLoad ==
    /\ poller.pc = "append" /\ lock = "free"
    /\ lock' = "poller"
    /\ poller' = [pc |-> "store", c |-> poller.c, block |-> poller.block,
                  then |-> poller.then, blocks |-> blocks]
    /\ UNCHANGED <<waiting, fields, err, reader, chunk, closed, unreset, history>>

AppendStore ==
    /\ poller.pc = "store"
    /\ blocks' = Append(poller.blocks, poller.block)
    /\ Signal
    /\ lock' = "free"
    /\ poller' = PollerIdle
    /\ chunk' = [chunk EXCEPT ![poller.c].state = poller.then]
    /\ UNCHANGED <<i, j, err, closed, unreset, history>>

PollerStep ==
    \/ \E c \in Chunk :
        \/ Poll(c) \/ GiveUp(c) \/ AnswerFailed(c)
        \/ \E batch \in SUBSET Ptr[c] :
                AnswerRunning(c, batch) \/ AnswerComplete(c, batch)
    \/ AppendLoad \/ AppendStore

(* The manager loop. *)

\* The error after the completion of one more chunk.
ErrAfter(c) ==
    IF \A d \in Chunk \ {c} : chunk[d].state = "completed" THEN "EOF" ELSE "nil"

\* handleChunkCompletion, and the failure of a chunk; neither does anything
\* to a closed stream.
HandleCompletion(c) ==
    /\ chunk[c].state = "complete" /\ lock = "free"
    /\ chunk' = [chunk EXCEPT ![c].state = "completed"]
    /\ \/ SetErr(ErrAfter(c))
       \/ err = "ErrClosed" /\ UNCHANGED <<err, waiting, reader>>
    /\ UNCHANGED <<lock, fields, poller, closed, unreset, history>>

HandleFailure(c) ==
    /\ chunk[c].state = "failed" /\ lock = "free"
    /\ chunk' = [chunk EXCEPT ![c].state = "over"]
    /\ \/ SetErr("failed")
       \/ err = "ErrClosed" /\ UNCHANGED <<err, waiting, reader>>
    /\ UNCHANGED <<lock, fields, poller, closed, unreset, history>>

\* The manager was closed: mgr.shutdown closes the stream.
Shutdown ==
    /\ SetErr("ErrClosed")
    /\ UNCHANGED <<lock, fields, poller, chunk, closed, unreset, history>>

(* Stream.Close. *)

CloseStream ==
    /\ SetErr("ErrClosed")
    /\ closed' = TRUE
    /\ unreset' = {"blocks", "i", "j"}
    /\ got' = <<>>
    /\ final' = [c \in Chunk |-> {}]
    /\ UNCHANGED <<lock, fields, poller, chunk, told>>

\* The fields are reset without the lock, in whatever order the compiler has
\* chosen.
ResetBlocks ==
    /\ "blocks" \in unreset
    /\ blocks' = <<>>
    /\ unreset' = unreset \ {"blocks"}
    /\ UNCHANGED <<lock, waiting, i, j, err, reader, poller, chunk, closed, history>>

ResetI ==
    /\ "i" \in unreset
    /\ i' = 0
    /\ unreset' = unreset \ {"i"}
    /\ UNCHANGED <<lock, waiting, blocks, j, err, reader, poller, chunk, closed,
                   history>>

ResetJ ==
    /\ "j" \in unreset
    /\ j' = 0
    /\ unreset' = unreset \ {"j"}
    /\ UNCHANGED <<lock, waiting, blocks, i, err, reader, poller, chunk, closed,
                   history>>

Reset == ResetBlocks \/ ResetI \/ ResetJ

Handle(c) == HandleCompletion(c) \/ HandleFailure(c)

Next ==
    /\ ~Crashed
    /\ \/ \E r \in Reader : ReadStep(r)
       \/ PollerStep
       \/ \E c \in Chunk : Handle(c)
       \/ Shutdown \/ CloseStream \/ Reset

\* Readers go on and get the lock when it is free, what the poller and the
\* loop begin they finish; nothing makes the service answer, nor anyone close.
Fairness ==
    /\ \A r \in Reader : WF_svars(~Crashed /\ ReadStep(r))
    /\ WF_svars(~Crashed /\ (AppendLoad \/ AppendStore))
    /\ \A c \in Chunk : WF_svars(~Crashed /\ Handle(c))

Spec == Init /\ [][Next]_svars /\ Fairness

(***************************************************************************)
(* Properties.                                                             *)
(***************************************************************************)

\* The rows in the stream that nobody read yet.
Unread ==
    IF i >= Len(blocks) THEN <<>>
    ELSE SubSeq(blocks[i + 1], j + 1, Len(blocks[i + 1]))
             \o Seqs!FlattenSeq(SubSeq(blocks, i + 2, Len(blocks)))

AllRows ==
    LET ptrs == UNION {Ptr[c] : c \in Chunk}
    IN  {Row(p) : p \in ptrs} \cup {Deleted(p) : p \in ptrs}

Queue ==
    INSTANCE ResultQueue
    WITH Readers <- Reader,
         Rows    <- AllRows,
         Errors  <- {"EOF", "failed", "ErrClosed"},
         queue   <- Unread,
         taken   <- got,
         error   <- err

\* Until Close is called a stream is a queue of rows: whatever the sizes of
\* the readers' slices and of the blocks, rows come out once and in order,
\* and an error is told only to who has no row left to read.
ImplementsQueue == Queue!Spec

\* A reader of previews never sees a row it already holds, nor the deletion
\* of one it does not.
PreviewsConsistent ==
    ~closed =>
        \A k \in DOMAIN got : got[k].deleted <=> got[k].ptr \in View(got)[k - 1]

\* Whoever is told EOF holds, after all rows read, the final results of every
\* chunk: previews taken back are gone, whatever was delivered before.
NetViewAtEOF ==
    ~closed /\ (\E r \in Reader : told[r] = "EOF") =>
        View(got)[Len(got)] = UNION {final[c] : c \in Chunk}

\* Read indexes blocks out of range only when Close takes them away while it
\* reads (stream.go:44), never because of other readers, or of the poller.
PanicOnlyInClose == Crashed => closed

\* A reader is told of an error that stays, EOF or ErrClosed, if one is still
\* reading; one, as Signal wakes no more.
EndIsSeen ==
    err \in {"EOF", "ErrClosed"} ~>
        \/ \E r \in Reader : told[r] \in {"EOF", "ErrClosed"}
        \/ \A r \in Reader : told[r] # "nil"
        \/ Crashed

\* Rows do not stay in the stream while someone reads it.
RowsAreRead ==
    Unread # <<>> ~>
        Unread = <<>> \/ closed \/ \A r \in Reader : told[r] # "nil"
=============================================================================
