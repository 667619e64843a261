---------------------------- MODULE StreamProofs ----------------------------
(***************************************************************************)
(* Theorems about ResultStream: until Close a stream is a queue of rows    *)
(* whatever its readers, the poller and the manager loop do at once, and   *)
(* the rows of previews add up to the final results.                       *)
(***************************************************************************)
EXTENDS ResultStream, RangesProofs, FiniteSetTheorems, SequenceTheorems

(***************************************************************************)
(* Types.                                                                  *)
(***************************************************************************)

AllPtrs == UNION {Ptr[c] : c \in Chunk}

ReaderState ==
    [pc : {"call", "check", "load", "row", "wait", "done", "panicked"},
     n : Nat, block : Seq(AllRows)]

Sendable == Seq(AllRows) \ {<<>>}

Then == {"polling", "complete"}

PollerState ==
    [pc : {"idle"}] \cup [pc : {"call"}, c : Chunk]
    \cup [pc : {"append"}, c : Chunk, block : Sendable, then : Then]
    \cup [pc : {"store"}, c : Chunk, block : Sendable, then : Then,
          blocks : Seq(Seq(AllRows))]

ChunkState ==
    [state : {"polling", "complete", "completed", "failed", "over"},
     polls : Nat, ptr : SUBSET AllPtrs]

StreamErr == {"nil", "EOF", "failed", "ErrClosed"}

StreamTypeOK ==
    /\ lock \in Reader \cup {"free", "poller"}
    /\ waiting \in Seq(Reader)
    /\ blocks \in Seq(Seq(AllRows)) /\ i \in Nat /\ j \in Nat
    /\ err \in StreamErr
    /\ reader \in [Reader -> ReaderState]
    /\ poller \in PollerState
    /\ chunk \in [Chunk -> ChunkState]
    /\ closed \in BOOLEAN /\ unreset \subseteq {"blocks", "i", "j"}
    /\ got \in Seq(AllRows)
    /\ told \in [Reader -> StreamErr]
    /\ final \in [Chunk -> SUBSET AllPtrs]
    /\ \A c \in Chunk : chunk[c].ptr \subseteq Ptr[c] /\ final[c] \subseteq Ptr[c]

(***************************************************************************)
(* The lock, and the blocks it protects until Close.                       *)
(***************************************************************************)

\* Reader r goes through the blocks.
Busy(r) == reader[r].pc \in {"check", "load", "row"}

\* Who waits is asleep, and waits once.
WaitingOK ==
    /\ \A k \in DOMAIN waiting : reader[waiting[k]].pc = "wait"
    /\ \A k, l \in DOMAIN waiting : waiting[k] = waiting[l] => k = l

\* The lock is held by whoever goes through the blocks or adds one.
LockHeld ==
    /\ \A r \in Reader : Busy(r) <=> lock = r
    /\ poller.pc = "store" <=> lock = "poller"

\* The position is in the blocks or at their end.
PositionOK ==
    /\ i <= Len(blocks)
    /\ i = Len(blocks) => j = 0
    /\ i < Len(blocks) => j <= Len(blocks[i + 1])

\* What a reader found of the blocks stays true while it goes on.
ReaderOK(r) ==
    /\ reader[r].pc \in {"load", "row"} => i < Len(blocks)
    /\ reader[r].pc = "row" => reader[r].block = blocks[i + 1]
    /\ reader[r].pc # "panicked"

BlocksKept ==
    ~closed =>
        /\ unreset = {}
        /\ PositionOK
        /\ poller.pc = "store" => poller.blocks = blocks
        /\ \A r \in Reader : ReaderOK(r)

LockInv == StreamTypeOK /\ WaitingOK /\ LockHeld /\ BlocksKept

(***************************************************************************)
(* Facts about sequences made of sets.                                     *)
(***************************************************************************)

\* SetToSeq lists a finite set.
LEMMA SetToSeqLists ==
    ASSUME NEW S, IsFiniteSet(S)
    PROVE  LET q == Seqs!SetToSeq(S)
           IN  /\ q \in Seq(S)
               /\ Len(q) = Cardinality(S)
               /\ \A k, l \in 1 .. Len(q) : q[k] = q[l] => k = l
               /\ \A x \in S : \E k \in 1 .. Len(q) : q[k] = x
  <1> DEFINE n == Cardinality(S)
             q == Seqs!SetToSeq(S)
  <1>1. n \in Nat /\ Bijection(1 .. n, S) # {}
    BY FS_CardinalityType DEF ExistsBijection
  <1>2. \E f \in [1 .. n -> S] : Seqs!IsInjective(f)
    BY <1>1, Zenon
       DEF Bijection, Injection, IsInjective, Seqs!IsInjective
  <1>3. q \in [1 .. n -> S] /\ Seqs!IsInjective(q)
    <2>1. Seqs!Cardinality(S) = n
      BY Zenon DEF Seqs!Cardinality, Cardinality
    <2> HIDE DEF n
    <2>2. q = CHOOSE f \in [1 .. n -> S] : Seqs!IsInjective(f)
      BY <2>1, Zenon DEF Seqs!SetToSeq
    <2>3. QED
      BY <1>2, <2>2, Zenon
  <1> HIDE DEF q
  <1>4. q \in Seq(S) /\ Len(q) = n
    BY <1>1, <1>3
  <1>5. \A k, l \in 1 .. n : q[k] = q[l] => k = l
    BY <1>3 DEF Seqs!IsInjective
  <1>6. q \in Bijection(1 .. n, S)
    <2>1. q \in Injection(1 .. n, S)
      BY <1>3, <1>5, Zenon DEF Injection, IsInjective, Seqs!IsInjective
    <2>2. IsFiniteSet(1 .. n) /\ Cardinality(1 .. n) = n
      BY <1>1, FS_Interval
    <2>3. q \in Surjection(1 .. n, S)
      BY <2>1, <2>2, FS_Injection
    <2>4. QED
      BY <2>1, <2>3 DEF Bijection
  <1>7. QED
    BY <1>4, <1>5, <1>6 DEF Bijection, Surjection, q


(* The rows of a block. *)

LEMMA RowTypes ==
    /\ \A p : Row(p).ptr = p /\ ~Row(p).deleted
    /\ \A p : Deleted(p).ptr = p /\ Deleted(p).deleted
    /\ \A p \in AllPtrs : Row(p) \in AllRows /\ Deleted(p) \in AllRows
    /\ \A x \in AllRows : x.ptr \in AllPtrs /\ x.deleted \in BOOLEAN
    /\ \A c \in Chunk : Ptr[c] \subseteq AllPtrs
  <1>1. /\ \A p : Row(p).ptr = p /\ Row(p).deleted = FALSE
        /\ \A p : Deleted(p).ptr = p /\ Deleted(p).deleted = TRUE
    BY DEF Row, Deleted
  <1>2. AllRows = {Row(p) : p \in AllPtrs} \cup {Deleted(p) : p \in AllPtrs}
    BY DEF AllRows, AllPtrs
  <1>3. ASSUME NEW x \in AllRows
        PROVE  x.ptr \in AllPtrs /\ x.deleted \in BOOLEAN
    <2>1. PICK p \in AllPtrs : x = Row(p) \/ x = Deleted(p)
      BY <1>2, Zenon
    <2>2. x.ptr = p /\ (x.deleted = FALSE \/ x.deleted = TRUE)
      BY <1>1, <2>1, Zenon
    <2>3. QED
      BY <2>2, Zenon
  <1>4. \A c \in Chunk : Ptr[c] \subseteq AllPtrs
    BY DEF AllPtrs
  <1>5. QED
    BY <1>1, <1>2, <1>3, <1>4

\* The first n rows of block add the rows of fresh, the others take away those
\* of gone.
AddsThenDeletes(block, n, fresh, gone) ==
    /\ n \in 0 .. Len(block)
    /\ \A k \in 1 .. n : block[k].ptr \in fresh /\ ~block[k].deleted
    /\ \A k \in n + 1 .. Len(block) : block[k].ptr \in gone /\ block[k].deleted
    /\ \A p \in fresh : \E k \in 1 .. n : block[k].ptr = p
    /\ \A p \in gone : \E k \in n + 1 .. Len(block) : block[k].ptr = p
    /\ \A k, l \in 1 .. n : block[k].ptr = block[l].ptr => k = l
    /\ \A k, l \in n + 1 .. Len(block) :
          block[k].ptr = block[l].ptr => k = l

LEMMA BlockOfBatch ==
    ASSUME NEW c \in Chunk, NEW ptr \in SUBSET Ptr[c], NEW batch \in SUBSET Ptr[c]
    PROVE  LET block == PreviewBlock(ptr, batch)
           IN  /\ block \in Seq(AllRows)
               /\ \E n : AddsThenDeletes(block, n, batch \ ptr, ptr \ batch)
  <1> DEFINE R == {Row(p) : p \in batch \ ptr}
             D == {Deleted(p) : p \in ptr \ batch}
             x == Seqs!SetToSeq(R)
             y == Seqs!SetToSeq(D)
             block == x \o y
  <1>1. IsFiniteSet(batch \ ptr) /\ IsFiniteSet(ptr \ batch)
    BY StreamAssumption, FS_Subset
  <1>2. IsFiniteSet(R)
    <2> DEFINE S == batch \ ptr
               g == [p \in S |-> Row(p)]
    <2>1. g \in Surjection(S, R)
      BY DEF Surjection
    <2> HIDE DEF g
    <2>2. QED
      BY <1>1, <2>1, FS_Surjection
  <1>3. IsFiniteSet(D)
    <2> DEFINE S == ptr \ batch
               g == [p \in S |-> Deleted(p)]
    <2>1. g \in Surjection(S, D)
      BY DEF Surjection
    <2> HIDE DEF g
    <2>2. QED
      BY <1>1, <2>1, FS_Surjection
  <1>4. /\ R \subseteq AllRows /\ D \subseteq AllRows
        /\ \A r \in R : r.ptr \in batch \ ptr /\ ~r.deleted /\ r = Row(r.ptr)
        /\ \A r \in D : r.ptr \in ptr \ batch /\ r.deleted /\ r = Deleted(r.ptr)
    BY RowTypes
  <1>5. /\ \A p \in batch \ ptr : \E r \in R : r.ptr = p
        /\ \A p \in ptr \ batch : \E r \in D : r.ptr = p
    BY RowTypes
  <1>6. /\ x \in Seq(R) /\ \A k, l \in 1 .. Len(x) : x[k] = x[l] => k = l
        /\ \A r \in R : \E k \in 1 .. Len(x) : x[k] = r
    BY <1>2, SetToSeqLists
  <1>7. /\ y \in Seq(D) /\ \A k, l \in 1 .. Len(y) : y[k] = y[l] => k = l
        /\ \A r \in D : \E k \in 1 .. Len(y) : y[k] = r
    BY <1>3, SetToSeqLists
  <1> HIDE DEF R, D, x, y
  <1>8. /\ Len(x) \in Nat /\ Len(y) \in Nat
        /\ block \in Seq(AllRows) /\ Len(block) = Len(x) + Len(y)
        /\ \A k \in 1 .. Len(x) : block[k] = x[k] /\ x[k] \in R
        /\ \A k \in Len(x) + 1 .. Len(block) :
              k - Len(x) \in 1 .. Len(y) /\ block[k] = y[k - Len(x)]
              /\ y[k - Len(x)] \in D
        /\ \A k \in 1 .. Len(y) : Len(x) + k \in Len(x) + 1 .. Len(block)
              /\ block[Len(x) + k] = y[k]
    <2>1. x \in Seq(AllRows) /\ y \in Seq(AllRows)
      BY <1>4, <1>6, <1>7, SeqMonotonic
    <2>2. QED
      BY <1>6, <1>7, <2>1
  <1> HIDE DEF block
  <1>9. AddsThenDeletes(block, Len(x), batch \ ptr, ptr \ batch)
    <2>1. /\ \A k \in 1 .. Len(x) :
                block[k].ptr \in batch \ ptr /\ ~block[k].deleted
          /\ \A k \in Len(x) + 1 .. Len(block) :
                block[k].ptr \in ptr \ batch /\ block[k].deleted
      BY <1>4, <1>8
    <2>2. \A p \in batch \ ptr : \E k \in 1 .. Len(x) : block[k].ptr = p
      <3> TAKE p \in batch \ ptr
      <3>1. PICK k \in 1 .. Len(x) : x[k].ptr = p
        BY <1>5, <1>6
      <3>2. QED
        BY <1>8, <3>1
    <2>3. \A p \in ptr \ batch :
              \E k \in Len(x) + 1 .. Len(block) : block[k].ptr = p
      <3> TAKE p \in ptr \ batch
      <3>1. PICK k \in 1 .. Len(y) : y[k].ptr = p
        BY <1>5, <1>7
      <3>2. QED
        BY <1>8, <3>1
    <2>4. \A k, l \in 1 .. Len(x) : block[k].ptr = block[l].ptr => k = l
      <3> TAKE k, l \in 1 .. Len(x)
      <3> HAVE block[k].ptr = block[l].ptr
      <3>1. x[k] = x[l]
        BY <1>4, <1>8
      <3>2. QED
        BY <1>6, <3>1
    <2>5. \A k, l \in Len(x) + 1 .. Len(block) :
              block[k].ptr = block[l].ptr => k = l
      <3> TAKE k, l \in Len(x) + 1 .. Len(block)
      <3> HAVE block[k].ptr = block[l].ptr
      <3>1. y[k - Len(x)] = y[l - Len(x)]
        BY <1>4, <1>8
      <3>2. k - Len(x) = l - Len(x)
        BY <1>7, <1>8, <3>1
      <3>3. QED
        BY <1>8, <3>2
    <2>6. QED
      BY <1>8, <2>1, <2>2, <2>3, <2>4, <2>5 DEF AddsThenDeletes
  <1>10. QED
    BY <1>8, <1>9 DEF PreviewBlock, block, x, y, R, D


(* Steps that several actions share. *)

\* Signal disturbs nobody but a reader that waits.
LEMMA SignalEffect ==
    ASSUME StreamTypeOK, WaitingOK, Signal
    PROVE  /\ waiting' \in Seq(Reader) /\ reader' \in [Reader -> ReaderState]
           /\ WaitingOK'
           /\ \A r \in Reader :
                 \/ reader'[r] = reader[r]
                 \/ reader[r].pc = "wait" /\ reader'[r].pc = "call"
  <1>0. waiting \in Seq(Reader) /\ reader \in [Reader -> ReaderState]
    BY DEF StreamTypeOK
  <1>1. CASE waiting = <<>>
    BY <1>0, <1>1 DEF Signal, WaitingOK
  <1>2. CASE waiting # <<>>
    <2> DEFINE h == Head(waiting)
               t == Tail(waiting)
    <2>1. /\ h \in Reader /\ h = waiting[1]
          /\ t \in Seq(Reader) /\ Len(t) = Len(waiting) - 1
          /\ \A k \in 1 .. Len(t) : t[k] = waiting[k + 1]
          /\ Len(waiting) \in Nat \ {0}
      BY <1>0, <1>2
    <2>2. waiting' = t /\ reader' = [reader EXCEPT ![h].pc = "call"]
      BY <1>2 DEF Signal
    <2> HIDE DEF h, t
    <2>3. \A k \in 1 .. Len(t) : reader[t[k]].pc = "wait" /\ t[k] # h
      <3> TAKE k \in 1 .. Len(t)
      <3>1. 1 \in DOMAIN waiting /\ k + 1 \in DOMAIN waiting /\ k + 1 # 1
        BY <1>0, <2>1
      <3>2. QED
        BY <2>1, <3>1 DEF WaitingOK
    <2>4. \A k, l \in 1 .. Len(t) : t[k] = t[l] => k = l
      <3> TAKE k, l \in 1 .. Len(t)
      <3> HAVE t[k] = t[l]
      <3>1. k + 1 \in DOMAIN waiting /\ l + 1 \in DOMAIN waiting
        BY <1>0, <2>1
      <3>2. k + 1 = l + 1
        BY <2>1, <3>1 DEF WaitingOK
      <3>3. QED
        BY <2>1, <3>2
    <2>5. reader[h].pc = "wait"
      BY <1>0, <2>1 DEF WaitingOK
    <2>6. reader' \in [Reader -> ReaderState]
      BY <1>0, <2>1, <2>2 DEF ReaderState
    <2>7. \A r \in Reader : reader'[r] = IF r = h THEN [reader[r] EXCEPT !.pc = "call"]
                                         ELSE reader[r]
      BY <1>0, <2>1, <2>2
    <2>8. DOMAIN t = 1 .. Len(t) /\ \A k \in 1 .. Len(t) : t[k] \in Reader
      BY <2>1
    <2>9. WaitingOK'
      BY <2>2, <2>3, <2>4, <2>7, <2>8 DEF WaitingOK
    <2>10. reader'[h].pc = "call"
      BY <1>0, <2>1, <2>7 DEF ReaderState
    <2>11. QED
      BY <2>1, <2>2, <2>5, <2>6, <2>7, <2>9, <2>10
  <1>3. QED
    BY <1>1, <1>2

\* What Send leaves behind: the chunk holds the batch, and either nothing is
\* to be handed on or the block waits to be appended.
AfterSend(c, batch, then) ==
    LET block == PreviewBlock(chunk[c].ptr, batch)
    IN  /\ poller' \in PollerState
        /\ chunk' \in [Chunk -> ChunkState]
        /\ chunk'[c].ptr = batch
        /\ \A d \in Chunk \ {c} : chunk'[d] = chunk[d]
        /\ block = <<>> => poller' = PollerIdle /\ chunk'[c].state = then
        /\ block # <<>> =>
              /\ poller' = [pc |-> "append", c |-> c, block |-> block,
                            then |-> then]
              /\ chunk'[c].state = chunk[c].state

\* Send hands on what the batch changes, if it does change anything.
LEMMA SendEffect ==
    ASSUME StreamTypeOK, NEW c \in Chunk, NEW batch \in SUBSET Ptr[c],
           NEW then \in Then, NEW polls \in Nat, chunk[c].ptr \subseteq Ptr[c],
           Send(c, batch, then, polls)
    PROVE  AfterSend(c, batch, then)
  <1> DEFINE block == PreviewBlock(chunk[c].ptr, batch)
  <1>1. block \in Seq(AllRows)
    BY BlockOfBatch
  <1>2. PreviewPtr(chunk[c].ptr, batch) = batch
    BY DEF PreviewPtr
  <1>3. batch \in SUBSET AllPtrs /\ chunk[c] \in ChunkState
    BY DEF StreamTypeOK, AllPtrs
  <1> HIDE DEF block
  <1>4. /\ chunk' = [chunk EXCEPT
                        ![c].ptr = PreviewPtr(@, batch),
                        ![c].polls = polls,
                        ![c].state = IF block = <<>> THEN then ELSE @]
        /\ poller' = IF block = <<>> THEN PollerIdle
                     ELSE [pc |-> "append", c |-> c, block |-> block,
                           then |-> then]
    BY DEF Send, block
  <1>5. chunk'[c] = [state |-> IF block = <<>> THEN then ELSE chunk[c].state,
                     polls |-> polls, ptr |-> batch]
    BY <1>2, <1>3, <1>4 DEF StreamTypeOK, ChunkState
  <1>6. \A d \in Chunk \ {c} : chunk'[d] = chunk[d]
    BY <1>4 DEF StreamTypeOK
  <1>7. chunk'[c] \in ChunkState
    BY <1>3, <1>5 DEF ChunkState, Then
  <1>8. chunk' \in [Chunk -> ChunkState]
    <2>1. DOMAIN chunk' = Chunk
      BY <1>4 DEF StreamTypeOK
    <2>2. QED
      BY <1>4, <1>6, <1>7, <2>1 DEF StreamTypeOK
  <1>9. poller' \in PollerState
    BY <1>1, <1>4 DEF PollerState, PollerIdle, Sendable
  <1>10. /\ chunk'[c].ptr = batch
         /\ chunk'[c].state = IF block = <<>> THEN then ELSE chunk[c].state
    BY <1>5
  <1>11. /\ block = <<>> => poller' = PollerIdle /\ chunk'[c].state = then
         /\ block # <<>> =>
               /\ poller' = [pc |-> "append", c |-> c, block |-> block,
                             then |-> then]
               /\ chunk'[c].state = chunk[c].state
    BY <1>4, <1>10, Zenon
  <1>12. QED
    BY <1>6, <1>8, <1>9, <1>10, <1>11, Zenon DEF block, AfterSend


(* The lock and the blocks. *)

\* A reader that has to be awake to act disturbs no reader that waits.
LEMMA StayAsleep ==
    ASSUME StreamTypeOK, WaitingOK, NEW r \in Reader, reader[r].pc # "wait",
           NEW x, reader' = [reader EXCEPT ![r] = x], waiting' = waiting
    PROVE  WaitingOK'
  <1>1. \A k \in DOMAIN waiting : waiting[k] \in Reader /\ waiting[k] # r
    BY DEF StreamTypeOK, WaitingOK
  <1>2. \A k \in DOMAIN waiting : reader'[waiting[k]] = reader[waiting[k]]
    BY <1>1 DEF StreamTypeOK
  <1>3. QED
    BY <1>2 DEF WaitingOK

\* Between two steps a reader is in one of its states.
LEMMA ReaderTypes ==
    ASSUME StreamTypeOK, NEW r \in Reader
    PROVE  /\ reader[r] \in ReaderState /\ reader[r].n \in Nat
           /\ reader[r].block \in Seq(AllRows)
           /\ \A pc \in {"call", "check", "load", "row", "wait", "done",
                         "panicked"} :
                 Reading(pc) \in ReaderState /\ Reading(pc).pc = pc
  BY DEF StreamTypeOK, ReaderState, Reading

\* What a step of reader r that is awake has to do to keep the invariant.
LEMMA ReaderKeeps ==
    ASSUME LockInv, NEW r \in Reader, NEW x \in ReaderState,
           reader[r].pc # "wait", reader' = [reader EXCEPT ![r] = x],
           UNCHANGED <<waiting, blocks, err, poller, chunk, closed, unreset,
                       final>>,
           \/ /\ lock' = r /\ lock \in {r, "free"}
              /\ x.pc \in {"check", "load", "row"}
           \/ /\ lock' = "free" /\ lock = r
              /\ x.pc \notin {"check", "load", "row"},
           i' \in Nat, j' \in Nat, got' \in Seq(AllRows),
           told' \in [Reader -> StreamErr],
           ~closed => /\ PositionOK'
                      /\ x.pc \in {"load", "row"} => i' < Len(blocks)
                      /\ x.pc = "row" => x.block = blocks[i' + 1]
                      /\ x.pc # "panicked"
    PROVE  LockInv'
  <1>1. reader' \in [Reader -> ReaderState] /\ reader'[r] = x
        /\ \A q \in Reader \ {r} : reader'[q] = reader[q]
    BY DEF LockInv, StreamTypeOK
  <1>2. StreamTypeOK'
    BY <1>1 DEF LockInv, StreamTypeOK
  <1>3. WaitingOK'
    BY StayAsleep DEF LockInv
  <1>4. \A q \in Reader \ {r} : ~Busy(q) /\ ~Busy(q)'
    BY <1>1, StreamAssumption DEF LockInv, LockHeld, Busy
  <1>5. LockHeld'
    BY <1>1, <1>4, StreamAssumption DEF LockInv, LockHeld, Busy
  <1>6. \A q \in Reader \ {r} : ~closed => ReaderOK(q)'
    BY <1>1, <1>4 DEF LockInv, BlocksKept, ReaderOK, Busy
  <1>7. ~closed => ReaderOK(r)'
    BY <1>1 DEF ReaderOK
  <1>8. BlocksKept'
    BY <1>6, <1>7 DEF LockInv, BlocksKept
  <1>9. QED
    BY <1>2, <1>3, <1>5, <1>8 DEF LockInv

LEMMA ReadWaitKeeps ==
    ASSUME LockInv, NEW r \in Reader, ReadWait(r)
    PROVE  LockInv'
  <1> DEFINE x == Reading("wait")
  <1>1. /\ StreamTypeOK /\ x \in ReaderState /\ x.pc = "wait"
        /\ reader[r].pc = "check" /\ waiting \in Seq(Reader)
        /\ reader \in [Reader -> ReaderState]
    BY ReaderTypes DEF LockInv, StreamTypeOK, ReadWait
  <1>2. /\ waiting' = Append(waiting, r) /\ reader' = [reader EXCEPT ![r] = x]
        /\ lock' = "free" /\ UNCHANGED <<fields, err, poller, chunk, closed,
                                         unreset, history>>
    BY DEF ReadWait
  <1> HIDE DEF x
  <1>3. /\ reader' \in [Reader -> ReaderState] /\ reader'[r].pc = "wait"
        /\ \A q \in Reader \ {r} : reader'[q] = reader[q]
        /\ waiting' \in Seq(Reader)
    BY <1>1, <1>2
  <1>4. StreamTypeOK'
    BY <1>2, <1>3 DEF LockInv, StreamTypeOK, fields, history
  <1>5. WaitingOK'
    <2> DEFINE n == Len(waiting)
    <2>1. /\ n \in Nat /\ DOMAIN waiting = 1 .. n /\ DOMAIN waiting' = 1 .. n + 1
          /\ waiting'[n + 1] = r
          /\ \A k \in 1 .. n : waiting'[k] = waiting[k] /\ waiting[k] \in Reader
      BY <1>1, <1>2
    <2>2. \A k \in 1 .. n : waiting[k] # r /\ reader[waiting[k]].pc = "wait"
      BY <1>1, <2>1 DEF LockInv, WaitingOK
    <2> HIDE DEF n
    <2>3. \A k \in 1 .. n + 1 : k = n + 1 \/ k \in 1 .. n
      BY <2>1
    <2>4. \A k \in 1 .. n : \A l \in 1 .. n : waiting[k] = waiting[l] => k = l
      BY <2>1 DEF LockInv, WaitingOK
    <2>5. \A k \in 1 .. n + 1 : reader'[waiting'[k]].pc = "wait"
      BY <1>3, <2>1, <2>2, <2>3
    <2>6. \A k, l \in 1 .. n + 1 : waiting'[k] = waiting'[l] => k = l
      BY <2>1, <2>2, <2>3, <2>4
    <2>7. QED
      BY <2>1, <2>5, <2>6 DEF WaitingOK
  <1>6. lock = r
    BY <1>1 DEF LockInv, LockHeld, Busy
  <1>7. \A q \in Reader : ~Busy(q)'
    BY <1>3, <1>6 DEF LockInv, LockHeld, Busy
  <1>8. LockHeld'
    BY <1>2, <1>6, <1>7, StreamAssumption DEF LockInv, LockHeld
  <1>9. ~closed => \A q \in Reader : ReaderOK(q)'
    BY <1>2, <1>3 DEF LockInv, BlocksKept, ReaderOK, fields
  <1>10. BlocksKept'
    BY <1>2, <1>9 DEF LockInv, BlocksKept, PositionOK, fields
  <1>11. QED
    BY <1>4, <1>5, <1>8, <1>10 DEF LockInv

LEMMA ReadKeepsLock ==
    ASSUME LockInv, NEW r \in Reader, ReadStep(r)
    PROVE  LockInv'
  <1>1. /\ StreamTypeOK /\ reader[r] \in ReaderState /\ reader[r].n \in Nat
        /\ i \in Nat /\ j \in Nat /\ blocks \in Seq(Seq(AllRows))
        /\ got \in Seq(AllRows) /\ told \in [Reader -> StreamErr]
        /\ reader[r].block \in Seq(AllRows)
    BY ReaderTypes DEF LockInv, StreamTypeOK
  <1>2. Busy(r) <=> lock = r
    BY DEF LockInv, LockHeld
  <1>3. ~closed => PositionOK /\ ReaderOK(r)
    BY DEF LockInv, BlocksKept
  <1>4. UNCHANGED fields => (PositionOK => PositionOK')
    BY DEF PositionOK, fields
  <1>5. CASE ReadLock(r)
    <2>1. Reading("check") \in ReaderState /\ Reading("check").pc = "check"
      BY <1>1, ReaderTypes
    <2>2. QED
      BY <1>1, <1>3, <1>4, <1>5, <2>1, ReaderKeeps
         DEF ReadLock, fields, history
  <1>6. CASE ReadCheck(r)
    <2> DEFINE x == [reader[r] EXCEPT !.pc = "load"]
    <2>1. x \in ReaderState /\ x.pc = "load" /\ reader' = [reader EXCEPT ![r] = x]
      BY <1>1, <1>6 DEF ReadCheck, ReaderState
    <2> HIDE DEF x
    <2>2. reader[r].pc = "check" /\ lock = r
      BY <1>2, <1>6 DEF ReadCheck, Busy
    <2>3. QED
      BY <1>1, <1>3, <1>4, <1>6, <2>1, <2>2, ReaderKeeps
         DEF ReadCheck, fields, history
  <1>7. CASE ReadLoad(r)
    <2>1. reader[r].pc = "load" /\ lock = r
      BY <1>2, <1>7 DEF ReadLoad, Busy
    <2>2. CASE i < Len(blocks)
      <3> DEFINE x == [reader[r] EXCEPT !.pc = "row", !.block = blocks[i + 1]]
      <3>1. blocks[i + 1] \in Seq(AllRows)
        BY <1>1, <2>2
      <3>2. /\ x \in ReaderState /\ x.pc = "row" /\ x.block = blocks[i + 1]
            /\ reader' = [reader EXCEPT ![r] = x]
        BY <1>1, <1>7, <2>2, <3>1 DEF ReadLoad, ReaderState
      <3> HIDE DEF x
      <3>3. QED
        BY <1>1, <1>3, <1>4, <1>7, <2>1, <2>2, <3>2, ReaderKeeps
           DEF ReadLoad, fields, history
    <2>3. CASE ~(i < Len(blocks))
      <3>1. /\ Reading("panicked") \in ReaderState
            /\ Reading("panicked").pc = "panicked"
        BY <1>1, ReaderTypes
      <3>2. closed
        BY <1>3, <2>1, <2>3 DEF ReaderOK
      <3>3. QED
        BY <1>1, <1>7, <2>1, <2>3, <3>1, <3>2, ReaderKeeps
           DEF ReadLoad, fields, history
    <2>4. QED
      BY <2>2, <2>3
  <1>8. CASE ReadRow(r)
    <2> DEFINE x == [reader[r] EXCEPT !.n = @ + 1]
    <2>1. /\ x \in ReaderState /\ x.pc = "row" /\ x.block = reader[r].block
          /\ reader' = [reader EXCEPT ![r] = x]
      BY <1>1, <1>8 DEF ReadRow, ReaderState
    <2> HIDE DEF x
    <2>2. reader[r].pc = "row" /\ lock = r /\ j < Len(reader[r].block)
      BY <1>2, <1>8 DEF ReadRow, Busy
    <2>3. reader[r].block[j + 1] \in AllRows
      BY <1>1, <2>2
    <2>4. got' \in Seq(AllRows)
      BY <1>1, <1>8, <2>3 DEF ReadRow
    <2>5. ~closed => PositionOK'
      BY <1>1, <1>3, <1>8, <2>2 DEF ReadRow, PositionOK, ReaderOK
    <2>6. ~closed => i < Len(blocks) /\ x.block = blocks[i + 1]
      BY <1>3, <2>1, <2>2 DEF ReaderOK
    <2>7. /\ UNCHANGED <<waiting, blocks, err, poller, chunk, closed, unreset,
                          final, lock, i, told>>
          /\ j' \in Nat
      BY <1>1, <1>8 DEF ReadRow
    <2>8. QED
      BY <1>1, <2>1, <2>2, <2>4, <2>5, <2>6, <2>7, ReaderKeeps
  <1>9. CASE ReadFull(r)
    <2>1. Reading("call") \in ReaderState /\ Reading("call").pc = "call"
      BY <1>1, ReaderTypes
    <2>2. reader[r].pc = "row" /\ lock = r
      BY <1>2, <1>9 DEF ReadFull, Busy
    <2>3. QED
      BY <1>1, <1>3, <1>4, <1>9, <2>1, <2>2, ReaderKeeps
         DEF ReadFull, fields, history
  <1>10. CASE ReadNextBlock(r)
    <2> DEFINE x == [reader[r] EXCEPT !.pc = "check", !.block = <<>>]
    <2>1. /\ x \in ReaderState /\ x.pc = "check"
          /\ reader' = [reader EXCEPT ![r] = x]
      <3>1. <<>> \in Seq(AllRows)
        OBVIOUS
      <3>2. x \in ReaderState /\ x.pc = "check"
        BY <1>1, <3>1 DEF ReaderState
      <3>3. reader' = [reader EXCEPT ![r] = x]
        BY <1>10 DEF ReadNextBlock
      <3>4. QED
        BY <3>2, <3>3
    <2> HIDE DEF x
    <2>2. reader[r].pc = "row" /\ lock = r
      BY <1>2, <1>10 DEF ReadNextBlock, Busy
    <2>3. ~closed => PositionOK'
      <3> SUFFICES ASSUME ~closed PROVE PositionOK'
        OBVIOUS
      <3>1. i < Len(blocks) /\ i' = i + 1 /\ j' = 0 /\ blocks' = blocks
        BY <1>3, <1>10, <2>2 DEF ReaderOK, ReadNextBlock
      <3>2. i' < Len(blocks') => Len(blocks'[i' + 1]) \in Nat
        BY <1>1, <3>1
      <3>3. QED
        BY <1>1, <3>1, <3>2 DEF PositionOK
    <2>4. /\ UNCHANGED <<waiting, blocks, err, poller, chunk, closed, unreset,
                          final, lock, got, told>>
          /\ i' \in Nat /\ j' \in Nat
      BY <1>1, <1>10 DEF ReadNextBlock, history
    <2>5. QED
      BY <1>1, <2>1, <2>2, <2>3, <2>4, ReaderKeeps
  <1>11. CASE ReadEnd(r)
    <2> DEFINE pc == IF err = "nil" THEN "call" ELSE "done"
    <2>1. Reading(pc) \in ReaderState /\ Reading(pc).pc \in {"call", "done"}
      <3>1. pc \in {"call", "done"}
        OBVIOUS
      <3> HIDE DEF pc
      <3>2. QED
        BY <1>1, <3>1, ReaderTypes
    <2>2. reader[r].pc = "check" /\ lock = r
      BY <1>2, <1>11 DEF ReadEnd, Busy
    <2>3. told' \in [Reader -> StreamErr]
      BY <1>1, <1>11 DEF ReadEnd, StreamTypeOK
    <2>4. /\ UNCHANGED <<waiting, blocks, err, poller, chunk, closed, unreset,
                          final, got, fields>>
          /\ i' = i /\ j' = j /\ lock' = "free"
          /\ reader' = [reader EXCEPT ![r] = Reading(pc)]
      BY <1>11 DEF ReadEnd, fields
    <2> HIDE DEF pc
    <2>5. QED
      BY <1>1, <1>3, <1>4, <2>1, <2>2, <2>3, <2>4, ReaderKeeps
  <1>12. CASE ReadWait(r)
    BY <1>12, ReadWaitKeeps
  <1>13. QED
    BY <1>5, <1>6, <1>7, <1>8, <1>9, <1>10, <1>11, <1>12 DEF ReadStep

\* What a step of the poller that leaves the lock alone has to do.
LEMMA PollerKeeps ==
    ASSUME LockInv, poller' \in PollerState,
           poller.pc # "store", poller'.pc # "store",
           chunk' \in [Chunk -> ChunkState],
           \A c \in Chunk : chunk'[c].ptr \subseteq Ptr[c],
           final' \in [Chunk -> SUBSET AllPtrs],
           \A c \in Chunk : final'[c] \subseteq Ptr[c],
           UNCHANGED <<lock, waiting, fields, err, reader, closed, unreset, got,
                       told>>
    PROVE  LockInv'
  <1>1. StreamTypeOK'
    BY DEF LockInv, StreamTypeOK, fields
  <1>2. WaitingOK' /\ LockHeld'
    BY DEF LockInv, WaitingOK, LockHeld, Busy
  <1>3. BlocksKept'
    BY DEF LockInv, BlocksKept, PositionOK, ReaderOK, fields
  <1>4. QED
    BY <1>1, <1>2, <1>3 DEF LockInv

\* Whoever has the lock while Signal wakes a reader lets go of it.
LEMMA SignalKeeps ==
    ASSUME LockInv, Signal, lock' = "free", lock \in {"free", "poller"},
           blocks' \in Seq(Seq(AllRows)), err' \in StreamErr,
           poller' \in PollerState, poller'.pc # "store",
           chunk' \in [Chunk -> ChunkState],
           \A c \in Chunk : chunk'[c].ptr \subseteq Ptr[c],
           final' \in [Chunk -> SUBSET AllPtrs],
           \A c \in Chunk : final'[c] \subseteq Ptr[c],
           got' \in Seq(AllRows), unreset' \subseteq {"blocks", "i", "j"},
           closed' \in BOOLEAN, UNCHANGED <<i, j, told>>,
           ~closed' => ~closed /\ unreset' = {} /\ PositionOK'
    PROVE  LockInv'
  <1>1. /\ waiting' \in Seq(Reader) /\ reader' \in [Reader -> ReaderState]
        /\ WaitingOK'
        /\ \A r \in Reader : \/ reader'[r] = reader[r]
                             \/ reader[r].pc = "wait" /\ reader'[r].pc = "call"
    BY SignalEffect DEF LockInv
  <1>2. StreamTypeOK'
    BY <1>1 DEF LockInv, StreamTypeOK
  <1>3. \A r \in Reader : ~Busy(r) /\ ~Busy(r)'
    <2>1. \A r \in Reader : r # "free" /\ r # "poller"
      BY StreamAssumption
    <2>2. \A r \in Reader : ~Busy(r)
      BY <2>1 DEF LockInv, LockHeld
    <2>3. QED
      BY <1>1, <2>2 DEF Busy
  <1>4. LockHeld'
    BY <1>3, StreamAssumption DEF LockHeld
  <1>5. ~closed' => \A r \in Reader : ReaderOK(r)'
    BY <1>1, <1>3 DEF LockInv, BlocksKept, ReaderOK, Busy
  <1>6. BlocksKept'
    BY <1>5 DEF BlocksKept
  <1>7. QED
    BY <1>1, <1>2, <1>4, <1>6 DEF LockInv

LEMMA PollerStates ==
    ASSUME poller \in PollerState
    PROVE  /\ poller.pc \in {"idle", "call", "append", "store"}
           /\ poller.pc # "idle" => poller.c \in Chunk
           /\ poller.pc \in {"append", "store"} =>
                 poller.block \in Sendable /\ poller.then \in Then
           /\ poller.pc = "store" => poller.blocks \in Seq(Seq(AllRows))
  BY DEF PollerState

LEMMA PollerKeepsLock ==
    ASSUME LockInv, PollerStep
    PROVE  LockInv'
  <1>1. /\ StreamTypeOK /\ poller \in PollerState
        /\ chunk \in [Chunk -> ChunkState]
        /\ \A c \in Chunk : chunk[c].ptr \subseteq Ptr[c]
        /\ final \in [Chunk -> SUBSET AllPtrs]
        /\ \A c \in Chunk : final[c] \subseteq Ptr[c]
    BY DEF LockInv, StreamTypeOK
  <1>2. PollerIdle \in PollerState /\ PollerIdle.pc = "idle"
    BY DEF PollerIdle, PollerState
  <1>3. ASSUME NEW c \in Chunk, Poll(c) PROVE LockInv'
    <2>1. poller' \in PollerState /\ poller'.pc = "call" /\ poller.pc = "idle"
      BY <1>3 DEF Poll, PollerState
    <2>2. QED
      BY <1>1, <1>3, <2>1, PollerKeeps DEF Poll, history
  <1>4. ASSUME NEW c \in Chunk, NEW s \in {"over", "failed"},
               chunk' = [chunk EXCEPT ![c].state = s]
        PROVE  /\ chunk' \in [Chunk -> ChunkState]
               /\ \A d \in Chunk : chunk'[d].ptr = chunk[d].ptr
    BY <1>1, <1>4 DEF ChunkState
  <1>5. ASSUME NEW c \in Chunk, GiveUp(c) PROVE LockInv'
    <2>1. /\ chunk' \in [Chunk -> ChunkState]
          /\ \A d \in Chunk : chunk'[d].ptr = chunk[d].ptr
      BY <1>4, <1>5 DEF GiveUp
    <2>2. QED
      BY <1>1, <1>5, <2>1, PollerKeeps DEF GiveUp, history
  <1>6. ASSUME NEW c \in Chunk, AnswerFailed(c) PROVE LockInv'
    <2>1. /\ chunk' \in [Chunk -> ChunkState]
          /\ \A d \in Chunk : chunk'[d].ptr = chunk[d].ptr
      BY <1>4, <1>6 DEF AnswerFailed
    <2>2. QED
      BY <1>1, <1>2, <1>6, <2>1, PollerKeeps DEF AnswerFailed, history
  <1>7. ASSUME NEW c \in Chunk, NEW batch \in SUBSET Ptr[c], NEW then \in Then,
               NEW polls \in Nat, Send(c, batch, then, polls)
        PROVE  /\ poller' \in PollerState /\ poller'.pc # "store"
               /\ chunk' \in [Chunk -> ChunkState]
               /\ \A d \in Chunk : chunk'[d].ptr \subseteq Ptr[d]
    <2> DEFINE block == PreviewBlock(chunk[c].ptr, batch)
    <2>1. /\ poller' \in PollerState /\ chunk' \in [Chunk -> ChunkState]
          /\ chunk'[c].ptr = batch
          /\ \A d \in Chunk \ {c} : chunk'[d] = chunk[d]
          /\ block = <<>> => poller' = PollerIdle
          /\ block # <<>> => poller' = [pc |-> "append", c |-> c,
                                       block |-> block, then |-> then]
      <3>1. StreamTypeOK /\ chunk[c].ptr \subseteq Ptr[c]
        BY <1>1
      <3>2. AfterSend(c, batch, then)
        BY <1>7, <3>1, SendEffect
      <3>3. QED
        BY <3>2, Zenon DEF AfterSend
    <2> HIDE DEF block
    <2>2. QED
      BY <1>1, <1>2, <2>1
  <1>8. ASSUME NEW c \in Chunk, NEW batch \in SUBSET Ptr[c],
               AnswerRunning(c, batch)
        PROVE  LockInv'
    <2>1. chunk[c].polls + 1 \in Nat /\ "polling" \in Then
      BY <1>1 DEF ChunkState, Then
    <2>2. /\ Send(c, batch, "polling", chunk[c].polls + 1) /\ poller.pc = "call"
          /\ UNCHANGED <<lock, waiting, fields, err, reader, closed, unreset,
                         got, told, final>>
      BY <1>8 DEF AnswerRunning, history
    <2>3. QED
      BY <1>1, <1>7, <2>1, <2>2, PollerKeeps
  <1>9. ASSUME NEW c \in Chunk, NEW batch \in SUBSET Ptr[c],
               AnswerComplete(c, batch)
        PROVE  LockInv'
    <2>1. chunk[c].polls \in Nat /\ "complete" \in Then
      BY <1>1 DEF ChunkState, Then
    <2>2. /\ Send(c, batch, "complete", chunk[c].polls) /\ poller.pc = "call"
          /\ final' = IF closed THEN final ELSE [final EXCEPT ![c] = batch]
          /\ UNCHANGED <<lock, waiting, fields, err, reader, closed, unreset,
                         got, told>>
      BY <1>9 DEF AnswerComplete
    <2>3. batch \in SUBSET AllPtrs
      BY RowTypes
    <2>4. final' \in [Chunk -> SUBSET AllPtrs]
          /\ \A d \in Chunk : final'[d] \subseteq Ptr[d]
      BY <1>1, <2>2, <2>3
    <2>5. QED
      BY <1>1, <1>7, <2>1, <2>2, <2>4, PollerKeeps
  <1>10. CASE AppendLoad
    <2>1. poller' \in PollerState /\ poller'.pc = "store" /\ poller'.blocks = blocks
      BY <1>1, <1>10, PollerStates DEF AppendLoad, PollerState, StreamTypeOK
    <2>2. StreamTypeOK'
      BY <1>1, <1>10, <2>1 DEF AppendLoad, StreamTypeOK, fields, history
    <2>3. WaitingOK' /\ LockHeld'
      BY <1>1, <1>10, <2>1, StreamAssumption
         DEF AppendLoad, LockInv, WaitingOK, LockHeld, Busy
    <2>4. BlocksKept'
      BY <1>10, <2>1
         DEF AppendLoad, LockInv, BlocksKept, PositionOK, ReaderOK, fields
    <2>5. QED
      BY <2>2, <2>3, <2>4 DEF LockInv
  <1>11. CASE AppendStore
    <2>1. /\ poller.pc = "store" /\ lock = "poller" /\ poller.c \in Chunk
          /\ poller.then \in Then /\ poller.block \in Seq(AllRows)
          /\ poller.blocks \in Seq(Seq(AllRows))
      BY <1>1, <1>11, PollerStates
         DEF AppendStore, LockInv, LockHeld, Sendable
    <2>2. blocks' \in Seq(Seq(AllRows))
      BY <1>11, <2>1 DEF AppendStore
    <2>3. /\ chunk' \in [Chunk -> ChunkState]
          /\ \A c \in Chunk : chunk'[c].ptr = chunk[c].ptr
      BY <1>1, <1>11, <2>1 DEF AppendStore, ChunkState, Then
    <2>4. ~closed => unreset = {} /\ PositionOK'
      <3> SUFFICES ASSUME ~closed PROVE unreset = {} /\ PositionOK'
        OBVIOUS
      <3>1. /\ unreset = {} /\ PositionOK /\ blocks' = Append(blocks, poller.block)
            /\ i' = i /\ j' = j /\ i \in Nat /\ blocks \in Seq(Seq(AllRows))
        BY <1>1, <1>11, <2>1 DEF AppendStore, LockInv, BlocksKept, StreamTypeOK
      <3>2. /\ Len(blocks') = Len(blocks) + 1
            /\ i < Len(blocks) => blocks'[i + 1] = blocks[i + 1]
            /\ i = Len(blocks) => blocks'[i + 1] = poller.block
            /\ Len(poller.block) \in Nat /\ Len(blocks) \in Nat
        BY <2>1, <3>1
      <3>3. QED
        BY <3>1, <3>2 DEF PositionOK
    <2>5. /\ Signal /\ lock' = "free" /\ poller' = PollerIdle
          /\ UNCHANGED <<i, j, err, closed, unreset, got, told, final>>
      BY <1>11 DEF AppendStore, history
    <2>6. err' \in StreamErr /\ got' \in Seq(AllRows) /\ closed' \in BOOLEAN
          /\ unreset' \subseteq {"blocks", "i", "j"}
      BY <1>1, <2>5 DEF StreamTypeOK
    <2>7. QED
      BY <1>1, <1>2, <2>1, <2>2, <2>3, <2>4, <2>5, <2>6, SignalKeeps
  <1>12. QED
    BY <1>3, <1>5, <1>6, <1>8, <1>9, <1>10, <1>11 DEF PollerStep

LEMMA LoopKeepsLock ==
    ASSUME LockInv, NEW c \in Chunk, Handle(c)
    PROVE  LockInv'
  <1>1. /\ StreamTypeOK /\ poller \in PollerState
        /\ chunk \in [Chunk -> ChunkState]
        /\ \A d \in Chunk : chunk[d].ptr \subseteq Ptr[d]
        /\ final \in [Chunk -> SUBSET AllPtrs]
        /\ \A d \in Chunk : final[d] \subseteq Ptr[d]
        /\ err \in StreamErr /\ blocks \in Seq(Seq(AllRows))
        /\ got \in Seq(AllRows) /\ closed \in BOOLEAN
        /\ unreset \subseteq {"blocks", "i", "j"}
    BY DEF LockInv, StreamTypeOK
  <1>2. /\ lock = "free" /\ lock' = "free"
        /\ UNCHANGED <<fields, poller, closed, unreset, got, told, final>>
    BY DEF Handle, HandleCompletion, HandleFailure, history
  <1>3. /\ chunk' \in [Chunk -> ChunkState]
        /\ \A d \in Chunk : chunk'[d].ptr \subseteq Ptr[d]
    <2>1. PICK s \in {"over", "completed"} : chunk' = [chunk EXCEPT ![c].state = s]
      BY DEF Handle, HandleCompletion, HandleFailure
    <2>2. QED
      BY <1>1, <2>1 DEF ChunkState
  <1>4. poller.pc # "store"
    BY <1>2, StreamAssumption DEF LockInv, LockHeld
  <1>5. ~closed' => ~closed /\ unreset' = {} /\ PositionOK'
    BY <1>2 DEF LockInv, BlocksKept, PositionOK, fields
  <1>6. CASE \E e : SetErr(e) /\ e \in StreamErr
    <2>1. Signal /\ err' \in StreamErr
      BY <1>6 DEF SetErr
    <2>2. QED
      BY <1>1, <1>2, <1>3, <1>4, <1>5, <2>1, SignalKeeps DEF fields
  <1>7. CASE UNCHANGED <<err, waiting, reader>>
    <2>1. StreamTypeOK'
      BY <1>2, <1>3, <1>7 DEF LockInv, StreamTypeOK, fields
    <2>2. WaitingOK' /\ LockHeld'
      BY <1>2, <1>7 DEF LockInv, WaitingOK, LockHeld, Busy
    <2>3. BlocksKept'
      BY <1>2, <1>5, <1>7 DEF LockInv, BlocksKept, ReaderOK, fields
    <2>4. QED
      BY <2>1, <2>2, <2>3 DEF LockInv
  <1>8. ErrAfter(c) \in StreamErr /\ "failed" \in StreamErr
    BY DEF ErrAfter, StreamErr
  <1>9. QED
    BY <1>6, <1>7, <1>8 DEF Handle, HandleCompletion, HandleFailure

LEMMA CloseKeepsLock ==
    ASSUME LockInv, Shutdown \/ CloseStream
    PROVE  LockInv'
  <1>1. /\ StreamTypeOK /\ poller \in PollerState
        /\ chunk \in [Chunk -> ChunkState]
        /\ \A d \in Chunk : chunk[d].ptr \subseteq Ptr[d]
        /\ final \in [Chunk -> SUBSET AllPtrs]
        /\ \A d \in Chunk : final[d] \subseteq Ptr[d]
        /\ blocks \in Seq(Seq(AllRows))
        /\ got \in Seq(AllRows) /\ closed \in BOOLEAN
        /\ unreset \subseteq {"blocks", "i", "j"}
    BY DEF LockInv, StreamTypeOK
  <1>2. /\ lock = "free" /\ lock' = "free" /\ Signal /\ err' \in StreamErr
        /\ UNCHANGED <<fields, poller, chunk, told>>
    BY DEF Shutdown, CloseStream, SetErr, StreamErr, history
  <1>3. poller.pc # "store"
    BY <1>2, StreamAssumption DEF LockInv, LockHeld
  <1>4. CASE Shutdown
    <2>1. UNCHANGED <<closed, unreset, got, final>>
      BY <1>4 DEF Shutdown, history
    <2>2. ~closed' => ~closed /\ unreset' = {} /\ PositionOK'
      BY <1>2, <2>1 DEF LockInv, BlocksKept, PositionOK, fields
    <2>3. QED
      BY <1>1, <1>2, <1>3, <2>1, <2>2, SignalKeeps DEF fields
  <1>5. CASE CloseStream
    <2>1. /\ closed' = TRUE /\ unreset' = {"blocks", "i", "j"} /\ got' = <<>>
          /\ final' = [c \in Chunk |-> {}]
      BY <1>5 DEF CloseStream
    <2>2. got' \in Seq(AllRows) /\ unreset' \subseteq {"blocks", "i", "j"}
      BY <2>1
    <2>3. /\ final' \in [Chunk -> SUBSET AllPtrs]
          /\ \A d \in Chunk : final'[d] \subseteq Ptr[d]
      BY <2>1
    <2>4. QED
      BY <1>1, <1>2, <1>3, <2>1, <2>2, <2>3, SignalKeeps DEF fields
  <1>6. QED
    BY <1>4, <1>5

LEMMA ResetKeepsLock ==
    ASSUME LockInv, Reset
    PROVE  LockInv'
  <1>1. /\ UNCHANGED <<lock, waiting, err, reader, poller, chunk, closed, got,
                       told, final>>
        /\ blocks' \in {blocks, <<>>} /\ i' \in {i, 0} /\ j' \in {j, 0}
        /\ unreset' \subseteq unreset /\ unreset # {}
    BY DEF Reset, ResetBlocks, ResetI, ResetJ, history
  <1>2. closed
    BY <1>1 DEF LockInv, BlocksKept
  <1>3. <<>> \in Seq(Seq(AllRows))
    OBVIOUS
  <1>4. StreamTypeOK'
    <2>1. blocks \in Seq(Seq(AllRows)) /\ i \in Nat /\ j \in Nat
          /\ unreset \subseteq {"blocks", "i", "j"}
      BY DEF LockInv, StreamTypeOK
    <2>2. blocks' = blocks \/ blocks' = <<>>
      BY <1>1
    <2>3. blocks' \in Seq(Seq(AllRows))
      BY <1>3, <2>1, <2>2, Zenon
    <2>4. i' \in Nat /\ j' \in Nat /\ unreset' \subseteq {"blocks", "i", "j"}
      BY <1>1, <2>1
    <2>5. QED
      BY <1>1, <2>3, <2>4 DEF LockInv, StreamTypeOK
  <1>5. WaitingOK' /\ LockHeld' /\ BlocksKept'
    BY <1>1, <1>2 DEF LockInv, WaitingOK, LockHeld, BlocksKept, Busy
  <1>6. QED
    BY <1>4, <1>5 DEF LockInv

LEMMA InitLock == Init => LockInv
  <1> SUFFICES ASSUME Init PROVE LockInv
    OBVIOUS
  <1>1. Reading("call") \in ReaderState /\ Reading("call").pc = "call"
    BY DEF Reading, ReaderState
  <1>2. reader \in [Reader -> ReaderState] /\ \A r \in Reader : reader[r].pc = "call"
    BY <1>1 DEF Init
  <1>3. chunk \in [Chunk -> ChunkState] /\ \A c \in Chunk : chunk[c].ptr = {}
    BY DEF Init, ChunkState
  <1>4. final \in [Chunk -> SUBSET AllPtrs] /\ \A c \in Chunk : final[c] = {}
    BY DEF Init
  <1>5. told \in [Reader -> StreamErr]
    BY DEF Init, StreamErr
  <1>6. poller \in PollerState /\ poller.pc = "idle"
    BY DEF Init, PollerIdle, PollerState
  <1>7. StreamTypeOK
    <2>1. <<>> \in Seq(Reader) /\ <<>> \in Seq(Seq(AllRows)) /\ <<>> \in Seq(AllRows)
      OBVIOUS
    <2>2. QED
      BY <1>2, <1>3, <1>4, <1>5, <1>6, <2>1 DEF Init, StreamTypeOK, StreamErr
  <1>8. WaitingOK /\ LockHeld
    BY <1>2, <1>6, StreamAssumption DEF Init, WaitingOK, LockHeld, Busy
  <1>9. BlocksKept
    BY <1>2, <1>6 DEF Init, BlocksKept, PositionOK, ReaderOK
  <1>10. QED
    BY <1>7, <1>8, <1>9 DEF LockInv

LEMMA NextKeepsLock == LockInv /\ [Next]_svars => LockInv'
  <1> SUFFICES ASSUME LockInv, [Next]_svars PROVE LockInv'
    OBVIOUS
  <1>1. CASE Next
    BY <1>1, ReadKeepsLock, PollerKeepsLock, LoopKeepsLock, CloseKeepsLock,
       ResetKeepsLock DEF Next
  <1>2. CASE UNCHANGED svars
    BY <1>2 DEF svars, fields, LockInv, StreamTypeOK, WaitingOK, LockHeld, Busy,
                BlocksKept, PositionOK, ReaderOK
  <1>3. QED
    BY <1>1, <1>2

LEMMA LockSafe == Spec => []LockInv
  BY InitLock, NextKeepsLock, PTL DEF Spec

\* The property PanicOnlyInClose: as long as nobody calls Close, Read never
\* indexes s.blocks out of range (stream.go:44), with any number of readers.
THEOREM PanicNeedsClose == Spec => []PanicOnlyInClose
  <1>1. LockInv => PanicOnlyInClose
    BY DEF LockInv, BlocksKept, ReaderOK, PanicOnlyInClose, Crashed
  <1>2. QED
    BY <1>1, LockSafe, PTL

(***************************************************************************)
(* What a reader holds, and the rows of many blocks.                       *)
(***************************************************************************)

\* What a reader holds after one more row.
After(held, row) ==
    IF row.deleted THEN held \ {row.ptr} ELSE held \cup {row.ptr}

LEMMA ViewSteps ==
    ASSUME NEW rows \in Seq(AllRows)
    PROVE  /\ View(rows) \in [0 .. Len(rows) -> SUBSET AllPtrs]
           /\ View(rows)[0] = {}
           /\ \A k \in 1 .. Len(rows) :
                 View(rows)[k] = After(View(rows)[k - 1], rows[k])
  <1> DEFINE n == Len(rows)
             T == SUBSET AllPtrs
             step == [k \in Nat |-> [h \in T |-> IF k \in 1 .. n THEN After(h, rows[k])
                                               ELSE {}]]
  <1>1. n \in Nat
    OBVIOUS
  <1>2. \A k \in 1 .. n : rows[k].ptr \in AllPtrs
    BY RowTypes
  <1>3. step \in [Nat -> [T -> T]]
    BY <1>2 DEF After
  <1>4. \A k \in 1 .. n : \A h \in T : step[k][h] = After(h, rows[k])
    OBVIOUS
  <1> HIDE DEF n, T, step
  <1>5. {} \in T
    BY DEF T
  <1>6. PICK f \in [0 .. n -> T] :
                /\ f[0] = {}
                /\ \A k \in 1 .. n : f[k] = step[k][f[k - 1]]
    <2>1. PICK f : Recurs(f, T, {}, step, n)
      BY <1>1, <1>3, <1>5, Recursion, Zenon
    <2>2. QED
      BY <2>1 DEF Recurs
  <1>7. \A k \in 0 .. n : k = 0 \/ (k # 0 /\ k \in 1 .. n /\ k - 1 \in 0 .. n)
    BY <1>1
  <1>8. \A k \in 1 .. n : k # 0 /\ f[k] = After(f[k - 1], rows[k])
    BY <1>1, <1>4, <1>6, <1>7
  <1>9. f = [k \in 0 .. n |->
                IF k = 0 THEN {}
                ELSE IF rows[k].deleted THEN f[k - 1] \ {rows[k].ptr}
                                        ELSE f[k - 1] \cup {rows[k].ptr}]
    BY <1>6, <1>7, <1>8 DEF After
  <1>10. \E g : g = [k \in 0 .. n |->
                        IF k = 0 THEN {}
                        ELSE IF rows[k].deleted THEN g[k - 1] \ {rows[k].ptr}
                                                ELSE g[k - 1] \cup {rows[k].ptr}]
    BY <1>9, Zenon
  <1> DEFINE v == View(rows)
  <1>11. v = [k \in 0 .. n |->
                IF k = 0 THEN {}
                ELSE IF rows[k].deleted THEN v[k - 1] \ {rows[k].ptr}
                                        ELSE v[k - 1] \cup {rows[k].ptr}]
    BY <1>10, Zenon DEF View, n
  <1> HIDE DEF v
  <1>20. v[0] = {}
    <2>1. 0 \in 0 .. n
      BY <1>1
    <2>2. QED
      BY <1>11, <2>1, Zenon
  <1>12. \A k \in 1 .. n : v[k] = After(v[k - 1], rows[k])
    <2> TAKE k \in 1 .. n
    <2>1. k \in 0 .. n /\ k # 0
      BY <1>1
    <2>2. QED
      BY <1>11, <2>1, Zenon DEF After
  <1>13. \A k \in 0 .. n : v[k] \in T
    <2> DEFINE U == {k \in 0 .. n : v[k] \in T}
    <2>1. 0 \in U
      <3>1. v[0] \in T /\ 0 \in 0 .. n
        BY <1>1, <1>5, <1>20
      <3>2. QED
        BY <3>1
    <2>2. ASSUME NEW k \in 1 .. n, k - 1 \in U PROVE k \in U
      <3>1. v[k] = After(v[k - 1], rows[k]) /\ k \in 0 .. n
        BY <1>1, <1>12
      <3>2. QED
        BY <1>2, <2>2, <3>1 DEF After, T
    <2>3. 0 .. n \subseteq U
      <3> HIDE DEF U
      <3>1. QED
        BY <1>1, <2>1, <2>2, BoundedInduction
    <2>4. QED
      BY <2>3
  <1>14. v \in [0 .. n -> T]
    BY <1>11, <1>13
  <1>15. QED
    BY <1>20, <1>12, <1>14 DEF n, T, v

\* What comes after does not change what was held before.
LEMMA ViewOfPrefix ==
    ASSUME NEW s \in Seq(AllRows), NEW t \in Seq(AllRows)
    PROVE  \A k \in 0 .. Len(s) : View(s \o t)[k] = View(s)[k]
  <1> DEFINE u == s \o t
             n == Len(s)
             U == {k \in 0 .. n : View(u)[k] = View(s)[k]}
  <1>1. /\ u \in Seq(AllRows) /\ n \in Nat
        /\ \A k \in 1 .. n : u[k] = s[k] /\ k \in 1 .. Len(u)
    OBVIOUS
  <1>2. /\ View(u)[0] = {} /\ View(s)[0] = {}
        /\ \A k \in 1 .. n : View(s)[k] = After(View(s)[k - 1], s[k])
        /\ \A k \in 1 .. n : View(u)[k] = After(View(u)[k - 1], s[k])
    BY <1>1, ViewSteps
  <1> HIDE DEF u
  <1>3. 0 \in U
    <2>1. View(u)[0] = View(s)[0] /\ 0 \in 0 .. n
      BY <1>1, <1>2, Z3
    <2>2. QED
      BY <2>1
  <1>4. ASSUME NEW k \in 1 .. n, k - 1 \in U PROVE k \in U
    BY <1>1, <1>2, <1>4
  <1>5. 0 .. n \subseteq U
    <2> HIDE DEF U
    <2>1. QED
      BY <1>1, <1>3, <1>4, BoundedInduction
  <1>6. QED
    BY <1>5 DEF u

\* FlattenSeq concatenates one sequence after the other.
LEMMA FlattenSteps ==
    ASSUME NEW S, NEW seqs \in Seq(Seq(S))
    PROVE  \E f \in [0 .. Len(seqs) -> Seq(S)] :
              /\ f[0] = <<>>
              /\ \A k \in 1 .. Len(seqs) : f[k] = f[k - 1] \o seqs[k]
              /\ Seqs!FlattenSeq(seqs) = f[Len(seqs)]
  <1> DEFINE n == Len(seqs)
             T == Seq(S)
             step == [k \in Nat |-> [h \in T |-> IF k \in 1 .. n THEN h \o seqs[k]
                                               ELSE <<>>]]
  <1>1. n \in Nat /\ <<>> \in T /\ \A k \in 1 .. n : seqs[k] \in T
    OBVIOUS
  <1>2. step \in [Nat -> [T -> T]]
    BY <1>1
  <1>3. \A k \in 1 .. n, h \in T : step[k][h] = h \o seqs[k]
    <2> TAKE k \in 1 .. n, h \in T
    <2> k \in Nat
      BY <1>1
    <2>1. step[k] = [x \in T |-> x \o seqs[k]]
      OBVIOUS
    <2> HIDE DEF step, T
    <2>2. QED
      BY <2>1
  <1> HIDE DEF step
  <1>4. PICK f \in [0 .. n -> T] :
                /\ f[0] = <<>>
                /\ \A k \in 1 .. n : f[k] = step[k][f[k - 1]]
    <2> HIDE DEF n, T
    <2>1. PICK f : Recurs(f, T, <<>>, step, n)
      BY <1>1, <1>2, Recursion, Zenon
    <2>2. QED
      BY <2>1 DEF Recurs
  <1>5. \A k \in 1 .. n : k - 1 \in 0 .. n /\ k \in 0 .. n
                          /\ (k # 1 => k - 1 \in 1 .. n)
    BY <1>1
  <1>6. \A k \in 1 .. n : f[k] = f[k - 1] \o seqs[k]
    BY <1>1, <1>3, <1>4, <1>5
  <1>7. CASE n = 0
    <2>1. seqs = <<>>
      BY <1>7
    <2>2. Seqs!FlattenSeq(seqs) = seqs
      BY <1>7, Zenon DEF Seqs!FlattenSeq
    <2>3. Seqs!FlattenSeq(seqs) = f[n]
      BY <1>4, <1>7, <2>1, <2>2
    <2>4. QED
      BY <1>4, <1>6, <2>3
  <1>8. CASE n # 0
    <2> DEFINE g == [k \in 1 .. n |-> f[k]]
    <2>1. f[1] = seqs[1]
      <3>1. 1 \in 1 .. n /\ 1 - 1 = 0
        BY <1>1, <1>8
      <3>2. f[1] = <<>> \o seqs[1]
        BY <1>4, <1>6, <3>1
      <3>3. QED
        BY <1>1, <3>1, <3>2
    <2>2. g = [k \in 1 .. n |-> IF k = 1 THEN seqs[k] ELSE g[k - 1] \o seqs[k]]
      BY <1>5, <1>6, <2>1
    <2> HIDE DEF g
    <2>3. \E h : h = [k \in 1 .. n |-> IF k = 1 THEN seqs[k]
                                       ELSE h[k - 1] \o seqs[k]]
      BY <2>2, Zenon
    <2>4. PICK h : /\ h = [k \in 1 .. n |-> IF k = 1 THEN seqs[k]
                                            ELSE h[k - 1] \o seqs[k]]
                   /\ Seqs!FlattenSeq(seqs) = h[n]
      BY <1>8, <2>3, Zenon DEF Seqs!FlattenSeq
    <2> DEFINE U == {k \in 0 .. n : k # 0 => h[k] = f[k]}
    <2>5. 0 \in U
      BY <1>1
    <2>6. ASSUME NEW k \in 1 .. n, k - 1 \in U PROVE k \in U
      <3>1. CASE k = 1
        BY <1>5, <2>1, <2>4, <3>1
      <3>2. CASE k # 1
        <4>1. h[k] = h[k - 1] \o seqs[k]
          BY <2>4, <3>2, Zenon
        <4>2. k - 1 # 0 /\ h[k - 1] = f[k - 1]
          BY <1>1, <2>6, <3>2
        <4>3. QED
          BY <1>5, <1>6, <4>1, <4>2
      <3>3. QED
        BY <3>1, <3>2
    <2>7. 0 .. n \subseteq U
      <3> HIDE DEF U
      <3>1. QED
        BY <1>1, <2>5, <2>6, BoundedInduction
    <2>8. h[n] = f[n]
      BY <1>1, <1>8, <2>7
    <2>9. QED
      BY <1>4, <1>6, <2>4, <2>8
  <1>9. QED
    BY <1>7, <1>8

LEMMA FlattenAppend ==
    ASSUME NEW S, NEW seqs \in Seq(Seq(S)), NEW x \in Seq(S)
    PROVE  /\ Seqs!FlattenSeq(seqs) \in Seq(S)
           /\ Seqs!FlattenSeq(Append(seqs, x)) = Seqs!FlattenSeq(seqs) \o x
  <1> DEFINE more == Append(seqs, x)
             n == Len(seqs)
  <1>1. /\ more \in Seq(Seq(S)) /\ Len(more) = n + 1 /\ n \in Nat
        /\ more[n + 1] = x /\ \A k \in 1 .. n : more[k] = seqs[k]
    OBVIOUS
  <1> HIDE DEF more
  <1>2. PICK f \in [0 .. n -> Seq(S)] :
              /\ f[0] = <<>>
              /\ \A k \in 1 .. n : f[k] = f[k - 1] \o seqs[k]
              /\ Seqs!FlattenSeq(seqs) = f[n]
    BY FlattenSteps
  <1>3. PICK g \in [0 .. n + 1 -> Seq(S)] :
              /\ g[0] = <<>>
              /\ \A k \in 1 .. n + 1 : g[k] = g[k - 1] \o more[k]
              /\ Seqs!FlattenSeq(more) = g[n + 1]
    <2>1. PICK g \in [0 .. Len(more) -> Seq(S)] :
              /\ g[0] = <<>>
              /\ \A k \in 1 .. Len(more) : g[k] = g[k - 1] \o more[k]
              /\ Seqs!FlattenSeq(more) = g[Len(more)]
      BY <1>1, FlattenSteps
    <2>2. QED
      BY <1>1, <2>1
  <1> HIDE DEF n
  <1> DEFINE U == {k \in 0 .. n : g[k] = f[k]}
  <1>4. 0 \in U
    <2>1. 0 \in 0 .. n
      BY <1>1
    <2>2. QED
      BY <1>2, <1>3, <2>1, Zenon
  <1>5. ASSUME NEW k \in 1 .. n, k - 1 \in U PROVE k \in U
    <2>1. k \in 1 .. n + 1 /\ k \in 0 .. n
      BY <1>1
    <2>2. g[k] = g[k - 1] \o more[k] /\ f[k] = f[k - 1] \o seqs[k]
          /\ more[k] = seqs[k] /\ g[k - 1] = f[k - 1]
      BY <1>1, <1>2, <1>3, <1>5, <2>1, Zenon
    <2>3. QED
      BY <2>1, <2>2, Zenon
  <1>6. 0 .. n \subseteq U
    <2> HIDE DEF U
    <2>1. QED
      BY <1>1, <1>4, <1>5, BoundedInduction
  <1>7. n \in 0 .. n /\ n + 1 \in 1 .. n + 1 /\ (n + 1) - 1 = n
    BY <1>1
  <1>8. g[n] = f[n]
    BY <1>6, <1>7, Zenon
  <1>9. g[n + 1] = g[(n + 1) - 1] \o more[n + 1]
    BY <1>3, <1>7, Zenon
  <1>10. g[n + 1] = f[n] \o x
    BY <1>1, <1>7, <1>8, <1>9
  <1>11. f[n] \in Seq(S)
    BY <1>2, <1>7, Zenon
  <1>12. QED
    BY <1>2, <1>3, <1>10, <1>11, Zenon DEF more

\* Concatenation associates, in a form that keeps the sequences whole.
Associates(a, b, c) == (a \o b) \o c = a \o (b \o c)

LEMMA ConcatAssociates ==
    ASSUME NEW S, NEW a \in Seq(S), NEW b \in Seq(S), NEW c \in Seq(S)
    PROVE  Associates(a, b, c)
  BY ConcatAssociative DEF Associates

LEMMA FlattenCons ==
    ASSUME NEW S, NEW seqs \in Seq(Seq(S)), seqs # <<>>
    PROVE  Seqs!FlattenSeq(seqs) = seqs[1] \o Seqs!FlattenSeq(Tail(seqs))
  <1> DEFINE rest == Tail(seqs)
             n == Len(rest)
             x == seqs[1]
  <1>1. /\ rest \in Seq(Seq(S)) /\ Len(seqs) = n + 1 /\ n \in Nat
        /\ x \in Seq(S) /\ \A k \in 1 .. n : rest[k] = seqs[k + 1]
    OBVIOUS
  <1>10. \A k \in 1 .. n : rest[k] \in Seq(S)
    BY <1>1
  <1> HIDE DEF rest
  <1>2. PICK f \in [0 .. n -> Seq(S)] :
              /\ f[0] = <<>>
              /\ \A k \in 1 .. n : f[k] = f[k - 1] \o rest[k]
              /\ Seqs!FlattenSeq(rest) = f[n]
    BY <1>1, FlattenSteps
  <1>3. PICK g \in [0 .. n + 1 -> Seq(S)] :
              /\ g[0] = <<>>
              /\ \A k \in 1 .. n + 1 : g[k] = g[k - 1] \o seqs[k]
              /\ Seqs!FlattenSeq(seqs) = g[n + 1]
    <2>1. PICK g \in [0 .. Len(seqs) -> Seq(S)] :
              /\ g[0] = <<>>
              /\ \A k \in 1 .. Len(seqs) : g[k] = g[k - 1] \o seqs[k]
              /\ Seqs!FlattenSeq(seqs) = g[Len(seqs)]
      BY FlattenSteps
    <2>2. QED
      BY <1>1, <2>1
  <1> HIDE DEF n, x
  <1> DEFINE U == {k \in 0 .. n : g[k + 1] = x \o f[k]}
  <1>4. 0 \in U
    <2>1. 0 \in 0 .. n /\ 1 \in 1 .. n + 1 /\ 1 - 1 = 0 /\ 0 + 1 = 1
      BY <1>1
    <2>2. g[1] = <<>> \o x
      BY <1>3, <2>1 DEF x
    <2>3. x \o <<>> = x /\ <<>> \o x = x
      BY <1>1
    <2>4. QED
      BY <1>2, <2>1, <2>2, <2>3
  <1>5. ASSUME NEW k \in 1 .. n, k - 1 \in U PROVE k \in U
    <2>1. /\ k + 1 \in 1 .. n + 1 /\ k \in 0 .. n /\ k - 1 \in 0 .. n
          /\ (k + 1) - 1 = k /\ (k - 1) + 1 = k
      BY <1>1
    <2>2. g[k + 1] = g[(k + 1) - 1] \o seqs[k + 1]
      BY <1>3, <2>1, Zenon
    <2>3. g[(k - 1) + 1] = x \o f[k - 1]
      BY <1>5, Zenon
    <2>4. f[k] = f[k - 1] \o rest[k] /\ rest[k] = seqs[k + 1]
      BY <1>1, <1>2, Zenon
    <2>5. f[k - 1] \in Seq(S) /\ rest[k] \in Seq(S)
      BY <1>10, <1>2, <2>1, Zenon
    <2>6. g[k + 1] = (x \o f[k - 1]) \o rest[k]
      BY <2>1, <2>2, <2>3, <2>4
    <2>7. (x \o f[k - 1]) \o rest[k] = x \o (f[k - 1] \o rest[k])
      <3> DEFINE a == f[k - 1]
                 b == rest[k]
      <3>1. x \in Seq(S) /\ a \in Seq(S) /\ b \in Seq(S)
        BY <1>1, <2>5
      <3> HIDE DEF a, b
      <3>2. Associates(x, a, b)
        BY <3>1, ConcatAssociates
      <3>3. QED
        BY <3>2, Zenon DEF a, b, Associates
    <2>8. QED
      BY <2>1, <2>4, <2>6, <2>7, Zenon
  <1>6. 0 .. n \subseteq U
    <2> HIDE DEF U
    <2>1. QED
      BY <1>1, <1>4, <1>5, BoundedInduction
  <1>7. n \in 0 .. n
    BY <1>1
  <1>8. g[n + 1] = x \o f[n]
    BY <1>6, <1>7, Zenon
  <1>9. QED
    BY <1>2, <1>3, <1>8, Zenon DEF x, rest

(* The rows that are left. *)

BlocksTyped == blocks \in Seq(Seq(AllRows)) /\ i \in Nat /\ j \in Nat

\* The rows left in the block at i, and those of the blocks behind it.
LEMMA UnreadParts ==
    ASSUME BlocksTyped, i < Len(blocks)
    PROVE  LET b == blocks[i + 1]
               first == SubSeq(b, j + 1, Len(b))
               behind == SubSeq(blocks, i + 2, Len(blocks))
           IN  /\ b \in Seq(AllRows) /\ first \in Seq(AllRows)
               /\ behind \in Seq(Seq(AllRows))
               /\ Seqs!FlattenSeq(behind) \in Seq(AllRows)
               /\ Unread = first \o Seqs!FlattenSeq(behind)
  <1> DEFINE b == blocks[i + 1]
             first == SubSeq(b, j + 1, Len(b))
             behind == SubSeq(blocks, i + 2, Len(blocks))
  <1>1. b \in Seq(AllRows)
    BY DEF BlocksTyped
  <1> HIDE DEF b
  <1>2. first \in Seq(AllRows)
    BY <1>1 DEF BlocksTyped
  <1>3. behind \in Seq(Seq(AllRows))
    BY DEF BlocksTyped
  <1> HIDE DEF behind
  <1>4. Seqs!FlattenSeq(behind) \in Seq(AllRows)
    BY <1>3, FlattenAppend, <1>2, Zenon
  <1>5. ~(i >= Len(blocks))
    BY DEF BlocksTyped
  <1>6. Unread = first \o Seqs!FlattenSeq(behind)
    BY <1>5, Zenon DEF Unread, b, behind
  <1>7. QED
    BY <1>1, <1>2, <1>3, <1>4, <1>6, Zenon DEF b, behind

LEMMA UnreadTyped ==
    ASSUME BlocksTyped
    PROVE  Unread \in Seq(AllRows)
  <1>1. CASE i < Len(blocks)
    <2> DEFINE x == SubSeq(blocks[i + 1], j + 1, Len(blocks[i + 1]))
               y == Seqs!FlattenSeq(SubSeq(blocks, i + 2, Len(blocks)))
    <2>1. x \in Seq(AllRows) /\ y \in Seq(AllRows) /\ Unread = x \o y
      BY <1>1, UnreadParts
    <2> HIDE DEF x, y
    <2>2. QED
      BY <2>1
  <1>2. CASE ~(i < Len(blocks))
    BY <1>2 DEF Unread, BlocksTyped
  <1>3. QED
    BY <1>1, <1>2

LEMMA UnreadAfterRow ==
    ASSUME BlocksTyped, i < Len(blocks), j < Len(blocks[i + 1]),
           blocks' = blocks, i' = i, j' = j + 1
    PROVE  LET row == blocks[i + 1][j + 1]
           IN  /\ row \in AllRows
               /\ Unread = <<row>> \o Unread' /\ Unread' \in Seq(AllRows)
               /\ Unread # <<>> /\ Head(Unread) = row /\ Tail(Unread) = Unread'
  <1> DEFINE b == blocks[i + 1]
             row == b[j + 1]
             x == SubSeq(b, j + 1, Len(b))
             x1 == SubSeq(b, j + 2, Len(b))
             y == Seqs!FlattenSeq(SubSeq(blocks, i + 2, Len(blocks)))
  <1>1. /\ b \in Seq(AllRows) /\ x \in Seq(AllRows) /\ y \in Seq(AllRows)
        /\ Unread = x \o y
    BY UnreadParts
  <1>2. ~(i' >= Len(blocks')) /\ (j + 1) + 1 = j + 2
    BY DEF BlocksTyped
  <1>3. Unread' = x1 \o y
    BY <1>2 DEF Unread
  <1>4. j \in Nat /\ j < Len(b)
    BY DEF BlocksTyped
  <1> HIDE DEF b, y
  <1>5. row \in AllRows /\ x1 \in Seq(AllRows) /\ x = <<row>> \o x1
    <2>1. row \in AllRows /\ x1 \in Seq(AllRows)
      BY <1>1, <1>4
    <2>2. /\ Len(x) = Len(b) - j /\ Len(x1) = Len(b) - j - 1
          /\ \A k \in 1 .. Len(b) - j : x[k] = b[j + k]
          /\ \A k \in 1 .. Len(b) - j - 1 : x1[k] = b[j + 1 + k]
      BY <1>1, <1>4
    <2> HIDE DEF x, x1
    <2>3. <<row>> \o x1 \in Seq(AllRows) /\ Len(<<row>> \o x1) = Len(b) - j
      <3>1. <<row>> \in Seq(AllRows) /\ Len(<<row>>) = 1
        BY <2>1
      <3>2. x1 \in Seq(AllRows) /\ 1 + Len(x1) = Len(b) - j
        BY <1>1, <1>4, <2>1, <2>2
      <3> HIDE DEF row
      <3>3. QED
        BY <3>1, <3>2, ConcatProperties
    <2>4. \A k \in 1 .. Len(b) - j : (<<row>> \o x1)[k] = x[k]
      <3> TAKE k \in 1 .. Len(b) - j
      <3>1. CASE k = 1
        BY <1>1, <1>4, <2>1, <2>2, <3>1
      <3>2. CASE k # 1
        <4>1. k - 1 \in 1 .. Len(b) - j - 1 /\ j + 1 + (k - 1) = j + k
          BY <1>1, <1>4, <3>2
        <4>2. (<<row>> \o x1)[k] = x1[k - 1]
          BY <2>1, <2>2, <4>1
        <4>3. QED
          BY <2>2, <4>1, <4>2
      <3>3. QED
        BY <3>1, <3>2
    <2>5. QED
      BY <1>1, <2>1, <2>2, <2>3, <2>4
  <1> HIDE DEF row, x, x1
  <1>6. Unread = <<row>> \o (x1 \o y)
    BY <1>1, <1>5
  <1>7. x1 \o y \in Seq(AllRows)
    BY <1>1, <1>5
  <1>8. \A z \in Seq(AllRows) : /\ <<row>> \o z # <<>>
                                /\ Head(<<row>> \o z) = row
                                /\ Tail(<<row>> \o z) = z
    BY <1>5
  <1>9. /\ row \in AllRows
        /\ Unread = <<row>> \o Unread' /\ Unread' \in Seq(AllRows)
        /\ Unread # <<>> /\ Head(Unread) = row /\ Tail(Unread) = Unread'
    BY <1>3, <1>5, <1>6, <1>7, <1>8, Zenon
  <1>10. QED
    BY <1>9, Zenon DEF row, b

LEMMA UnreadAfterBlock ==
    ASSUME BlocksTyped, i < Len(blocks), j >= Len(blocks[i + 1]),
           blocks' = blocks, i' = i + 1, j' = 0
    PROVE  Unread' = Unread
  <1> DEFINE b == blocks[i + 1]
             n == Len(blocks)
             behind == SubSeq(blocks, i + 2, n)
             y == Seqs!FlattenSeq(behind)
  <1>1. /\ b \in Seq(AllRows) /\ behind \in Seq(Seq(AllRows))
        /\ y \in Seq(AllRows) /\ Unread = SubSeq(b, j + 1, Len(b)) \o y
    BY UnreadParts
  <1> DEFINE first == SubSeq(b, j + 1, Len(b))
  <1>2. first = <<>>
    <2>1. j + 1 \in Int /\ Len(b) \in Int /\ Len(b) < j + 1
      BY <1>1 DEF BlocksTyped
    <2>2. QED
      BY <2>1, SubSeqEmpty
  <1>20. y \in Seq(AllRows) /\ Unread = first \o y
    BY <1>1
  <1> HIDE DEF b, y, first
  <1>3. Unread = y
    BY <1>2, <1>20
  <1>4. CASE i + 1 >= n
    <2>1. Unread' = <<>>
      BY <1>4 DEF Unread
    <2>2. behind = <<>>
      BY <1>4, SubSeqEmpty DEF BlocksTyped
    <2> HIDE DEF behind
    <2>3. Len(behind) = 0
      BY <2>2
    <2>4. y = <<>>
      BY <2>2, <2>3, Zenon DEF y, Seqs!FlattenSeq
    <2>5. QED
      BY <1>3, <2>1, <2>4
  <1>5. CASE ~(i + 1 >= n)
    <2> DEFINE b1 == blocks[i + 2]
               rest == SubSeq(blocks, i + 3, n)
    <2>1. i \in Nat /\ n \in Nat /\ i + 1 < n
      BY <1>5 DEF BlocksTyped
    <2>2. b1 \in Seq(AllRows) /\ SubSeq(b1, 1, Len(b1)) = b1
      BY <2>1 DEF BlocksTyped
    <2>3. behind # <<>> /\ behind[1] = b1
      <3>1. /\ blocks \in Seq(Seq(AllRows)) /\ i + 2 \in Int /\ i + 2 <= n
            /\ \A k \in i + 2 .. n : blocks[k] \in Seq(AllRows)
        BY <2>1 DEF BlocksTyped
      <3>2. /\ Len(behind) = n - i - 1
            /\ \A k \in 1 .. n - i - 1 : behind[k] = blocks[i + 1 + k]
        BY <2>1, <3>1
      <3> HIDE DEF behind
      <3>3. 1 \in 1 .. n - i - 1 /\ i + 1 + 1 = i + 2
        BY <2>1
      <3>4. QED
        BY <1>1, <3>2, <3>3
    <2>4. Tail(behind) = rest
      <3>1. i + 2 \in 1 .. n /\ n \in i + 2 .. n /\ (i + 2) + 1 = i + 3
        BY <2>1
      <3>2. QED
        BY <3>1, HeadTailOfSubSeq DEF BlocksTyped
    <2>5. (i + 1) + 1 = i + 2 /\ (i + 1) + 2 = i + 3 /\ 0 + 1 = 1
      BY <2>1
    <2>6. Unread' = SubSeq(b1, 1, Len(b1)) \o Seqs!FlattenSeq(rest)
      BY <1>5, <2>5 DEF Unread
    <2> HIDE DEF behind, b1, rest
    <2>7. y = behind[1] \o Seqs!FlattenSeq(Tail(behind))
      BY <1>1, <2>3, FlattenCons DEF y
    <2>8. QED
      BY <1>3, <2>2, <2>3, <2>4, <2>6, <2>7
  <1>6. QED
    BY <1>4, <1>5

LEMMA UnreadAfterAppend ==
    ASSUME BlocksTyped, PositionOK, NEW x \in Seq(AllRows),
           blocks' = Append(blocks, x), i' = i, j' = j
    PROVE  Unread' = Unread \o x
  <1> DEFINE n == Len(blocks)
  <1>1. /\ blocks' \in Seq(Seq(AllRows)) /\ Len(blocks') = n + 1 /\ n \in Nat
        /\ blocks'[n + 1] = x /\ \A k \in 1 .. n : blocks'[k] = blocks[k]
        /\ i \in Nat /\ j \in Nat
    BY DEF BlocksTyped
  <1>2. ~(i' >= Len(blocks'))
    BY <1>1 DEF PositionOK
  <1>3. Unread' = SubSeq(blocks'[i + 1], j + 1, Len(blocks'[i + 1]))
                     \o Seqs!FlattenSeq(SubSeq(blocks', i + 2, n + 1))
    BY <1>1, <1>2 DEF Unread
  <1>4. CASE i = n
    <2>1. Unread = <<>> /\ j = 0
      BY <1>4 DEF Unread, PositionOK
    <2> DEFINE behind == SubSeq(blocks', i + 2, n + 1)
    <2>2. behind = <<>>
      BY <1>1, <1>4, SubSeqEmpty
    <2> HIDE DEF behind
    <2>3. Len(behind) = 0
      BY <2>2
    <2>4. Seqs!FlattenSeq(behind) = <<>>
      BY <2>2, <2>3, Zenon DEF Seqs!FlattenSeq
    <2>5. SubSeq(x, 1, Len(x)) = x
      OBVIOUS
    <2>6. Unread' = x \o <<>>
      <3>1. blocks'[i + 1] = x /\ j + 1 = 1
        BY <1>1, <1>4, <2>1
      <3>2. SubSeq(blocks'[i + 1], j + 1, Len(blocks'[i + 1])) = x
        BY <2>5, <3>1
      <3>3. QED
        BY <1>3, <2>4, <3>2, Zenon DEF behind
    <2>7. QED
      BY <2>1, <2>6
  <1>5. CASE i < n
    <2> DEFINE b == blocks[i + 1]
               first == SubSeq(b, j + 1, Len(b))
               behind == SubSeq(blocks, i + 2, n)
               y == Seqs!FlattenSeq(behind)
    <2>1. /\ first \in Seq(AllRows) /\ behind \in Seq(Seq(AllRows))
          /\ y \in Seq(AllRows) /\ Unread = first \o y
      BY <1>5, UnreadParts
    <2>2. blocks'[i + 1] = b
      BY <1>1, <1>5
    <2>3. SubSeq(blocks', i + 2, n + 1) = Append(behind, x)
      <3> DEFINE u == SubSeq(blocks', i + 2, n + 1)
      <3>1. /\ u \in Seq(Seq(AllRows)) /\ Len(u) = n - i
            /\ \A k \in 1 .. n - i : u[k] = blocks'[i + 1 + k]
        BY <1>1, <1>5
      <3>2. /\ Len(behind) = n - i - 1
            /\ \A k \in 1 .. n - i - 1 : behind[k] = blocks[i + 1 + k]
        BY <1>1, <1>5 DEF BlocksTyped
      <3> HIDE DEF u, behind
      <3>3. Append(behind, x) \in Seq(Seq(AllRows)) /\ Len(Append(behind, x)) = n - i
        BY <1>1, <1>5, <2>1, <3>2
      <3>4. \A k \in 1 .. n - i : u[k] = Append(behind, x)[k]
        <4> TAKE k \in 1 .. n - i
        <4>1. CASE k = n - i
          <5>1. i + 1 + k = n + 1 /\ k = Len(behind) + 1
            BY <1>1, <1>5, <3>2, <4>1
          <5>2. Append(behind, x)[Len(behind) + 1] = x
            BY <2>1
          <5>3. u[k] = blocks'[i + 1 + k]
            BY <3>1
          <5>4. QED
            BY <1>1, <5>1, <5>2, <5>3
        <4>2. CASE k # n - i
          <5>1. k \in 1 .. n - i - 1 /\ i + 1 + k \in 1 .. n
            BY <1>1, <1>5, <4>2
          <5>2. Append(behind, x)[k] = behind[k]
            BY <2>1, <3>2, <5>1
          <5>3. QED
            BY <1>1, <3>1, <3>2, <5>1, <5>2
        <4>3. QED
          BY <4>1, <4>2
      <3> DEFINE v == Append(behind, x)
      <3>5. /\ u \in Seq(Seq(AllRows)) /\ v \in Seq(Seq(AllRows))
            /\ Len(u) = Len(v) /\ \A k \in 1 .. Len(u) : u[k] = v[k]
        BY <3>1, <3>3, <3>4
      <3> HIDE DEF v
      <3>6. u = v
        BY <3>5, SeqEqual
      <3>7. QED
        BY <3>6 DEF u, v
    <2> HIDE DEF b, behind
    <2>4. Seqs!FlattenSeq(Append(behind, x)) = y \o x
      BY <2>1, FlattenAppend
    <2> HIDE DEF first, y
    <2>5. Unread' = first \o (y \o x)
      BY <1>3, <2>2, <2>3, <2>4 DEF first
    <2>6. QED
      BY <2>1, <2>5
  <1>6. QED
    BY <1>1, <1>4, <1>5 DEF PositionOK

(***************************************************************************)
(* What is delivered.                                                      *)
(***************************************************************************)

\* Every row changes what its reader holds.
Consistent(rows) ==
    \A k \in DOMAIN rows : rows[k].deleted <=> rows[k].ptr \in View(rows)[k - 1]

\* The block the poller still has to append.
Pending ==
    IF poller.pc \in {"append", "store"} THEN poller.block ELSE <<>>

\* All rows of the stream so far, those read first.
Sent == (got \o Unread) \o Pending

\* Rows sent add up to what is held of every chunk.
SentIsHeld ==
    /\ Consistent(Sent)
    /\ View(Sent)[Len(Sent)] = UNION {chunk[c].ptr : c \in Chunk}

\* The poller goes on with the chunk it has taken up until it is done with it.
PollerHolds == poller.pc # "idle" => chunk[poller.c].state = "polling"

\* Chunk c has its last batch.
HasFinal(c) ==
    \/ chunk[c].state \in {"complete", "completed"}
    \/ poller.pc \in {"append", "store"} /\ poller.c = c
          /\ poller.then = "complete"

FinalOK == \A c \in Chunk : HasFinal(c) => chunk[c].ptr = final[c]

\* Who was told of an error reads no more.
ToldOK == \A r \in Reader : told[r] # "nil" => reader[r].pc = "done"

AllCompleted == \A c \in Chunk : chunk[c].state = "completed"

\* EOF follows the last row of the last chunk.
EOFOK ==
    /\ err = "EOF" => AllCompleted
    /\ (\E r \in Reader : told[r] = "EOF") => AllCompleted /\ Unread = <<>>

DeliveryInv ==
    /\ LockInv /\ ToldOK /\ PollerHolds
    /\ ~closed => SentIsHeld /\ FinalOK /\ EOFOK

(* What rows of one more block change. *)

LEMMA ConsistentPrefix ==
    ASSUME NEW s \in Seq(AllRows), NEW t \in Seq(AllRows), Consistent(s \o t)
    PROVE  Consistent(s)
  <1> DEFINE u == s \o t
  <1>1. \A k \in 1 .. Len(s) : k \in DOMAIN u /\ u[k] = s[k]
    OBVIOUS
  <1>2. \A k \in 1 .. Len(s) : View(u)[k - 1] = View(s)[k - 1]
    <2> TAKE k \in 1 .. Len(s)
    <2>1. k - 1 \in 0 .. Len(s)
      OBVIOUS
    <2>2. QED
      BY <2>1, ViewOfPrefix
  <1>3. Consistent(u) /\ DOMAIN s = 1 .. Len(s)
    OBVIOUS
  <1> HIDE DEF u
  <1>4. QED
    BY <1>1, <1>2, <1>3 DEF Consistent

LEMMA ViewAfterBlock ==
    ASSUME NEW s \in Seq(AllRows), NEW block \in Seq(AllRows),
           NEW n, NEW fresh, NEW gone, AddsThenDeletes(block, n, fresh, gone),
           fresh \cap View(s)[Len(s)] = {}, gone \subseteq View(s)[Len(s)],
           Consistent(s)
    PROVE  /\ Consistent(s \o block)
           /\ View(s \o block)[Len(s \o block)] =
                 (View(s)[Len(s)] \cup fresh) \ gone
  <1> DEFINE u == s \o block
             m == Len(s)
             z == Len(block)
             held == View(s)[m]
             v == [k \in 0 .. z |-> View(u)[m + k]]
             Added(k, p) == \E l \in 1 .. k : l <= n /\ block[l].ptr = p
             Taken(k, p) == \E l \in 1 .. k : l > n /\ block[l].ptr = p
             Right(k) == \A p : p \in v[k] <=>
                                   (p \in held \/ Added(k, p)) /\ ~Taken(k, p)
             U == {k \in 0 .. z : Right(k)}
  <1>1. /\ u \in Seq(AllRows) /\ Len(u) = m + z /\ m \in Nat /\ z \in Nat
        /\ \A k \in 1 .. m : u[k] = s[k]
        /\ \A k \in 1 .. z : u[m + k] = block[k]
    OBVIOUS
  <1>2. \A k \in 0 .. m : View(u)[k] = View(s)[k]
    BY ViewOfPrefix
  <1> HIDE DEF u, m, z, held
  <1>3. v[0] = held
    <2>1. 0 \in 0 .. z /\ m \in 0 .. m /\ m + 0 = m
      BY <1>1
    <2>2. QED
      BY <1>2, <2>1, Zenon DEF held
  <1>4. \A k \in 1 .. z : v[k] = After(v[k - 1], block[k])
    <2> TAKE k \in 1 .. z
    <2>1. /\ m + k \in 1 .. m + z /\ k \in 0 .. z /\ k - 1 \in 0 .. z
          /\ (m + k) - 1 = m + (k - 1)
      BY <1>1
    <2>2. View(u)[m + k] = After(View(u)[(m + k) - 1], u[m + k])
      BY <1>1, <2>1, ViewSteps
    <2>3. QED
      BY <1>1, <2>1, <2>2
  <1> HIDE DEF v
  <1>5. n \in 0 .. z
    BY DEF AddsThenDeletes, z
  <1>6. 0 \in U
    <2>1. Right(0) /\ 0 \in 0 .. z
      BY <1>1, <1>3
    <2>2. QED
      BY <2>1
  <1>7. ASSUME NEW k \in 1 .. z, k - 1 \in U PROVE k \in U
    <2>1. Right(k - 1) /\ k \in 0 .. z
      BY <1>1, <1>7
    <2>2. \A l \in 1 .. k : l = k \/ l \in 1 .. k - 1
      BY <1>1
    <2>20. \A l \in 1 .. k - 1 : l \in 1 .. k
      BY <1>1
    <2>3. CASE k <= n
      <3>1. ~block[k].deleted
        BY <1>1, <1>5, <2>3 DEF AddsThenDeletes, z
      <3>2. v[k] = v[k - 1] \cup {block[k].ptr}
        BY <1>4, <3>1 DEF After
      <3>3. \A p : ~Taken(k, p) /\ ~Taken(k - 1, p)
        BY <1>1, <1>5, <2>3
      <3>4. \A p : Added(k, p) <=> Added(k - 1, p) \/ block[k].ptr = p
        BY <2>2, <2>20, <2>3
      <3>5. Right(k)
        BY <2>1, <3>2, <3>3, <3>4
      <3>6. QED
        BY <2>1, <3>5
    <2>4. CASE ~(k <= n)
      <3>1. block[k].deleted
        <4>1. k \in n + 1 .. z
          BY <1>1, <1>5, <2>4
        <4>2. QED
          BY <4>1 DEF AddsThenDeletes, z
      <3>2. v[k] = v[k - 1] \ {block[k].ptr}
        BY <1>4, <3>1 DEF After
      <3>3. \A p : Added(k, p) <=> Added(k - 1, p)
        BY <2>2, <2>20, <2>4
      <3>4. k > n
        BY <1>1, <1>5, <2>4
      <3>5. \A p : Taken(k, p) <=> Taken(k - 1, p) \/ block[k].ptr = p
        BY <2>2, <2>20, <3>4
      <3>6. Right(k)
        BY <2>1, <3>2, <3>3, <3>5
      <3>7. QED
        BY <2>1, <3>6
    <2>5. QED
      BY <2>3, <2>4
  <1>8. 0 .. z \subseteq U
    <2> HIDE DEF U
    <2>1. QED
      BY <1>1, <1>6, <1>7, BoundedInduction
  <1>9. \A k \in 0 .. z : Right(k)
    BY <1>8
  <1>10. \A k \in 1 .. z : block[k].deleted <=> block[k].ptr \in v[k - 1]
    <2> TAKE k \in 1 .. z
    <2>1. Right(k - 1)
      <3>1. k - 1 \in 0 .. z
        BY <1>1
      <3>2. QED
        BY <1>9, <3>1
    <2>2. CASE k <= n
      <3>1. /\ k \in 1 .. n /\ ~block[k].deleted /\ block[k].ptr \in fresh
            /\ \A l \in 1 .. n : block[l].ptr = block[k].ptr => l = k
        BY <1>1, <1>5, <2>2 DEF AddsThenDeletes
      <3>2. block[k].ptr \notin held
        BY <3>1 DEF held, m
      <3>3. ~Added(k - 1, block[k].ptr)
        BY <1>1, <1>5, <3>1
      <3>4. QED
        BY <2>1, <3>1, <3>2, <3>3
    <2>3. CASE ~(k <= n)
      <3>1. k \in n + 1 .. z
        BY <1>1, <1>5, <2>3
      <3>2. /\ block[k].deleted /\ block[k].ptr \in gone
            /\ \A l \in n + 1 .. z : block[l].ptr = block[k].ptr => l = k
        BY <3>1 DEF AddsThenDeletes, z
      <3>3. block[k].ptr \in held
        BY <3>2 DEF held, m
      <3>4. ~Taken(k - 1, block[k].ptr)
        <4>1. \A l \in 1 .. k - 1 : l > n => l \in n + 1 .. z /\ l # k
          BY <1>1, <1>5
        <4>2. QED
          BY <3>2, <4>1
      <3>5. QED
        BY <2>1, <3>2, <3>3, <3>4
    <2>4. QED
      BY <2>2, <2>3
  <1>11. Consistent(u)
    <2> SUFFICES ASSUME NEW k \in 1 .. m + z
                 PROVE  u[k].deleted <=> u[k].ptr \in View(u)[k - 1]
      BY <1>1 DEF Consistent
    <2>1. CASE k <= m
      <3>1. k \in 1 .. m /\ k - 1 \in 0 .. m
        BY <1>1, <2>1
      <3>2. s[k].deleted <=> s[k].ptr \in View(s)[k - 1]
        BY <3>1 DEF Consistent, m
      <3>3. QED
        BY <1>1, <1>2, <3>1, <3>2
    <2>2. CASE ~(k <= m)
      <3> DEFINE l == k - m
      <3>1. l \in 1 .. z /\ m + l = k /\ l - 1 \in 0 .. z /\ m + (l - 1) = k - 1
        BY <1>1, <2>2
      <3> HIDE DEF l
      <3>2. u[k] = block[l] /\ View(u)[k - 1] = v[l - 1]
        BY <1>1, <3>1 DEF v
      <3>3. QED
        BY <1>10, <3>1, <3>2
    <2>3. QED
      BY <2>1, <2>2
  <1>12. View(u)[Len(u)] = (held \cup fresh) \ gone
    <2>1. View(u)[Len(u)] = v[z] /\ z \in 0 .. z
      BY <1>1 DEF v
    <2>2. Right(z)
      BY <1>9, <2>1
    <2>3. \A p : Added(z, p) <=> p \in fresh
      <3>1. \A l \in 1 .. z : l <= n => l \in 1 .. n
        BY <1>1, <1>5
      <3>2. \A l \in 1 .. n : l \in 1 .. z /\ l <= n
        BY <1>1, <1>5
      <3>3. QED
        BY <3>1, <3>2 DEF AddsThenDeletes
    <2>4. \A p : Taken(z, p) <=> p \in gone
      <3>1. \A l \in 1 .. z : l > n => l \in n + 1 .. z
        BY <1>1, <1>5
      <3>2. \A l \in n + 1 .. z : l \in 1 .. z /\ l > n
        BY <1>1, <1>5
      <3>3. QED
        BY <3>1, <3>2 DEF AddsThenDeletes, z
    <2>5. \A p : p \in v[z] <=> (p \in held \/ p \in fresh) /\ p \notin gone
      BY <2>2, <2>3, <2>4
    <2> HIDE DEF Added, Taken
    <2>6. QED
      BY <2>1, <2>5
  <1>13. QED
    BY <1>11, <1>12 DEF u, held, m

(* What a step of a reader does. *)

LEMMA ReadEffect ==
    ASSUME LockInv, ToldOK, NEW r \in Reader, ReadStep(r)
    PROVE  /\ UNCHANGED <<poller, chunk, err, final, closed>>
           /\ told[r] = "nil"
           /\ \A q \in Reader \ {r} : reader'[q] = reader[q]
           /\ \/ told' = told
              \/ /\ err # "nil" /\ told' = [told EXCEPT ![r] = err]
                 /\ reader'[r].pc = "done"
                 /\ ~closed => Unread = <<>> /\ Unread' = <<>> /\ got' = got
           /\ ~closed =>
                 \/ got' = got /\ Unread' = Unread
                 \/ /\ told' = told
                    /\ \E row \in AllRows :
                          /\ got' = Append(got, row)
                          /\ Unread # <<>> /\ Head(Unread) = row
                          /\ Tail(Unread) = Unread'
                          /\ Unread = <<row>> \o Unread'
                          /\ Unread' \in Seq(AllRows)
  <1>1. UNCHANGED <<poller, chunk, err, final, closed>>
    BY DEF ReadStep, ReadLock, ReadCheck, ReadLoad, ReadRow, ReadFull,
           ReadNextBlock, ReadEnd, ReadWait, history
  <1>2. /\ reader \in [Reader -> ReaderState] /\ told \in [Reader -> StreamErr]
        /\ BlocksTyped /\ got \in Seq(AllRows)
    BY DEF LockInv, StreamTypeOK, BlocksTyped
  <1>3. told[r] = "nil"
    <2>1. reader[r].pc # "done"
      BY DEF ReadStep, ReadLock, ReadCheck, ReadLoad, ReadRow, ReadFull,
             ReadNextBlock, ReadEnd, ReadWait
    <2>2. QED
      BY <2>1 DEF ToldOK
  <1>4. \A q \in Reader \ {r} : reader'[q] = reader[q]
    BY <1>2 DEF ReadStep, ReadLock, ReadCheck, ReadLoad, ReadRow, ReadFull,
                ReadNextBlock, ReadEnd, ReadWait
  <1>5. ~closed => PositionOK /\ ReaderOK(r)
    BY DEF LockInv, BlocksKept
  <1>6. UNCHANGED fields => Unread' = Unread
    BY DEF fields, Unread
  <1>7. CASE ReadRow(r)
    <2>1. told' = told
      BY <1>7 DEF ReadRow
    <2>2. SUFFICES ASSUME ~closed
                   PROVE  \E row \in AllRows :
                             /\ got' = Append(got, row)
                             /\ Unread # <<>> /\ Head(Unread) = row
                             /\ Tail(Unread) = Unread'
                             /\ Unread = <<row>> \o Unread'
                             /\ Unread' \in Seq(AllRows)
      BY <1>1, <1>3, <1>4, <2>1
    <2>3. /\ i < Len(blocks) /\ reader[r].block = blocks[i + 1]
          /\ j < Len(blocks[i + 1]) /\ blocks' = blocks /\ i' = i /\ j' = j + 1
          /\ got' = Append(got, blocks[i + 1][j + 1])
      BY <1>5, <1>7, <2>2 DEF ReadRow, ReaderOK
    <2> DEFINE row == blocks[i + 1][j + 1]
    <2>4. /\ row \in AllRows
          /\ Unread = <<row>> \o Unread' /\ Unread' \in Seq(AllRows)
          /\ Unread # <<>> /\ Head(Unread) = row /\ Tail(Unread) = Unread'
      BY <1>2, <2>3, UnreadAfterRow
    <2>5. got' = Append(got, row)
      BY <2>3
    <2> HIDE DEF row
    <2>6. QED
      BY <2>4, <2>5
  <1>8. CASE ReadNextBlock(r)
    <2>1. got' = got /\ told' = told
      BY <1>8 DEF ReadNextBlock, history
    <2>2. ~closed => Unread' = Unread
      BY <1>2, <1>5, <1>8, UnreadAfterBlock DEF ReadNextBlock, ReaderOK
    <2>3. QED
      BY <1>1, <1>3, <1>4, <2>1, <2>2
  <1>9. CASE ReadEnd(r)
    <2>1. /\ got' = got /\ Unread' = Unread /\ told' = [told EXCEPT ![r] = err]
          /\ reader' = [reader EXCEPT ![r] =
                           Reading(IF err = "nil" THEN "call" ELSE "done")]
      BY <1>6, <1>9 DEF ReadEnd
    <2>2. CASE err = "nil"
      <3>1. told' = told
        BY <1>2, <1>3, <2>1, <2>2
      <3>2. QED
        BY <1>1, <1>3, <1>4, <2>1, <3>1
    <2>3. CASE err # "nil"
      <3>1. reader'[r].pc = "done"
        BY <1>2, <2>1, <2>3 DEF Reading
      <3>2. Unread = <<>>
        BY <1>9 DEF ReadEnd, Unread
      <3>3. QED
        BY <1>1, <1>3, <1>4, <2>1, <2>3, <3>1, <3>2
    <2>4. QED
      BY <2>2, <2>3
  <1>10. CASE ReadLock(r) \/ ReadCheck(r) \/ ReadLoad(r) \/ ReadFull(r)
              \/ ReadWait(r)
    <2>1. UNCHANGED fields /\ got' = got /\ told' = told
      BY <1>10 DEF ReadLock, ReadCheck, ReadLoad, ReadFull, ReadWait, history
    <2>2. QED
      BY <1>1, <1>3, <1>4, <1>6, <2>1
  <1>11. QED
    BY <1>7, <1>8, <1>9, <1>10 DEF ReadStep

\* Steps other than a reader's leave those alone that were told.
LEMMA OthersKeepTold ==
    ASSUME LockInv, ToldOK,
           PollerStep \/ (\E c \in Chunk : Handle(c)) \/ Shutdown \/ CloseStream
              \/ Reset
    PROVE  told' = told /\ ToldOK'
  <1>1. told' = told
    BY DEF PollerStep, Poll, GiveUp, AnswerFailed, AnswerRunning, AnswerComplete,
           AppendLoad, AppendStore, Handle, HandleCompletion, HandleFailure,
           Shutdown, CloseStream, Reset, ResetBlocks, ResetI, ResetJ, history
  <1>2. Signal \/ reader' = reader
    BY DEF PollerStep, Poll, GiveUp, AnswerFailed, AnswerRunning, AnswerComplete,
           AppendLoad, AppendStore, Handle, HandleCompletion, HandleFailure,
           Shutdown, CloseStream, Reset, ResetBlocks, ResetI, ResetJ, SetErr
  <1>3. \A r \in Reader : reader[r].pc = "done" => reader'[r].pc = "done"
    BY <1>2, SignalEffect DEF LockInv
  <1>4. QED
    BY <1>1, <1>3 DEF ToldOK

(* What was sent adds up. *)

LEMMA SentTyped ==
    ASSUME LockInv
    PROVE  /\ got \in Seq(AllRows) /\ Unread \in Seq(AllRows)
           /\ Pending \in Seq(AllRows) /\ Sent \in Seq(AllRows)
  <1>1. got \in Seq(AllRows) /\ poller \in PollerState /\ BlocksTyped
    BY DEF LockInv, StreamTypeOK, BlocksTyped
  <1>2. Unread \in Seq(AllRows)
    BY <1>1, UnreadTyped
  <1>3. Pending \in Seq(AllRows)
    BY <1>1, PollerStates DEF Pending, Sendable
  <1>4. (got \o Unread) \o Pending \in Seq(AllRows)
    BY <1>1, <1>2, <1>3
  <1>5. QED
    BY <1>1, <1>2, <1>3, <1>4 DEF Sent

\* Of the chunks' ptr only one changes.
LEMMA HeldAfterBatch ==
    ASSUME LockInv, NEW c \in Chunk, NEW batch \in SUBSET Ptr[c],
           chunk'[c].ptr = batch, \A d \in Chunk \ {c} : chunk'[d] = chunk[d]
    PROVE  LET held == UNION {chunk[d].ptr : d \in Chunk}
               fresh == batch \ chunk[c].ptr
               gone == chunk[c].ptr \ batch
           IN  /\ fresh \cap held = {} /\ gone \subseteq held
               /\ (held \cup fresh) \ gone = UNION {chunk'[d].ptr : d \in Chunk}
  <1> DEFINE held == UNION {chunk[d].ptr : d \in Chunk}
             held1 == UNION {chunk'[d].ptr : d \in Chunk}
             mine == chunk[c].ptr
  <1>1. \A d \in Chunk : chunk[d].ptr \subseteq Ptr[d]
    BY DEF LockInv, StreamTypeOK
  <1>2. \A d \in Chunk \ {c} : Ptr[d] \cap Ptr[c] = {}
    BY StreamAssumption
  <1>3. \A p : p \in held <=> p \in mine \/ \E d \in Chunk \ {c} : p \in chunk[d].ptr
    OBVIOUS
  <1>4. \A p : p \in held1 <=> p \in batch \/ \E d \in Chunk \ {c} : p \in chunk[d].ptr
    <2>1. \A p : p \in held1 <=> \E d \in Chunk : p \in chunk'[d].ptr
      OBVIOUS
    <2>2. QED
      BY <2>1
  <1>5. \A p : (\E d \in Chunk \ {c} : p \in chunk[d].ptr)
                  => p \notin Ptr[c]
    BY <1>1, <1>2
  <1>6. mine \subseteq Ptr[c] /\ batch \subseteq Ptr[c]
    BY <1>1
  <1> HIDE DEF held, held1, mine
  <1>7. /\ (batch \ mine) \cap held = {} /\ mine \ batch \subseteq held
        /\ (held \cup (batch \ mine)) \ (mine \ batch) = held1
    BY <1>3, <1>4, <1>5, <1>6
  <1>8. QED
    BY <1>7 DEF held, held1, mine

LEMMA AnswerKeepsSent ==
    ASSUME LockInv, SentIsHeld, NEW c \in Chunk, NEW batch \in SUBSET Ptr[c],
           NEW then \in Then, NEW polls \in Nat, poller.pc = "call",
           Send(c, batch, then, polls), UNCHANGED <<fields, got>>
    PROVE  SentIsHeld'
  <1> DEFINE ptr == chunk[c].ptr
             block == PreviewBlock(ptr, batch)
             held == UNION {chunk[d].ptr : d \in Chunk}
             held1 == UNION {chunk'[d].ptr : d \in Chunk}
  <1>1. StreamTypeOK /\ ptr \in SUBSET Ptr[c]
    BY DEF LockInv, StreamTypeOK
  <1>2. /\ chunk'[c].ptr = batch
        /\ \A d \in Chunk \ {c} : chunk'[d] = chunk[d]
        /\ block = <<>> => poller' = PollerIdle
        /\ block # <<>> => poller' = [pc |-> "append", c |-> c,
                                     block |-> block, then |-> then]
    <2>1. StreamTypeOK /\ ptr \subseteq Ptr[c]
      BY <1>1
    <2>2. AfterSend(c, batch, then)
      BY <2>1, SendEffect
    <2>3. QED
      BY <2>2, Zenon DEF AfterSend
  <1>3. /\ block \in Seq(AllRows)
        /\ \E n : AddsThenDeletes(block, n, batch \ ptr, ptr \ batch)
    BY <1>1, BlockOfBatch
  <1>4. /\ (batch \ ptr) \cap held = {} /\ ptr \ batch \subseteq held
        /\ (held \cup (batch \ ptr)) \ (ptr \ batch) = held1
    BY <1>2, HeldAfterBatch
  <1> HIDE DEF ptr, block, held, held1
  <1>5. Pending = <<>> /\ Pending' = block
    BY <1>2 DEF Pending, PollerIdle
  <1>6. Unread' = Unread /\ got' = got
    BY DEF Unread, fields
  <1>7. Sent \in Seq(AllRows) /\ Sent' = Sent \o block
    <2>1. got \o Unread \in Seq(AllRows) /\ Sent \in Seq(AllRows)
      BY SentTyped
    <2>2. (got \o Unread) \o <<>> = got \o Unread
      BY <2>1
    <2>3. Sent = got \o Unread
      BY <1>5, <2>2 DEF Sent
    <2>4. QED
      BY <1>5, <1>6, <2>1, <2>3 DEF Sent
  <1>8. Consistent(Sent) /\ View(Sent)[Len(Sent)] = held
    BY DEF SentIsHeld, held
  <1>9. Consistent(Sent') /\ View(Sent')[Len(Sent')] = held1
    <2> DEFINE s == Sent
    <2>1. s \in Seq(AllRows) /\ Consistent(s) /\ View(s)[Len(s)] = held
      BY <1>7, <1>8
    <2> HIDE DEF s
    <2>2. Consistent(s \o block) /\ View(s \o block)[Len(s \o block)] = held1
      <3> DEFINE fresh == batch \ ptr
                 gone == ptr \ batch
      <3>1. PICK n : AddsThenDeletes(block, n, fresh, gone)
        BY <1>3
      <3>2. fresh \cap View(s)[Len(s)] = {} /\ gone \subseteq View(s)[Len(s)]
        BY <1>4, <2>1
      <3>3. (View(s)[Len(s)] \cup fresh) \ gone = held1
        BY <1>4, <2>1
      <3> HIDE DEF fresh, gone
      <3>4. /\ Consistent(s \o block)
            /\ View(s \o block)[Len(s \o block)] =
                  (View(s)[Len(s)] \cup fresh) \ gone
        BY <1>3, <2>1, <3>1, <3>2, ViewAfterBlock
      <3>5. QED
        BY <3>3, <3>4
    <2>3. Sent' = s \o block
      BY <1>7 DEF s
    <2>4. QED
      BY <2>2, <2>3
  <1>10. QED
    BY <1>9 DEF SentIsHeld, Consistent, held1

\* Who neither reads nor appends leaves the rows as they are.
LEMMA SentKept ==
    ASSUME SentIsHeld, UNCHANGED <<fields, got>>, Pending' = Pending,
           \A c \in Chunk : chunk'[c].ptr = chunk[c].ptr
    PROVE  SentIsHeld' /\ Unread' = Unread
  <1>1. Unread' = Unread
    BY DEF Unread, fields
  <1>2. Sent' = Sent
    BY <1>1 DEF Sent
  <1>3. UNION {chunk'[c].ptr : c \in Chunk} = UNION {chunk[c].ptr : c \in Chunk}
    BY Zenon
  <1>4. QED
    BY <1>1, <1>2, <1>3 DEF SentIsHeld, Consistent

\* The poller.
LEMMA PollerKeepsSent ==
    ASSUME DeliveryInv, ~closed, PollerStep
    PROVE  SentIsHeld'
  <1>1. /\ chunk \in [Chunk -> ChunkState] /\ LockInv /\ SentIsHeld
        /\ poller \in PollerState
    BY DEF DeliveryInv, LockInv, StreamTypeOK
  <1>2. ASSUME NEW c \in Chunk, Poll(c) PROVE SentIsHeld'
    BY <1>1, <1>2, SentKept DEF Poll, Pending, history
  <1>3. ASSUME NEW c \in Chunk, GiveUp(c) PROVE SentIsHeld'
    BY <1>1, <1>3, SentKept DEF GiveUp, Pending, history, ChunkState
  <1>4. ASSUME NEW c \in Chunk, AnswerFailed(c) PROVE SentIsHeld'
    BY <1>1, <1>4, SentKept
       DEF AnswerFailed, Pending, PollerIdle, history, ChunkState
  <1>5. ASSUME NEW c \in Chunk, NEW batch \in SUBSET Ptr[c],
               AnswerRunning(c, batch)
        PROVE  SentIsHeld'
    <2>1. chunk[c].polls + 1 \in Nat /\ "polling" \in Then
      BY <1>1 DEF ChunkState, Then
    <2>2. QED
      BY <1>1, <1>5, <2>1, AnswerKeepsSent DEF AnswerRunning, history
  <1>6. ASSUME NEW c \in Chunk, NEW batch \in SUBSET Ptr[c],
               AnswerComplete(c, batch)
        PROVE  SentIsHeld'
    <2>1. chunk[c].polls \in Nat /\ "complete" \in Then
      BY <1>1 DEF ChunkState, Then
    <2>2. QED
      BY <1>1, <1>6, <2>1, AnswerKeepsSent DEF AnswerComplete
  <1>7. CASE AppendLoad
    BY <1>1, <1>7, SentKept DEF AppendLoad, Pending, history
  <1>8. CASE AppendStore
    <2> DEFINE x == poller.block
    <2>1. /\ x \in Seq(AllRows) /\ poller.blocks = blocks /\ BlocksTyped
          /\ PositionOK
      BY <1>1, <1>8, PollerStates
         DEF AppendStore, LockInv, BlocksKept, Sendable, StreamTypeOK, BlocksTyped
    <2>2. /\ blocks' = Append(blocks, x) /\ i' = i /\ j' = j /\ got' = got
          /\ Pending = x /\ Pending' = <<>>
      BY <1>8, <2>1 DEF AppendStore, Pending, PollerIdle, history
    <2> HIDE DEF x
    <2>3. Unread' = Unread \o x
      BY <2>1, <2>2, UnreadAfterAppend
    <2>4. got \in Seq(AllRows) /\ Unread \in Seq(AllRows)
      BY <1>1, SentTyped
    <2> DEFINE a == got
               b == Unread
    <2>5. Sent = (a \o b) \o x /\ Sent' = (a \o (b \o x)) \o <<>>
      BY <2>2, <2>3 DEF Sent
    <2>6. a \in Seq(AllRows) /\ b \in Seq(AllRows) /\ b \o x \in Seq(AllRows)
      BY <2>1, <2>4
    <2> HIDE DEF a, b
    <2>7. (a \o (b \o x)) \o <<>> = (a \o b) \o x
      BY <2>1, <2>6
    <2>8. Sent' = Sent
      BY <2>5, <2>7
    <2>9. poller.c \in Chunk
      BY <1>1, <1>8, PollerStates DEF AppendStore
    <2>10. \A c \in Chunk : chunk'[c].ptr = chunk[c].ptr
      BY <1>1, <1>8, <2>9 DEF AppendStore, ChunkState
    <2>11. UNION {chunk'[c].ptr : c \in Chunk} = UNION {chunk[c].ptr : c \in Chunk}
      BY <2>10, Zenon
    <2>12. QED
      BY <1>1, <2>8, <2>11 DEF SentIsHeld, Consistent
  <1>9. QED
    BY <1>2, <1>3, <1>4, <1>5, <1>6, <1>7, <1>8 DEF PollerStep

\* Readers.
LEMMA ReadKeepsSent ==
    ASSUME DeliveryInv, ~closed, NEW r \in Reader, ReadStep(r)
    PROVE  SentIsHeld' /\ EOFOK'
  <1>1. /\ UNCHANGED <<poller, chunk, err>> /\ told \in [Reader -> StreamErr]
        /\ got \in Seq(AllRows) /\ Unread \in Seq(AllRows)
        /\ SentIsHeld /\ EOFOK
    BY ReadEffect, SentTyped DEF DeliveryInv, LockInv, StreamTypeOK
  <1>2. Pending' = Pending /\ AllCompleted' = AllCompleted
    BY <1>1 DEF Pending, AllCompleted
  <1>3. CASE got' = got /\ Unread' = Unread
    <2>1. Sent' = Sent
      BY <1>2, <1>3 DEF Sent
    <2>2. SentIsHeld'
      BY <1>1, <2>1 DEF SentIsHeld, Consistent
    <2>3. CASE told' = told
      BY <1>1, <1>2, <1>3, <2>2, <2>3 DEF EOFOK, AllCompleted
    <2>4. CASE told' # told
      <3>1. told' = [told EXCEPT ![r] = err] /\ Unread' = <<>>
        BY <2>4, ReadEffect DEF DeliveryInv
      <3>2. (\E q \in Reader : told'[q] = "EOF") =>
               err = "EOF" \/ \E q \in Reader : told[q] = "EOF"
        BY <1>1, <3>1
      <3>3. QED
        BY <1>1, <2>2, <3>1, <3>2 DEF EOFOK, AllCompleted
    <2>5. QED
      BY <2>3, <2>4
  <1>4. CASE ~(got' = got /\ Unread' = Unread)
    <2>1. PICK row \in AllRows :
              /\ told' = told /\ got' = Append(got, row) /\ Unread # <<>>
              /\ Unread = <<row>> \o Unread' /\ Unread' \in Seq(AllRows)
      BY <1>4, ReadEffect DEF DeliveryInv
    <2> DEFINE a == got
               b == Unread'
    <2>2. Append(a, row) \o b = a \o (<<row>> \o b)
      <3>1. a \in Seq(AllRows) /\ b \in Seq(AllRows)
        BY <1>1, <2>1
      <3>2. <<row>> \in Seq(AllRows)
        OBVIOUS
      <3> HIDE DEF a, b
      <3>3. Append(a, row) = a \o <<row>>
        BY <3>1
      <3>4. (a \o <<row>>) \o b = a \o (<<row>> \o b)
        BY <3>1, <3>2
      <3>5. QED
        BY <3>3, <3>4
    <2>3. got' \o Unread' = got \o Unread
      BY <2>1, <2>2
    <2>4. Sent' = Sent
      BY <1>2, <2>3 DEF Sent
    <2>5. SentIsHeld'
      BY <1>1, <2>4 DEF SentIsHeld, Consistent
    <2>6. EOFOK'
      BY <1>1, <2>1 DEF EOFOK, AllCompleted
    <2>7. QED
      BY <2>5, <2>6
  <1>5. QED
    BY <1>3, <1>4

\* What an answer leaves behind: the chunk holds the batch, and no chunk has
\* its final batch that had it not, but the one that is over.
AfterAnswer(c, batch, then) ==
    /\ PollerHolds' /\ chunk'[c].ptr = batch
    /\ \A d \in Chunk \ {c} :
          chunk'[d] = chunk[d] /\ (HasFinal(d)' => HasFinal(d))
    /\ then = "polling" => ~HasFinal(c)'

LEMMA AnswerEffect ==
    ASSUME StreamTypeOK, PollerHolds, NEW c \in Chunk,
           NEW batch \in SUBSET Ptr[c], NEW then \in Then, NEW polls \in Nat,
           poller.pc = "call", poller.c = c, Send(c, batch, then, polls)
    PROVE  AfterAnswer(c, batch, then)
  <1> DEFINE block == PreviewBlock(chunk[c].ptr, batch)
  <1>1. chunk[c].ptr \subseteq Ptr[c] /\ chunk[c].state = "polling"
    BY DEF StreamTypeOK, PollerHolds
  <1>2. /\ chunk'[c].ptr = batch
        /\ \A d \in Chunk \ {c} : chunk'[d] = chunk[d]
        /\ block = <<>> => poller' = PollerIdle /\ chunk'[c].state = then
        /\ block # <<>> =>
              /\ poller' = [pc |-> "append", c |-> c, block |-> block,
                            then |-> then]
              /\ chunk'[c].state = chunk[c].state
    <2>1. AfterSend(c, batch, then)
      BY <1>1, SendEffect
    <2>2. QED
      BY <2>1, Zenon DEF AfterSend
  <1> HIDE DEF block
  <1>3. CASE block = <<>>
    BY <1>2, <1>3 DEF PollerHolds, HasFinal, PollerIdle, AfterAnswer
  <1>4. CASE block # <<>>
    BY <1>1, <1>2, <1>4 DEF PollerHolds, HasFinal, AfterAnswer
  <1>5. QED
    BY <1>3, <1>4

LEMMA PollerKeepsFinal ==
    ASSUME DeliveryInv, PollerStep
    PROVE  /\ PollerHolds'
           /\ ~closed => FinalOK' /\ EOFOK'
  <1>1. /\ chunk \in [Chunk -> ChunkState] /\ LockInv /\ StreamTypeOK
        /\ poller \in PollerState /\ PollerHolds /\ ToldOK
        /\ \A d \in Chunk : chunk[d].ptr \subseteq Ptr[d]
        /\ final \in [Chunk -> SUBSET AllPtrs]
    BY DEF DeliveryInv, LockInv, StreamTypeOK
  <1>2. ~AllCompleted
    <2>1. \E c \in Chunk : chunk[c].state = "polling"
      BY <1>1, PollerStates
         DEF PollerStep, Poll, GiveUp, AnswerFailed, AnswerRunning,
             AnswerComplete, AppendLoad, AppendStore, PollerHolds
    <2>2. QED
      BY <2>1 DEF AllCompleted
  <1>3. err' = err /\ told' = told
    BY DEF PollerStep, Poll, GiveUp, AnswerFailed, AnswerRunning, AnswerComplete,
           AppendLoad, AppendStore, history
  <1>4. ~closed => EOFOK'
    BY <1>2, <1>3 DEF DeliveryInv, EOFOK
  <1>5. ~closed => FinalOK
    BY DEF DeliveryInv
  <1>6. ASSUME NEW c \in Chunk, Poll(c)
        PROVE  PollerHolds' /\ (~closed => FinalOK')
    BY <1>1, <1>5, <1>6 DEF Poll, PollerHolds, FinalOK, HasFinal, history
  <1>7. ASSUME NEW c \in Chunk, NEW s \in {"over", "failed"},
               chunk' = [chunk EXCEPT ![c].state = s], final' = final,
               poller' = PollerIdle, poller.pc \in {"idle", "call"}
        PROVE  PollerHolds' /\ (~closed => FinalOK')
    <2>1. /\ chunk'[c].state = s
          /\ \A d \in Chunk : chunk'[d].ptr = chunk[d].ptr
          /\ \A d \in Chunk \ {c} : chunk'[d] = chunk[d]
      BY <1>1, <1>7 DEF ChunkState
    <2>2. PollerHolds' /\ \A d \in Chunk : HasFinal(d)' => HasFinal(d)
      BY <1>7, <2>1 DEF PollerHolds, HasFinal, PollerIdle
    <2>3. QED
      BY <1>5, <1>7, <2>1, <2>2 DEF FinalOK
  <1>8. ASSUME NEW c \in Chunk, GiveUp(c) \/ AnswerFailed(c)
        PROVE  PollerHolds' /\ (~closed => FinalOK')
    <2>1. CASE GiveUp(c)
      <3>1. poller = PollerIdle
        BY <1>1, <2>1 DEF GiveUp, PollerState, PollerIdle
      <3>2. QED
        BY <1>7, <2>1, <3>1 DEF GiveUp, history
    <2>2. CASE AnswerFailed(c)
      BY <1>7, <2>2 DEF AnswerFailed, history
    <2>3. QED
      BY <1>8, <2>1, <2>2
  <1>9. ASSUME NEW c \in Chunk, NEW batch \in SUBSET Ptr[c], NEW then \in Then,
               NEW polls \in Nat, Send(c, batch, then, polls),
               poller.pc = "call", poller.c = c
        PROVE  /\ PollerHolds' /\ chunk'[c].ptr = batch
               /\ \A d \in Chunk \ {c} :
                     chunk'[d] = chunk[d] /\ (HasFinal(d)' => HasFinal(d))
               /\ then = "polling" => ~HasFinal(c)'
    <2>1. AfterAnswer(c, batch, then)
      BY <1>1, <1>9, AnswerEffect
    <2>2. QED
      BY <2>1, Zenon DEF AfterAnswer
  <1>10. ASSUME NEW c \in Chunk, NEW batch \in SUBSET Ptr[c],
                AnswerRunning(c, batch)
         PROVE  PollerHolds' /\ (~closed => FinalOK')
    <2>1. chunk[c].polls + 1 \in Nat /\ "polling" \in Then
      BY <1>1 DEF ChunkState, Then
    <2>2. /\ Send(c, batch, "polling", chunk[c].polls + 1) /\ final' = final
          /\ poller.pc = "call" /\ poller.c = c
      BY <1>10 DEF AnswerRunning, history
    <2>3. /\ PollerHolds' /\ ~HasFinal(c)'
          /\ \A d \in Chunk \ {c} :
                chunk'[d] = chunk[d] /\ (HasFinal(d)' => HasFinal(d))
      BY <1>9, <2>1, <2>2
    <2>4. QED
      BY <1>5, <2>2, <2>3 DEF FinalOK
  <1>11. ASSUME NEW c \in Chunk, NEW batch \in SUBSET Ptr[c],
                AnswerComplete(c, batch)
         PROVE  PollerHolds' /\ (~closed => FinalOK')
    <2>1. chunk[c].polls \in Nat /\ "complete" \in Then
      BY <1>1 DEF ChunkState, Then
    <2>2. /\ Send(c, batch, "complete", chunk[c].polls)
          /\ final' = IF closed THEN final ELSE [final EXCEPT ![c] = batch]
          /\ poller.pc = "call" /\ poller.c = c
      BY <1>11 DEF AnswerComplete
    <2>3. /\ PollerHolds' /\ chunk'[c].ptr = batch
          /\ \A d \in Chunk \ {c} :
                chunk'[d] = chunk[d] /\ (HasFinal(d)' => HasFinal(d))
      BY <1>9, <2>1, <2>2
    <2>4. ~closed => /\ final'[c] = batch
                     /\ \A d \in Chunk \ {c} : final'[d] = final[d]
      BY <1>1, <2>2
    <2>5. QED
      BY <1>5, <2>3, <2>4 DEF FinalOK
  <1>12. CASE AppendLoad
    BY <1>1, <1>4, <1>5, <1>12
       DEF AppendLoad, PollerHolds, FinalOK, HasFinal, history
  <1>13. CASE AppendStore
    <2>1. poller.pc = "store" /\ poller.c \in Chunk /\ poller.then \in Then
      BY <1>1, <1>13, PollerStates DEF AppendStore
    <2>2. /\ chunk'[poller.c].state = poller.then
          /\ \A d \in Chunk : chunk'[d].ptr = chunk[d].ptr
          /\ \A d \in Chunk \ {poller.c} : chunk'[d] = chunk[d]
          /\ poller' = PollerIdle /\ final' = final
      BY <1>1, <1>13, <2>1 DEF AppendStore, ChunkState, history
    <2>3. PollerHolds' /\ \A d \in Chunk : HasFinal(d)' => HasFinal(d)
      BY <2>1, <2>2 DEF PollerHolds, HasFinal, PollerIdle, Then
    <2>4. QED
      BY <1>4, <1>5, <2>2, <2>3 DEF FinalOK
  <1>14. QED
    BY <1>4, <1>6, <1>8, <1>10, <1>11, <1>12, <1>13 DEF PollerStep

LEMMA LoopKeepsDelivery ==
    ASSUME DeliveryInv, NEW c \in Chunk, Handle(c)
    PROVE  /\ PollerHolds'
           /\ ~closed => SentIsHeld' /\ FinalOK' /\ EOFOK'
  <1>1. /\ chunk \in [Chunk -> ChunkState] /\ LockInv /\ PollerHolds
        /\ poller \in PollerState
        /\ ~closed => SentIsHeld /\ FinalOK /\ EOFOK
    BY DEF DeliveryInv, LockInv, StreamTypeOK
  <1>2. /\ chunk[c].state \in {"complete", "failed"}
        /\ UNCHANGED <<fields, poller, got, told, final>>
    BY DEF Handle, HandleCompletion, HandleFailure, history
  <1>3. PICK s \in {"over", "completed"} :
              /\ chunk' = [chunk EXCEPT ![c].state = s]
              /\ s = "completed" => chunk[c].state = "complete"
    BY DEF Handle, HandleCompletion, HandleFailure
  <1>4. /\ chunk'[c].state = s /\ \A d \in Chunk : chunk'[d].ptr = chunk[d].ptr
        /\ \A d \in Chunk \ {c} : chunk'[d] = chunk[d]
    BY <1>1, <1>3 DEF ChunkState
  <1>5. PollerHolds'
    BY <1>1, <1>2, <1>4, PollerStates DEF PollerHolds
  <1>6. \A d \in Chunk : HasFinal(d)' => HasFinal(d)
    BY <1>2, <1>3, <1>4 DEF HasFinal
  <1>7. ~closed => FinalOK'
    BY <1>1, <1>2, <1>4, <1>6 DEF FinalOK
  <1>8. ~closed => SentIsHeld'
    BY <1>1, <1>2, <1>4, SentKept DEF Pending
  <1>9. ~closed => EOFOK'
    <2> SUFFICES ASSUME ~closed PROVE EOFOK'
      OBVIOUS
    <2>1. ~AllCompleted
      BY <1>2 DEF AllCompleted
    <2>2. ~\E r \in Reader : told'[r] = "EOF"
      BY <1>1, <1>2, <2>1 DEF EOFOK
    <2>3. err' = "EOF" => AllCompleted'
      <3> SUFFICES ASSUME err' = "EOF" PROVE AllCompleted'
        OBVIOUS
      <3>1. CASE HandleCompletion(c)
        <4>1. err' = ErrAfter(c) /\ chunk' = [chunk EXCEPT ![c].state = "completed"]
          BY <3>1 DEF HandleCompletion, SetErr
        <4>2. \A d \in Chunk \ {c} : chunk[d].state = "completed"
          BY <4>1 DEF ErrAfter
        <4>3. chunk'[c].state = "completed"
          BY <1>1, <4>1 DEF ChunkState
        <4>4. QED
          BY <1>4, <4>2, <4>3 DEF AllCompleted
      <3>2. CASE HandleFailure(c)
        BY <3>2 DEF HandleFailure, SetErr
      <3>3. QED
        BY <3>1, <3>2 DEF Handle
    <2>4. QED
      BY <2>2, <2>3 DEF EOFOK
  <1>10. QED
    BY <1>5, <1>7, <1>8, <1>9

LEMMA CloseKeepsDelivery ==
    ASSUME DeliveryInv, Shutdown \/ CloseStream \/ Reset
    PROVE  /\ PollerHolds'
           /\ ~closed' => SentIsHeld' /\ FinalOK' /\ EOFOK'
  <1>1. UNCHANGED <<poller, chunk>>
    BY DEF Shutdown, CloseStream, Reset, ResetBlocks, ResetI, ResetJ
  <1>2. PollerHolds'
    BY <1>1 DEF DeliveryInv, PollerHolds
  <1>3. SUFFICES ASSUME ~closed' PROVE SentIsHeld' /\ FinalOK' /\ EOFOK'
    BY <1>2
  <1>4. Shutdown /\ ~closed
    BY <1>3 DEF CloseStream, Reset, ResetBlocks, ResetI, ResetJ, DeliveryInv,
                LockInv, BlocksKept, Shutdown
  <1>5. UNCHANGED <<fields, got, told, final>> /\ err' = "ErrClosed"
    BY <1>4 DEF Shutdown, SetErr, history
  <1>6. SentIsHeld' /\ Unread' = Unread
    BY <1>1, <1>4, <1>5, SentKept DEF DeliveryInv, Pending
  <1>7. FinalOK'
    BY <1>1, <1>4, <1>5 DEF DeliveryInv, FinalOK, HasFinal
  <1>8. EOFOK'
    BY <1>1, <1>4, <1>5, <1>6 DEF DeliveryInv, EOFOK, AllCompleted
  <1>9. QED
    BY <1>6, <1>7, <1>8

LEMMA InitDelivery == Init => DeliveryInv
  <1> SUFFICES ASSUME Init PROVE DeliveryInv
    OBVIOUS
  <1>1. LockInv
    BY InitLock
  <1>2. ToldOK /\ PollerHolds
    BY DEF Init, ToldOK, PollerHolds, PollerIdle
  <1>3. Sent = <<>>
    BY DEF Init, Sent, Unread, Pending, PollerIdle
  <1>4. View(<<>>)[Len(<<>>)] = {}
    <2>1. <<>> \in Seq(AllRows) /\ Len(<<>>) = 0
      OBVIOUS
    <2>2. QED
      BY <2>1, ViewSteps
  <1>5. UNION {chunk[c].ptr : c \in Chunk} = {}
    BY DEF Init
  <1>6. DOMAIN <<>> = {}
    OBVIOUS
  <1>7. SentIsHeld
    BY <1>3, <1>4, <1>5, <1>6, Zenon DEF SentIsHeld, Consistent
  <1>8. FinalOK
    BY DEF Init, FinalOK, HasFinal, PollerIdle
  <1>9. EOFOK
    BY DEF Init, EOFOK
  <1>10. QED
    BY <1>1, <1>2, <1>7, <1>8, <1>9 DEF DeliveryInv

LEMMA NextKeepsDelivery == DeliveryInv /\ [Next]_svars => DeliveryInv'
  <1> SUFFICES ASSUME DeliveryInv, [Next]_svars PROVE DeliveryInv'
    OBVIOUS
  <1>1. LockInv'
    BY NextKeepsLock DEF DeliveryInv
  <1>2. LockInv /\ ToldOK /\ PollerHolds
    BY DEF DeliveryInv
  <1>3. ASSUME NEW r \in Reader, ReadStep(r) PROVE DeliveryInv'
    <2>1. /\ UNCHANGED <<poller, chunk, err, final, closed>>
          /\ \A q \in Reader \ {r} : reader'[q] = reader[q]
          /\ told' = told \/ (told' = [told EXCEPT ![r] = err]
                              /\ reader'[r].pc = "done")
          /\ told[r] = "nil" /\ told \in [Reader -> StreamErr]
      BY <1>2, <1>3, ReadEffect DEF LockInv, StreamTypeOK
    <2>2. ToldOK'
      BY <1>2, <2>1 DEF ToldOK
    <2>3. PollerHolds' /\ (~closed => FinalOK')
      BY <2>1 DEF DeliveryInv, PollerHolds, FinalOK, HasFinal
    <2>4. QED
      BY <1>1, <1>3, <2>1, <2>2, <2>3, ReadKeepsSent DEF DeliveryInv
  <1>4. CASE PollerStep
    <2>1. closed' = closed
      BY <1>4 DEF PollerStep, Poll, GiveUp, AnswerFailed, AnswerRunning,
                  AnswerComplete, AppendLoad, AppendStore
    <2>2. QED
      BY <1>1, <1>2, <1>4, <2>1, OthersKeepTold, PollerKeepsSent,
         PollerKeepsFinal DEF DeliveryInv
  <1>5. ASSUME NEW c \in Chunk, Handle(c) PROVE DeliveryInv'
    <2>1. closed' = closed
      BY <1>5 DEF Handle, HandleCompletion, HandleFailure
    <2>2. QED
      BY <1>1, <1>2, <1>5, <2>1, OthersKeepTold, LoopKeepsDelivery DEF DeliveryInv
  <1>6. CASE Shutdown \/ CloseStream \/ Reset
    BY <1>1, <1>2, <1>6, OthersKeepTold, CloseKeepsDelivery DEF DeliveryInv
  <1>7. CASE UNCHANGED svars
    <2>1. UNCHANGED <<fields, got, told, final, poller, chunk, err, reader, closed>>
      BY <1>7 DEF svars, fields, history
    <2>2. ToldOK' /\ PollerHolds'
      BY <1>2, <2>1 DEF ToldOK, PollerHolds
    <2>3. ~closed => SentIsHeld' /\ Unread' = Unread
      BY <2>1, SentKept DEF DeliveryInv, Pending
    <2>4. ~closed => FinalOK' /\ EOFOK'
      BY <2>1, <2>3 DEF DeliveryInv, FinalOK, HasFinal, EOFOK, AllCompleted
    <2>5. QED
      BY <1>1, <2>1, <2>2, <2>3, <2>4 DEF DeliveryInv
  <1>8. QED
    BY <1>3, <1>4, <1>5, <1>6, <1>7 DEF Next

LEMMA DeliverySafe == Spec => []DeliveryInv
  BY InitDelivery, NextKeepsDelivery, PTL DEF Spec

(***************************************************************************)
(* The theorems.                                                           *)
(***************************************************************************)

\* The property PreviewsConsistent: until Close, with previews of any chunks
\* in any order and any number of readers, every row changes what its reader
\* holds (translateResultsPreview, sendChunkBlock, Read).
THEOREM PreviewsAreConsistent == Spec => []PreviewsConsistent
  <1>1. DeliveryInv => PreviewsConsistent
    <2> SUFFICES ASSUME DeliveryInv, ~closed PROVE Consistent(got)
      BY DEF PreviewsConsistent, Consistent
    <2>1. /\ got \in Seq(AllRows) /\ Unread \in Seq(AllRows)
          /\ Pending \in Seq(AllRows) /\ Consistent(Sent)
      BY SentTyped DEF DeliveryInv, SentIsHeld
    <2> DEFINE s == got \o Unread
    <2>2. s \in Seq(AllRows)
      BY <2>1
    <2>3. Consistent(s \o Pending)
      BY <2>1 DEF Sent
    <2> HIDE DEF s
    <2>4. Consistent(s)
      BY <2>1, <2>2, <2>3, ConsistentPrefix
    <2>5. QED
      BY <2>1, <2>4, ConsistentPrefix DEF s
  <1>2. QED
    BY <1>1, DeliverySafe, PTL

\* The property NetViewAtEOF: whoever is told EOF holds the final results of
\* all chunks, once and no others (sendChunkBlock, handleChunkCompletion, Read).
THEOREM NetViewIsFinal == Spec => []NetViewAtEOF
  <1>1. DeliveryInv => NetViewAtEOF
    <2> SUFFICES ASSUME DeliveryInv, ~closed, \E r \in Reader : told[r] = "EOF"
                 PROVE  View(got)[Len(got)] = UNION {final[c] : c \in Chunk}
      BY DEF NetViewAtEOF
    <2>1. AllCompleted /\ Unread = <<>>
      BY DEF DeliveryInv, EOFOK
    <2>2. got \in Seq(AllRows) /\ poller \in PollerState /\ PollerHolds
      BY SentTyped DEF DeliveryInv, LockInv, StreamTypeOK
    <2>3. Pending = <<>>
      BY <2>1, <2>2, PollerStates DEF AllCompleted, PollerHolds, Pending
    <2>4. Sent = got
      <3>1. (got \o <<>>) \o <<>> = got
        BY <2>2
      <3>2. QED
        BY <2>1, <2>3, <3>1 DEF Sent
    <2>5. \A c \in Chunk : chunk[c].ptr = final[c]
      BY <2>1 DEF AllCompleted, DeliveryInv, FinalOK, HasFinal
    <2>6. UNION {chunk[c].ptr : c \in Chunk} = UNION {final[c] : c \in Chunk}
      BY <2>5, Zenon
    <2>7. QED
      BY <2>4, <2>6 DEF DeliveryInv, SentIsHeld
  <1>2. QED
    BY <1>1, DeliverySafe, PTL

\* Until Close every step of the stream is a step of the queue, or none.
LEMMA StepOfQueue ==
    ASSUME DeliveryInv, [Next]_svars
    PROVE  [Queue!Next]_(Queue!queueVars)
  <1>1. /\ LockInv /\ ToldOK /\ StreamTypeOK /\ told \in [Reader -> StreamErr]
        /\ Unread \in Seq(AllRows) /\ poller \in PollerState
        /\ closed \in BOOLEAN
    BY SentTyped DEF DeliveryInv, LockInv, StreamTypeOK
  <1>2. CASE closed'
    BY <1>2 DEF Queue!Next, Queue!Close
  <1>3. CASE ~closed' /\ closed
    <2>1. closed' = closed \/ closed'
      BY <1>1, ReadEffect
         DEF Next, PollerStep, Poll, GiveUp, AnswerFailed, AnswerRunning,
             AnswerComplete, AppendLoad, AppendStore, Handle, HandleCompletion,
             HandleFailure, Shutdown, CloseStream, Reset, ResetBlocks, ResetI,
             ResetJ, svars
    <2>2. QED
      BY <1>3, <2>1
  <1>4. CASE ~closed' /\ ~closed
    <2>1. UNCHANGED fields => Unread' = Unread
      BY DEF Unread, fields
    <2>2. ASSUME UNCHANGED <<Unread, got, told>>,
                 err' \in {"nil", "EOF", "failed", "ErrClosed"} \/ err' = err
          PROVE  [Queue!Next]_(Queue!queueVars)
      <3>1. closed' = closed
        BY <1>1, <1>4, NextKeepsLock DEF LockInv, StreamTypeOK
      <3>2. CASE err' = err
        BY <2>2, <3>1, <3>2 DEF Queue!queueVars
      <3>3. CASE err' \in {"nil", "EOF", "failed", "ErrClosed"}
        BY <1>4, <2>2, <3>1, <3>3 DEF Queue!Next, Queue!SetError
      <3>4. QED
        BY <2>2, <3>2, <3>3
    <2>3. ASSUME NEW r \in Reader, ReadStep(r)
          PROVE  [Queue!Next]_(Queue!queueVars)
      <3>1. UNCHANGED <<err, closed>> /\ told[r] = "nil"
        BY <1>1, <2>3, ReadEffect
      <3>2. CASE told' = told /\ got' = got /\ Unread' = Unread
        BY <2>2, <3>1, <3>2
      <3>3. CASE told' # told
        <4>1. /\ err # "nil" /\ told' = [told EXCEPT ![r] = err]
              /\ Unread = <<>> /\ Unread' = <<>> /\ got' = got
          BY <1>1, <1>4, <2>3, <3>3, ReadEffect
        <4>2. Queue!Tell(r)
          BY <3>1, <4>1 DEF Queue!Tell
        <4>3. QED
          BY <1>4, <4>2 DEF Queue!Next
      <3>4. CASE told' = told /\ ~(got' = got /\ Unread' = Unread)
        <4>1. PICK row \in AllRows :
                /\ got' = Append(got, row) /\ Unread # <<>>
                /\ Head(Unread) = row /\ Tail(Unread) = Unread'
          BY <1>1, <1>4, <2>3, <3>4, ReadEffect
        <4>2. Queue!Take
          BY <3>1, <3>4, <4>1 DEF Queue!Take
        <4>3. QED
          BY <1>4, <4>2 DEF Queue!Next
      <3>5. QED
        BY <3>2, <3>3, <3>4
    <2>4. CASE AppendStore
      <3> DEFINE x == poller.block
      <3>1. /\ x \in Seq(AllRows) /\ x # <<>> /\ poller.blocks = blocks
            /\ BlocksTyped /\ PositionOK
        BY <1>1, <1>4, <2>4, PollerStates
           DEF AppendStore, LockInv, BlocksKept, Sendable, StreamTypeOK,
               BlocksTyped
      <3>2. /\ blocks' = Append(blocks, x) /\ i' = i /\ j' = j
            /\ UNCHANGED <<got, told, err, closed>>
        BY <2>4, <3>1 DEF AppendStore, history
      <3> HIDE DEF x
      <3>3. Unread' = Unread \o x
        BY <3>1, <3>2, UnreadAfterAppend
      <3> DEFINE q == Unread
      <3>4. q \in Seq(AllRows) /\ Unread' = q \o x
        BY <1>1, <3>3
      <3> HIDE DEF q
      <3>5. /\ q \o x \in Seq(AllRows) /\ Len(q \o x) > Len(q)
            /\ SubSeq(q \o x, 1, Len(q)) = q
        <4>1. /\ q \o x \in Seq(AllRows) /\ Len(q \o x) = Len(q) + Len(x)
              /\ Len(q) \in Nat /\ Len(x) \in Nat /\ Len(x) # 0
          BY <3>1, <3>4
        <4> DEFINE u == SubSeq(q \o x, 1, Len(q))
        <4>2. /\ u \in Seq(AllRows) /\ Len(u) = Len(q)
              /\ \A k \in 1 .. Len(q) : u[k] = q[k]
          BY <3>1, <3>4, <4>1
        <4> HIDE DEF u
        <4>3. u = q
          BY <3>4, <4>2, SeqEqual
        <4>4. QED
          BY <4>1, <4>3 DEF u
      <3>6. Queue!Put
        BY <3>2, <3>4, <3>5 DEF Queue!Put, q
      <3>7. QED
        BY <1>4, <3>6 DEF Queue!Next
    <2>5. CASE PollerStep /\ ~AppendStore
      <3>1. UNCHANGED fields /\ UNCHANGED <<got, told, err>>
        BY <2>5 DEF PollerStep, Poll, GiveUp, AnswerFailed, AnswerRunning,
                    AnswerComplete, AppendLoad, history
      <3>2. QED
        BY <2>1, <2>2, <3>1
    <2>6. ASSUME NEW c \in Chunk, Handle(c)
          PROVE  [Queue!Next]_(Queue!queueVars)
      <3>1. UNCHANGED fields /\ UNCHANGED <<got, told>>
        BY <2>6 DEF Handle, HandleCompletion, HandleFailure, history
      <3>2. err' \in {"nil", "EOF", "failed", "ErrClosed"} \/ err' = err
        BY <2>6 DEF Handle, HandleCompletion, HandleFailure, SetErr, ErrAfter
      <3>3. QED
        BY <2>1, <2>2, <3>1, <3>2
    <2>7. CASE Shutdown
      <3>1. UNCHANGED fields /\ UNCHANGED <<got, told>> /\ err' = "ErrClosed"
        BY <2>7 DEF Shutdown, SetErr, history
      <3>2. QED
        BY <2>1, <2>2, <3>1
    <2>8. CASE CloseStream \/ Reset
      BY <1>1, <1>4, <2>8
         DEF CloseStream, Reset, ResetBlocks, ResetI, ResetJ, LockInv, BlocksKept
    <2>9. CASE UNCHANGED svars
      <3>1. UNCHANGED fields /\ UNCHANGED <<got, told, err>>
        BY <2>9 DEF svars, history, fields
      <3>2. QED
        BY <2>1, <2>2, <3>1
    <2>10. QED
      BY <2>3, <2>4, <2>5, <2>6, <2>7, <2>8, <2>9 DEF Next
  <1>5. QED
    BY <1>1, <1>2, <1>3, <1>4

\* The property ImplementsQueue: until Close, a stream with any number of
\* readers, of any sizes, is a queue (Read, append, setErr).
THEOREM StreamIsQueue == Spec => ImplementsQueue
  <1>1. Init => Queue!Init
    BY DEF Init, Queue!Init, Unread
  <1>2. DeliveryInv /\ [Next]_svars => [Queue!Next]_(Queue!queueVars)
    BY StepOfQueue
  <1>3. QED
    BY <1>1, <1>2, DeliverySafe, PTL DEF Spec, ImplementsQueue, Queue!Spec
=============================================================================
