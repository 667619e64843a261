---------------------------- MODULE ResultQueue ----------------------------
(***************************************************************************)
(* What a Stream promises until it is closed, whoever reads it: the rows   *)
(* put in come out once and in order, and no reader is told of the end, or *)
(* of a failure, while a row is left.                                      *)
(***************************************************************************)
EXTENDS Sequences, Integers

CONSTANTS
    Readers,  \* who reads the stream
    Rows,     \* the rows there are
    Errors    \* the errors there are, EOF included

VARIABLES
    queue,   \* the rows that nobody has read yet
    taken,   \* the rows that were read, in the order they were
    error,   \* the error that follows the rows, or "nil"
    told,    \* the error each reader was told
    closed   \* the stream was closed, and promises nothing more

queueVars == <<queue, taken, error, told, closed>>

Init ==
    /\ queue = <<>> /\ taken = <<>>
    /\ error = "nil" /\ told = [r \in Readers |-> "nil"]
    /\ closed = FALSE

Put ==
    /\ queue' \in Seq(Rows)
    /\ Len(queue') > Len(queue) /\ SubSeq(queue', 1, Len(queue)) = queue
    /\ UNCHANGED <<taken, error, told, closed>>

Take ==
    /\ queue # <<>>
    /\ taken' = Append(taken, Head(queue))
    /\ queue' = Tail(queue)
    /\ UNCHANGED <<error, told, closed>>

SetError ==
    /\ error' \in Errors \cup {"nil"}
    /\ UNCHANGED <<queue, taken, told, closed>>

Tell(r) ==
    /\ queue = <<>> /\ error # "nil" /\ told[r] = "nil"
    /\ told' = [told EXCEPT ![r] = error]
    /\ UNCHANGED <<queue, taken, error, closed>>

\* Nothing is promised of a closed stream, but that it stays closed.
Close == closed'

Next ==
    \/ ~closed /\ (Put \/ Take \/ SetError \/ \E r \in Readers : Tell(r))
    \/ Close

Spec == Init /\ [][Next]_queueVars
=============================================================================
