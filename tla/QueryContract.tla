--------------------------- MODULE QueryContract ---------------------------
(***************************************************************************)
(* What a QueryManager promises about a query, seen from the program that  *)
(* submitted it: results for parts of the query's time range arrive in any *)
(* order, no millisecond twice, and the stream ends with EOF only when all *)
(* of them arrived, and then for good.                                     *)
(*                                                                         *)
(* One promise the documentation makes is missing, because the program     *)
(* breaks it: a failed query may recover (errors.go:29-31, README.md).     *)
(***************************************************************************)
EXTENDS Naturals

CONSTANTS
    Queries,  \* the queries a program may submit
    Span      \* the set of milliseconds each of them covers

VARIABLES
    status,  \* how each query stands
    copies   \* how often each millisecond's results were put in its stream

view == <<status, copies>>

Status == {"none", "open", "failed", "eof", "closed"}

Nothing(q) == [t \in Span[q] |-> 0]
All(q)     == [t \in Span[q] |-> 1]

Init ==
    /\ status = [q \in Queries |-> "none"]
    /\ copies = [q \in Queries |-> Nothing(q)]

Becomes(q, from, to) ==
    /\ status[q] = from
    /\ status' = [status EXCEPT ![q] = to]
    /\ UNCHANGED copies

Submit(q)  == Becomes(q, "none", "open")
Fail(q)    == Becomes(q, "open", "failed")
Recover(q) == Becomes(q, "failed", "open")
Finish(q)  == copies[q] = All(q) /\ Becomes(q, "open", "eof")

\* Results arrive for a part of the query that had none: never after the end,
\* but also when the stream failed or was closed.
Deliver(q) ==
    /\ status[q] \in {"open", "failed", "closed"}
    /\ \E part \in SUBSET {t \in Span[q] : copies[q][t] = 0} :
          copies' = [copies EXCEPT ![q] =
                        [t \in Span[q] |-> IF t \in part THEN 1 ELSE @[t]]]
    /\ UNCHANGED status

\* The program closes a stream, which drops its results.
Close(q) ==
    /\ status[q] \in {"open", "failed", "eof"}
    /\ status' = [status EXCEPT ![q] = "closed"]
    /\ copies' = [copies EXCEPT ![q] = Nothing(q)]

\* The manager closes streams while it shuts down; their results can still be
\* read.
Abandon(Q) ==
    /\ \A q \in Q : status[q] \in {"open", "failed", "eof"}
    /\ status' = [q \in Queries |-> IF q \in Q THEN "closed" ELSE status[q]]
    /\ UNCHANGED copies

Next ==
    \/ \E q \in Queries :
          \/ Submit(q) \/ Deliver(q) \/ Finish(q)
          \/ Fail(q) \/ Recover(q) \/ Close(q)
    \/ \E Q \in SUBSET Queries : Abandon(Q)

Spec == Init /\ [][Next]_view
=============================================================================
