------------------------- MODULE ContractRefinement -------------------------
(***************************************************************************)
(* QueryManager implements QueryContract.                                  *)
(***************************************************************************)
EXTENDS QueryManager

StatusOf(s) ==
    CASE s \notin accepted -> "none"
      [] s \in accepted /\ Alive(s) -> "open"
      [] stream[s].err = "EOF" -> "eof"
      [] stream[s].err = "ErrClosed" -> "closed"
      [] stream[s].err \in PublicErr \ {"nil", "ErrClosed"} -> "failed"
      [] stream[s].err \in InternalErr -> "internal"

CopiesOf(s) ==
    LET blocks == stream[s].blocks
    IN  [t \in Times(s) |->
            Cardinality({i \in DOMAIN blocks : Covers(blocks[i], t)})]

Contract ==
    INSTANCE QueryContract
    WITH Queries <- Stream,
         Span    <- [s \in Stream |-> Times(s)],
         status  <- [s \in Stream |-> StatusOf(s)],
         copies  <- [s \in Stream |-> CopiesOf(s)]

\* Seen from the program, a QueryManager with its workers, retries, splits,
\* restarts, lost parallelism and races with Close does nothing but what
\* QueryContract allows: a stream's results cover disjoint parts of the
\* query, EOF comes with the last of them and is followed by nothing but
\* Close, and no internal instruction becomes a stream's error.
ImplementsContract == Contract!Spec
=============================================================================
