---------------------------- MODULE MCRangeStats ----------------------------
(***************************************************************************)
(* Small instances of RangeStats for TLC, on the queries of MCQueryManager.*)
(***************************************************************************)
EXTENDS RangeStats, MCQueryManager

\* A bound: no behaviour goes on after the program has closed the manager or
\* a stream.
NothingClosed ==
    ~closing /\ \A s \in Stream : stream[s].err # "ErrClosed"
=============================================================================
