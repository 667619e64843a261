--------------------------- MODULE MCResultStream ---------------------------
(***************************************************************************)
(* A small instance of ResultStream for TLC.                               *)
(***************************************************************************)
EXTENDS ResultStream

\* One reader takes rows one by one, the other two at a time.
OneAndTwo == [r \in Reader |-> IF r = "r1" THEN 1 ELSE 2]

\* A chunk with up to two results, and one that never has any.
TwoOrNone == [c \in Chunk |-> IF c = "a" THEN {"p", "q"} ELSE {}]

\* Two polls find the first chunk running: a row can come, go, come again.
TwoPolls == [c \in Chunk |-> IF c = "a" THEN 2 ELSE 0]
=============================================================================
