------------------------------ MODULE Preview ------------------------------
(***************************************************************************)
(* Previews (poller.go): what translateResultsPreview sends to the stream  *)
(* for one batch of results, and what the rows mean to their reader.       *)
(*                                                                         *)
(* A batch is the set of the @ptr of its rows, ptr the set c.ptr of those  *)
(* already in the stream.  The final results of a query without previews   *)
(* are the batch that finds ptr empty.                                     *)
(***************************************************************************)
EXTENDS Sequences, Integers

Seqs == INSTANCE SequencesExt

Row(p)     == [ptr |-> p, deleted |-> FALSE]
Deleted(p) == [ptr |-> p, deleted |-> TRUE]

\* Faulty variant of PreviewBlock: sends the rows again at every poll.
PreviewBlockAgain(ptr, batch) ==
    Seqs!SetToSeq({Row(p) : p \in batch})
        \o Seqs!SetToSeq({Deleted(p) : p \in ptr \ batch})

\* The rows not sent yet, then one @deleted row for each @ptr that is gone, in
\* the order of a Go map.
PreviewBlock(ptr, batch) ==
    Seqs!SetToSeq({Row(p) : p \in batch \ ptr})
        \o Seqs!SetToSeq({Deleted(p) : p \in ptr \ batch})

\* Faulty variant of PreviewPtr: remembers deleted rows as sent.
PreviewPtrKept(ptr, batch) == ptr \cup batch

\* c.ptr after the batch: obsolete entries are deleted, new ones added.
PreviewPtr(ptr, batch) == (ptr \ (ptr \ batch)) \cup (batch \ ptr)

\* The rows a reader holds to be valid, having read rows in order: View[k]
\* after the first k.
View(rows) ==
    LET view[k \in 0 .. Len(rows)] ==
            IF k = 0 THEN {}
            ELSE IF rows[k].deleted THEN view[k - 1] \ {rows[k].ptr}
                                    ELSE view[k - 1] \cup {rows[k].ptr}
    IN  view
=============================================================================
