----------------------------- MODULE SyncQuery -----------------------------
(***************************************************************************)
(* The synchronous Query (query.go) and ReadAll (readall.go): a program    *)
(* that makes a QueryManager of its own, queries it from a helper          *)
(* goroutine, and closes it when the helper has the results or the         *)
(* context expires, whichever comes first.                                 *)
(***************************************************************************)
EXTENDS PublicCalls

\* Query runs one query with Parallel 1 and closes the manager itself.
ASSUME SyncAssumption ==
    /\ Cardinality(Stream) = 1
    /\ Closer = {"main"}
    /\ Parallel = 1

s0 == CHOOSE s \in Stream : TRUE

VARIABLES
    expired,  \* the context is done
    main,     \* the goroutine that called Query
    helper,   \* the goroutine that calls m.Query and ReadAll
    drainer,  \* the goroutine started when the context expires
    answer,   \* p, as the helper sends it: the blocks read and the error
    outcome   \* what Query returns

sync == <<expired, main, helper, drainer, answer, outcome>>
syncVars == <<callVars, sync>>

Nothing == [blocks |-> <<>>, err |-> "none"]

SyncInit ==
    /\ CallsInit
    /\ expired = FALSE
    /\ main = "select"
    /\ helper = "query"
    /\ drainer = "none"
    /\ answer = Nothing
    /\ outcome = Nothing

ContextExpires ==
    /\ ~expired /\ main = "select"
    /\ expired' = TRUE
    /\ UNCHANGED <<callVars, main, helper, drainer, answer, outcome>>

(* The helper. *)

\* m.Query returned an error.
HelperRefused ==
    /\ helper = "query" /\ call[s0] = "ErrClosed"
    /\ helper' = "send"
    /\ answer' = [blocks |-> <<>>, err |-> "ErrClosed"]
    /\ UNCHANGED <<callVars, expired, main, drainer, outcome>>

\* Faulty variant of ReadAllReturns: stops at the first Read that finds all
\* results consumed.
ReadAllReturnsEarly ==
    /\ helper = "query" /\ call[s0] = "ok"
    /\ helper' = "send"
    /\ answer' = [blocks |-> stream[s0].blocks, err |-> "nil"]
    /\ UNCHANGED <<callVars, expired, main, drainer, outcome>>

\* ReadAll: reads until Read returns an error, having consumed all blocks;
\* EOF becomes nil.
ReadAllReturns ==
    /\ helper = "query" /\ call[s0] = "ok"
    /\ ReadError(s0) /\ UNCHANGED calls
    /\ helper' = "send"
    /\ answer' = [blocks |-> stream[s0].blocks,
                  err    |-> IF stream[s0].err = "EOF" THEN "nil"
                             ELSE stream[s0].err]
    /\ UNCHANGED <<expired, main, drainer, outcome>>

(* The main goroutine and the drainer, and the unbuffered channel c. *)

MainReceives ==
    /\ main = "select" /\ helper = "send"
    /\ main' = "close"
    /\ helper' = "done"
    /\ outcome' = answer
    /\ UNCHANGED <<callVars, expired, drainer, answer>>

\* Faulty variants of MainExpires: waits for the helper itself, and leaves
\* the helper alone with its answer.
MainExpiresWaiting ==
    /\ main = "select" /\ expired /\ helper = "send"
    /\ main' = "close"
    /\ helper' = "done"
    /\ outcome' = [blocks |-> <<>>, err |-> "ctx"]
    /\ UNCHANGED <<callVars, expired, drainer, answer>>

MainExpiresUndrained ==
    /\ main = "select" /\ expired
    /\ main' = "close"
    /\ outcome' = [blocks |-> <<>>, err |-> "ctx"]
    /\ UNCHANGED <<callVars, expired, helper, drainer, answer>>

MainExpires ==
    /\ main = "select" /\ expired
    /\ main' = "close"
    /\ drainer' = "receive"
    /\ outcome' = [blocks |-> <<>>, err |-> "ctx"]
    /\ UNCHANGED <<callVars, expired, helper, answer>>

DrainerReceives ==
    /\ drainer = "receive" /\ helper = "send"
    /\ drainer' = "done"
    /\ helper' = "done"
    /\ UNCHANGED <<callVars, expired, main, answer, outcome>>

\* The deferred m.Close returned.
MainReturns ==
    /\ main = "close" /\ call["main"] \in {"ok", "ErrClosed"}
    /\ main' = "returned"
    /\ UNCHANGED <<callVars, expired, helper, drainer, answer, outcome>>

(* The composition. *)

\* The helper calls m.Query at once, main calls m.Close at the end.
CallsBegin ==
    /\ \/ BeginCall(s0)
       \/ main = "close" /\ BeginCall("main")
    /\ UNCHANGED sync

CallsGoOn ==
    /\ \/ QuerySends(s0)
       \/ \E p \in Caller : CallStep(p)
    /\ UNCHANGED sync

ManagerRuns == SystemStep /\ UNCHANGED <<calls, sync>>

QueryStep ==
    \/ HelperRefused \/ ReadAllReturns
    \/ MainReceives \/ MainExpires \/ DrainerReceives \/ MainReturns

SyncNext ==
    \/ ContextExpires
    \/ CallsBegin \/ CallsGoOn
    \/ QueryStep
    \/ ManagerRuns
    \/ Ended /\ main = "returned" /\ UNCHANGED syncVars

\* No goroutine stops for good while it can go on, and selects are fair.
\* Nothing makes the context expire.
SyncFairness ==
    /\ WF_syncVars(CallsBegin) /\ WF_syncVars(QueryStep)
    /\ \A p \in Caller : WF_syncVars(CallStep(p) /\ UNCHANGED sync)
    /\ SF_syncVars(QuerySends(s0) /\ UNCHANGED sync)
    /\ WF_syncVars(LoopStep /\ UNCHANGED <<calls, sync>>)
    /\ WF_syncVars(StarterStep /\ UNCHANGED <<calls, sync>>)
    /\ WF_syncVars(PollerStep /\ UNCHANGED <<calls, sync>>)
    /\ WF_syncVars(StopperStep /\ UNCHANGED <<calls, sync>>)
    /\ SF_syncVars(Exit /\ UNCHANGED <<calls, sync>>)

SyncSpec == SyncInit /\ [][SyncNext]_syncVars /\ SyncFairness

\* The service does not answer "running" to every poll of a chunk.
Responsive ==
    \A c \in Chunk : SF_syncVars(Conclusive(c) /\ UNCHANGED <<calls, sync>>)

(***************************************************************************)
(* Properties.                                                             *)
(***************************************************************************)

\* Without an error Query returns the results of the whole query, none of
\* them twice, whatever Close does meanwhile.
SyncComplete ==
    main = "returned" /\ outcome.err = "nil" =>
        \A t \in Times(s0) :
            Cardinality({i \in DOMAIN outcome.blocks :
                            Covers(outcome.blocks[i], t)}) = 1

\* Query returns when the context expires (query.go:16-18), no matter what the
\* service answers, and otherwise when the service lets the query end, split
\* and restarted as often as it takes.
SyncReturns ==
    /\ expired ~> main = "returned"
    /\ Responsive => <>(main = "returned")

\* After Query returned its goroutines and the manager's all end.  The
\* helper does not when the manager was closed with chunks in m.ready, whose
\* stream nobody closes (see CloseClosesStreams).
SyncLeavesNothing ==
    main = "returned" ~>
        /\ Ended
        /\ \/ helper = "done" /\ drainer # "receive"
           \/ ready # <<>> /\ Alive(s0)
=============================================================================
