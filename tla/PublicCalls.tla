---------------------------- MODULE PublicCalls ----------------------------
(***************************************************************************)
(* mgr.Query and mgr.Close step by step: QueryManager with the goroutines  *)
(* of the program that call them, and the lock m.queryLock they compete    *)
(* for.  A Query holds the lock while it waits for the manager loop to     *)
(* receive its stream.                                                     *)
(***************************************************************************)
EXTENDS QueryManager

CONSTANT Closer  \* the goroutines that call Close

ASSUME CloserAssumption == IsFiniteSet(Closer) /\ Closer \cap Stream = {}

\* Each stream is submitted by a goroutine of its own.
Caller == Stream \cup Closer

VARIABLES
    queryLock,  \* the callers that hold m.queryLock: one or none
    call        \* the point reached by each caller, or what its call returned

calls == <<queryLock, call>>
callVars == <<vars, calls>>

CallsInit ==
    /\ Init
    /\ queryLock = {}
    /\ call = [p \in Caller |-> "idle"]

Goto(p, from, to) ==
    /\ call[p] = from /\ ~Crashed
    /\ call' = [call EXCEPT ![p] = to]

\* A specification was validated, or Close was called: next is the lock.
BeginCall(p) == Goto(p, "idle", "locking") /\ UNCHANGED <<vars, queryLock>>

Lock(p)   == queryLock = {} /\ queryLock' = {p}
Unlock(p) == queryLock' = queryLock \ {p}

(* mgr.Query *)

QueryLocks(s) == Goto(s, "locking", "sending") /\ Lock(s) /\ UNCHANGED vars

\* m.query is closed, by a Close that returned or is about to.
QueryChannelClosed == closing /\ \A k \in Closer : call[k] # "halfway"

\* m.query <- ss, together with the receive in mgr.loop.
QuerySends(s) ==
    /\ Goto(s, "sending", "sent")
    /\ SubmitQuery(s)
    /\ UNCHANGED queryLock

QueryReturns(s) == Goto(s, "sent", "ok") /\ Unlock(s) /\ UNCHANGED vars

\* Faulty variant of QueryRefused: the lock is not released by a defer.
QueryRefusedLocked(s) ==
    /\ QueryChannelClosed
    /\ Goto(s, "sending", "ErrClosed")
    /\ UNCHANGED <<vars, queryLock>>

\* The send on the closed channel panics, and Query recovers.
QueryRefused(s) ==
    /\ QueryChannelClosed
    /\ Goto(s, "sending", "ErrClosed")
    /\ Unlock(s)
    /\ UNCHANGED vars

(* mgr.Close *)

\* close(m.close), on the open channel.
CloseLocks(k) == Goto(k, "locking", "halfway") /\ Lock(k) /\ Close

\* close(m.query)
CloseReturns(k) == Goto(k, "halfway", "ok") /\ Unlock(k) /\ UNCHANGED vars

\* Faulty variant of CloseRefused: recovers without setting the error.
CloseRefusedSilently(k) ==
    /\ closing
    /\ Goto(k, "locking", "ok")
    /\ queryLock = {} /\ UNCHANGED <<vars, queryLock>>

\* close(m.close) panics on the closed channel, and Close recovers.
CloseRefused(k) ==
    /\ closing
    /\ Goto(k, "locking", "ErrClosed")
    /\ queryLock = {} /\ UNCHANGED <<vars, queryLock>>

(* The composition. *)

CallStep(p) ==
    \/ p \in Stream /\ (QueryLocks(p) \/ QueryReturns(p) \/ QueryRefused(p))
    \/ p \in Closer /\ (CloseLocks(p) \/ CloseReturns(p) \/ CloseRefused(p))

\* The program closes a stream that Query has returned.  Its reads change
\* nothing that the calls or the manager look at, and are left out.
CloseStream(s) == call[s] = "ok" /\ StreamClose(s)

CallsNext ==
    \/ \E p \in Caller : BeginCall(p) \/ CallStep(p)
    \/ \E s \in Stream : QuerySends(s)
    \/ SystemStep /\ UNCHANGED calls
    \/ (\E s \in Stream : CloseStream(s)) /\ UNCHANGED calls
    \/ Ended /\ UNCHANGED callVars

\* A call that can go on does, and the select of mgr.loop, which Go resolves
\* at random, favours none of its cases for ever.
CallsFairness ==
    /\ WF_callVars(LoopStep /\ UNCHANGED calls)
    /\ WF_callVars(StarterStep /\ UNCHANGED calls)
    /\ WF_callVars(PollerStep /\ UNCHANGED calls)
    /\ WF_callVars(StopperStep /\ UNCHANGED calls)
    /\ SF_callVars(Exit /\ UNCHANGED calls)
    /\ SF_callVars(\E s \in Stream : QuerySends(s))
    /\ \A p \in Caller : WF_callVars(CallStep(p))

CallsSpec == CallsInit /\ [][CallsNext]_callVars /\ CallsFairness

(***************************************************************************)
(* Properties.                                                             *)
(***************************************************************************)

\* What the calls return is true: a query that was refused never runs and
\* one that was accepted was received by the manager loop, ErrClosed means
\* that the manager is closed, and only one Close claims to have closed it
\* (errors.go:11-19, mgr.go:133-145).
CallResults ==
    /\ \A s \in Stream :
          /\ call[s] = "ErrClosed" => s \notin accepted /\ closing
          /\ call[s] = "ok" => s \in accepted
    /\ \A k \in Closer : call[k] \in {"ok", "ErrClosed"} => closing
    /\ Cardinality({k \in Closer : call[k] \in {"halfway", "ok"}}) <= 1

\* Every call of Query and Close returns, though Query waits for the manager
\* loop with the lock held and the loop may leave at any moment: in the end no
\* caller is in the middle of its only call.
CallsReturn == <>[](\A p \in Caller : call[p] \in {"idle", "ok", "ErrClosed"})
=============================================================================
