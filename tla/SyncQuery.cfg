\* A synchronous query that splits, fails and restarts, polled for as long as
\* it takes, and a context that may expire at any moment.
CONSTANTS
    Stream = {"s"}
    Query <- Splitting
    Closer = {"main"}
    Parallel = 1
    MaxTries <- Once
    MaxRestart = 1
    Faults = {"PollPending", "PollMaxed", "PollFailed"}
SPECIFICATION SyncSpec
INVARIANTS
    IndInv
    SyncComplete
PROPERTIES
    SyncReturns
    SyncLeavesNothing
