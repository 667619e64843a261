\* Two queries on one slot, and two goroutines that close the manager.
CONSTANTS
    Stream = {"s", "t"}
    Query <- TwoQueries
    Closer = {"k", "l"}
    Parallel = 1
    MaxTries <- Once
    MaxRestart = 0
    Faults = {"PollPending"}
SPECIFICATION CallsSpec
INVARIANTS
    CallResults
PROPERTIES
    CloseEndsGoroutines
    CallsReturn
