\* One chunk of a query fails while the other one runs.
CONSTANTS
    Stream = {"s"}
    Query <- TwoChunks
    Parallel = 2
    MaxTries <- Once
    MaxRestart = 0
    Faults = {"StartFailure"}
SPECIFICATION Spec
INVARIANT
    ErrorsSticky
