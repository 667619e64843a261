\* The manager is closed while a chunk waits in the ready ring.
CONSTANTS
    Stream = {"s", "t"}
    Query <- TwoQueries
    Parallel = 2
    MaxTries <- Once
    MaxRestart = 0
    Faults = {"StartLimit"}
SPECIFICATION Spec
INVARIANT
    CloseClosesStreams
