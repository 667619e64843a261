\* The manager is closed while a chunk is polled.
CONSTANTS
    Stream = {"s"}
    Query <- OneChunk
    Parallel = 1
    MaxTries <- Once
    MaxRestart = 0
    Faults = {"PollPending"}
SPECIFICATION Spec
INVARIANT
    CloseStopsQueries
