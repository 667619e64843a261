\* A closed stream's query is stopped, and StopQuery fails once.
CONSTANTS
    Stream = {"s"}
    Query <- OneChunk
    Parallel = 1
    MaxTries <- Twice
    MaxRestart = 0
    Faults = {"StopTemporary"}
SPECIFICATION Spec
INVARIANT
    TemporaryErrorsRetried
