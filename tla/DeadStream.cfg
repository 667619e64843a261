\* A stream is closed while its chunk waits for parallelism to drop.
CONSTANTS
    Stream = {"s"}
    Query <- OneChunk
    Parallel = 1
    MaxTries <- Once
    MaxRestart = 0
    Faults = {"StartLimit"}
SPECIFICATION FairSpec
PROPERTY
    StreamCloseReleases
