\* A query of two chunks, of which one splits, so that three compete for two
\* slots. Parallelism drops, chunks restart and fail; nobody closes anything.
CONSTANTS
    Stream = {"s"}
    Query <- SplittingOfTwo
    Parallel = 2
    MaxTries <- Once
    MaxRestart = 1
    Faults = {"StartLimit", "StartFailure", "PollTerminal", "PollMaxed",
              "PollFailed"}
SPECIFICATION StatsSpec
CONSTRAINT NothingClosed
INVARIANTS
    ChannelsFit
    InFlightWithinParallel
    OpenQueriesWithinParallel
    CompleteAtEOF
    CountsLeaveRoom
    DeliveredAtMostOnce
    StatsOrdered
    StatsAtEOF
    FailureCounted
PROPERTIES
    StatsFinalAtEOF
