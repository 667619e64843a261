\* A chunk that splits in two, which run at once; every fault, and Close and
\* StreamClose at any moment.
CONSTANTS
    Stream = {"s"}
    Query <- Splitting
    Parallel = 2
    MaxTries <- PollOnce
    MaxRestart = 1
    Faults <- FaultKind
SPECIFICATION Spec
CONSTRAINT FewRepeats
INVARIANTS
    CountersMatch
    NoOrphanWhileOpen
    OnePlace
    ReleasedAtEOF
    NoInternalError
PROPERTIES
    ImplementsContract
