\* Two readers and two chunks with previews; failures, and Close at any moment.
\* Readers may wait for ever: when the service never answers, or when another
\* reader was told the error.
CONSTANTS
    Reader = {"r1", "r2"}
    Size <- OneAndTwo
    Chunk = {"a", "b"}
    Ptr <- TwoOrNone
    MaxPolls <- TwoPolls
SPECIFICATION Spec
CHECK_DEADLOCK FALSE
INVARIANTS
    PreviewsConsistent
    NetViewAtEOF
    PanicOnlyInClose
PROPERTIES
    ImplementsQueue
    EndIsSeen
    RowsAreRead
