\* Every query of up to eight milliseconds, and longer ones of one chunk.
CONSTANT Queries <- ShortAndLong
SPECIFICATION Spec
INVARIANTS
    LeavesDisjoint
    CoversAfterLastRoot
    RootsAligned
    SplitsIntoFew
PROPERTY
    SplittingEnds
