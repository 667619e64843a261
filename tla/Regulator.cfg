\* Three requests per second, and ticks that tell the delays of one, two and
\* three requests apart.
CONSTANTS
    Second = 6
    Rps = 3
SPECIFICATION Spec
INVARIANTS
    TypeOK
    NeverStuck
    RequestsPerSecond
    RecoversSlowly
PROPERTIES
    Paced
    WaitsEnd
