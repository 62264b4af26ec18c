SPECIFICATION Spec
CONSTANTS
    RingBlocks = 4
    MaxQueue = 2
INVARIANTS
    TypeOK
    StoppedMeansRaced
    FastMeansLate
    SlipsAreTrue
PROPERTY CulpritRecorded
