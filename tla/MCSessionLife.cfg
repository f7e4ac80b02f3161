CONSTANTS
    b1 = b1
    b2 = b2
    Batches = {b1, b2}
    Length <- MCLength
    Capacity = 1
    NoBatch = none
    Attempts = 2
    Ports = {video, control}
    Stoppers = {k1}
SPECIFICATION FairSpec
INVARIANTS
    TypeOK
    RemovedOnce
    NothingForgotten
    OkMeansWritten
    RefusedIsNotSent
    GesturesAreWhole
PROPERTIES
    EverythingReleased
CHECK_DEADLOCK FALSE
