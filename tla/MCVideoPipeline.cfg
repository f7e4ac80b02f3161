CONSTANTS
    Capacity = 2
    DecoderCanFail = TRUE
    MaxPackets = 3
    MaxEras = 1
SPECIFICATION FairSpec
ACTION_CONSTRAINT Budget
INVARIANTS
    TypeOK
    SuspensionResets
    SteadyChain
PROPERTIES
    TasksEnd
