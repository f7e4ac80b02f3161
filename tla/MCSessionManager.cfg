CONSTANTS
    Serials = {s1}
    Procs = {c1, c2, c3, poll}
    Poller = poll
    Locks = {l1, l2}
    Sessions = {x1, x2}
    MaxEpoch = 1
    None = None
SPECIFICATION Spec
SYMMETRY IdSymmetry
INVARIANTS
    TypeOK
    StartStopExclusive
    LiveIsReachable
    FlagHasOwner
    StopAllKeepsMapEmpty
PROPERTIES
    StopAllWins
    NeverOverwritten
    ImplementsRegistry
