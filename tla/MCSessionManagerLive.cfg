CONSTANTS
    Serials = {s1, s2}
    Procs = {c1, c2, poll}
    Poller = poll
    Locks = {1, 2, 3}
    Sessions = {x1}
    MaxEpoch = 1
    None = None
SPECIFICATION FairSpec
ACTION_CONSTRAINT SmallStep
PROPERTIES
    CallsReturn
    DeadArePruned
