CONSTANTS
    Serials = {s1}
    Procs = {c1, c2, poll}
    Poller = poll
    Locks = {l1}
    Sessions = {x1}
    MaxEpoch = 1
    None = None
SPECIFICATION Spec
PROPERTIES
    ConnectingStartIsFenced
