CONSTANTS
    Serials = {s1, s2}
    Steady = s2
    Sessions = {x1, x2}
    None = None
    Poller = poll
    Handlers = {h1}
    Permits = 2
SPECIFICATION FairSpec
ACTION_CONSTRAINT SteadyStays
INVARIANTS
    TypeOK
    StoppedStaysStopped
PROPERTIES
    DevicesAreServed
