CONSTANTS
    Serials = {s1}
    Sessions = {x1}
    None = None
    Poller = poll
    Handlers = {h1}
    Permits = 1
SPECIFICATION Spec
PROPERTIES
    ManualStopWins
