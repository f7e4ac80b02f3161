CONSTANTS
    Sessions = {x1}
    Runs = {r1, r2}
    Handlers = {h1, h2}
    MaxFrame = 1
    None = None
SPECIFICATION FairSpec
INVARIANTS
    TypeOK
    RegisteredIsFed
    DemandHasRun
    MetricsOfOneRun
    NoOrphanRuns
PROPERTIES
    NoLateFrame
    RunsEnd
CHECK_DEADLOCK FALSE
