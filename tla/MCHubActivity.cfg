CONSTANTS
    Previewers = {v1}
    Requesters = {q1}
    Runs = {r1}
    Setter = setter
    Stopper = stopper
    Pollers = {ticker}
    MaxBusy = 3
    None = None
SPECIFICATION FairSpec
ACTION_CONSTRAINT FewBusy
INVARIANTS
    TypeOK
    ServedIsActive
PROPERTIES
    UnusedIsStopped
    SpuriousActivityEnds
