CONSTANTS
    Files = {f, g}
    Modes = {"one", "all"}
    Loaders = {l1, l2}
    Versions = {1, 2, 3}
    Size <- MCSize
    Budget = 3
    None = None
SYMMETRY Symmetry
SPECIFICATION Spec
INVARIANTS
    CacheIsExact
    NeverStale
