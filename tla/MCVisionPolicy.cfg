CONSTANTS
    Screens = {portrait, landscape}
    Places = {p, q}
    Sizes = {small, large}
    StableHits = 2
    DisappearFrames = 2
    Delay = 1
    Cooldown = 1
    Rearm = "disappear"
    MaxElapsed = 1
    None = None
SPECIFICATION Spec
INVARIANTS
    TypeOK
    DoneIsLast
    PlacesAreLearned
