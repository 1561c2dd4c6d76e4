SPECIFICATION Spec
CONSTANTS
    MaxDec = 2
    NumReorder = 1
    PicBound = 4
    PocBound = 3
    SliceBound = 2
    Types = {"IDR", "CRA", "RASL", "RADL", "TRAIL"}
    AfterEos = {}
    LeadingSkip = FALSE
    CraKeepsRefs = FALSE
    Losses = FALSE
    SkipFrames = 0
INVARIANTS
    NoFault
    ReferencesAreRight
    ShowsAll
PROPERTY
    KeepsPromise
