SPECIFICATION Spec
CONSTANTS
    MaxDec = 2
    NumReorder = 1
    PicBound = 3
    PocBound = 2
    SliceBound = 1
    Types = {"IDR", "CRA", "RASL", "RADL", "TRAIL"}
    AfterEos = {}
    LeadingSkip = TRUE
    CraKeepsRefs = FALSE
    Losses = FALSE
    SkipFrames = 0
INVARIANT
    SlicesAreInOrder
