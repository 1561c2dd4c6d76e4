SPECIFICATION Spec
CONSTANTS
    MaxDec = 2
    NumReorder = 1
    PicBound = 3
    PocBound = 2
    SliceBound = 1
    Types = {"IDR", "TRAIL"}
    AfterEos = {"IDR"}
    LeadingSkip = FALSE
    CraKeepsRefs = FALSE
    Losses = FALSE
    SkipFrames = 0
INVARIANT
    ShowsAll
