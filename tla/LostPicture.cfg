SPECIFICATION Spec
CONSTANTS
    MaxDec = 2
    NumReorder = 1
    PicBound = 4
    PocBound = 3
    SliceBound = 1
    Types = {"IDR", "TRAIL"}
    AfterEos = {}
    LeadingSkip = FALSE
    CraKeepsRefs = FALSE
    Losses = TRUE
    SkipFrames = 0
INVARIANT
    LossIsConcealed
