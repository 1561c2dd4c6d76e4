SPECIFICATION Spec
CONSTANTS
    MaxDec = 3
    NumReorder = 2
    PicBound = 5
    PocBound = 4
    SliceBound = 1
    Types = {"IDR", "TRAIL"}
    AfterEos = {"IDR"}
    LeadingSkip = FALSE
    CraKeepsRefs = FALSE
    Losses = FALSE
    SkipFrames = 0
INVARIANTS
    NoFault
    OutputInOrder
    ReorderBound
    BufferBound
