SPECIFICATION Spec
CONSTANTS
    MaxDec = 2
    NumReorder = 1
    PicBound = 3
    PocBound = 2
    SliceBound = 2
    Types = {"IDR", "CRA", "RASL", "RADL", "TRAIL"}
    AfterEos = {"IDR", "CRA"}
    LeadingSkip = TRUE
    CraKeepsRefs = TRUE
    Losses = TRUE
    SkipFrames = 1
INVARIANTS
    TypeOK
    OneBufferEach
PROPERTIES
    KeepsWaiting
