SPECIFICATION MCSpec
CONSTANTS
    Symbols <- MCSymbols
    StateClips = {63, 1, 100}
    SymbolBound = 3
    Key = {1, 2, 3}
    BufferSize = 2
    CodedBound = 5
    LsbCycle = 4
    IdrPocs = {0, 1, 2, 3}
    StartTypes = {"CRA"}
    WidthInCtus = 2
    HeightInCtus = 3
    MaxQp = 3
    QpBdOffset = 2
    CodedQps <- MCQps
    CtuSize = 64
    MinCbSize = 4
    MaxTbSize = 32
    Extents = {8, 24, 64}
    Limits <- MCLimits
    Blocks <- MCBlocks
    Predictions <- MCPredictions
INVARIANTS
    SymbolsComeBack
    RegistersFit
    ContextsAgree
    StoreIsRecent
    SubstreamsAgree
    ContextsAreLocal
    MotionIsLocal
    QpFollows
    SplitComesBack
    CtuIsTiled
    SplitsAreLegal
    CountersFollowPath
    GroupsStartOnce
    LevelsComeBack
    SignsComeBack
    RegBinsBound
CHECK_DEADLOCK FALSE
