SPECIFICATION MCSpec
CONSTANTS
    Byte = {0, 1, 2, 3, 4}
    HeaderByte = {1, 9}
    RbspBound = 7
    NalBound = 6
    EosAllowed = TRUE
    MaxLsb = 4
    PocBound = 9
    MsbTypes = {"IDR"}
    SkipSlices = 1
    SpsId = {0, 1}
    PpsId = {0}
    Version = {1, 2}
    SendBound = 5
    MaxPics = 2
    ListBound = 3
    CraStarts = FALSE
    Configurations <- EncoderConfigurations
    RefListSize = 9
INVARIANTS
    NoStartCode
    RoundTrip
    ReadInOrder
    AccessUnitIsOne
    EosEndsUnit
    PocFollows
    DecodedAsSent
    HeldSpsAlive
    OnlyPocZeroIsRefused
    ShownInOrder
PROPERTY
    ReachesEnd
CHECK_DEADLOCK FALSE
