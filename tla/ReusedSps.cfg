SPECIFICATION SetsSpec
CONSTANTS
    SpsId = {0, 1}
    PpsId = {0, 1}
    Version = {1, 2}
    SendBound = 5
    MaxPics = 2
    ListBound = 3
    CraStarts = TRUE
INVARIANT DecodedAsSent
CHECK_DEADLOCK FALSE
