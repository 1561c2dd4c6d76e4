SPECIFICATION ListsSpec
CONSTANTS
    Configurations <- EncoderConfigurations
    RefListSize = 9
INVARIANT
    LossesReported
CHECK_DEADLOCK FALSE
