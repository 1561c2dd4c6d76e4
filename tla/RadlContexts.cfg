SPECIFICATION StoreSpec
CONSTANTS
    Key = {1, 2, 3}
    BufferSize = 2
    CodedBound = 6
    LsbCycle = 4
    IdrPocs = {0, 1, 2, 3}
    StartTypes = {"CRA", "IDR"}
INVARIANT ContextsAgree
CHECK_DEADLOCK FALSE
