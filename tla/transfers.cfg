SPECIFICATION FairSpec
CONSTANTS
    Plans <- MCPlans
    MaxBuf = 2
    MAX_READ_SIZE = 4
    Word = 8
    Windows = {1, 2, 4}
    MaxAttempts = 5
    MaxAppends = 2
INVARIANTS TransfersTypeOK   
PROPERTY ReaderStops
CHECK_DEADLOCK FALSE
