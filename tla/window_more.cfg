SPECIFICATION Spec
CONSTANTS
    Plans <- MCPlans
    MaxBuf = 2
    MAX_READ_SIZE = 4
    Word = 8
    Windows = {1}
    MaxAttempts = 2
    MaxAppends = 1
INVARIANT MoreMeansMore
CHECK_DEADLOCK FALSE
