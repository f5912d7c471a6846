SPECIFICATION Spec
CONSTANTS
    Height = 3
    OUTPUT_BUF_SIZE = 2
    MaxStream = 9
    LONG_MAX = 7
    Numbers <- MCNumbers
INVARIANTS
    FailedReadAborts
CHECK_DEADLOCK FALSE
