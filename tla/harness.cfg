SPECIFICATION FairSpec
CONSTANTS
    N = 3
    Warmed <- MCWarmed
INVARIANTS
    OneServer
    ResultsAreMeasured
PROPERTY NoServerLeft
CHECK_DEADLOCK FALSE
