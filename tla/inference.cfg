SPECIFICATION FairSpec
CONSTANTS
    MaxBuffers = 6
    Requirements <- MCRequirements
    Graphs <- MCGraphs
    kBufferAlignment = 2
    Available = 11
INVARIANTS
    InferenceTypeOK
    OperandsIntact
    WorkingSetApart
    ResultsIntact
PROPERTY InferenceEnds
CHECK_DEADLOCK FALSE
