SPECIFICATION Spec
CONSTANTS
    Base = 5
    Size = 15
    Sizes <- MCSizes
    Alignments = {1, 2}
    kBufferAlignment = 2
    AllocatorSize = 2
    HandleSize = 2
    HandleAlign = 2
INVARIANTS
    RegionsApart
    TemporariesApart
    HandlesIndexed
CHECK_DEADLOCK FALSE
