SPECIFICATION Spec
CONSTANTS
    w1 = w1
    w2 = w2
    r1 = r1
    r2 = r2
    r3 = r3
    b1 = b1
    b2 = b2
    Workers <- MCWorkers
    Reqs <- MCTwoReqs
    Builds <- MCBuilds
    Calls <- MixedCalls
    Names <- MixedNames
    Foreign <- ForeignTflite
    Protections <- MCProtections
    AslrProtections <- MCAslrProtections
    CetProtections <- MCCetProtections
    Oddities <- NoOddities
    MaxMakes = 2
    MaxReports = 1
    Absent = Absent
    Corrupt = Corrupt
    NoReq = NoReq
    NoCall = NoCall
    NoHandle = NoHandle
SYMMETRY MCSymmetry
INVARIANTS
    TypeOK
    NoSpuriousPanic
    RegionsReleased
    OneBuildPerBoot
PROPERTY ServiceSpec
CHECK_DEADLOCK FALSE
