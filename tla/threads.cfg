SPECIFICATION FairSpec
CONSTANTS
    w1 = w1
    w2 = w2
    r1 = r1
    r2 = r2
    r3 = r3
    b1 = b1
    b2 = b2
    Workers <- MCWorkers
    Reqs <- MCReqs
    Builds <- MCOneBuild
    Calls <- LiveCalls
    Names <- LiveNames
    Foreign <- ForeignMsghash
    Protections <- MCProtections
    AslrProtections <- MCAslrProtections
    CetProtections <- MCCetProtections
    Oddities <- NoOddities
    MaxMakes = 0
    MaxReports = 2
    Absent = Absent
    Corrupt = Corrupt
    NoReq = NoReq
    NoCall = NoCall
    NoHandle = NoHandle
INVARIANTS
    OwnResult
    LeftoverOnlyOfError
    MpkRestored
PROPERTY
    NobodyStarves
CHECK_DEADLOCK FALSE
