SPECIFICATION FairDirSpec
CONSTANTS
    n1 = n1
    n2 = n2
    b1 = b1
    b2 = b2
    Names <- MCNames
    Builds <- MCBuilds
    Oddities <- MCOddities
    Absent = Absent
    Corrupt = Corrupt
    MaxMakes = 4
INVARIANTS
    ScanComplete
    ServingMeansScanned
PROPERTIES
    MapWrittenUnderLock
    BootEnds
CHECK_DEADLOCK FALSE
