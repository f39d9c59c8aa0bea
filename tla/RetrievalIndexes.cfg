SPECIFICATION FairSpec
CONSTANTS
    Docs = {d1, d2}
    Contents <- MCContents
    Absent = Absent
    NotReady = NotReady
    SealAt = 2
    SegmentsDue = 2
    EntriesDue = 1
    ObsoleteRatio <- MCRatio
    DeltaMax = 2
    DeltaRatio <- MCRatio
    StaleRatio <- MCRatio
    MaxWrites = 3
    MaxFaults = 1
INVARIANTS
    IndexesAgree
    SnapshotsRestore
PROPERTIES
    LexicalServes
    DenseServes
    MaintenanceSettles
CHECK_DEADLOCK FALSE
