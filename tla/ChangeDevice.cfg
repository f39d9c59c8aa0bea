SPECIFICATION Spec
CONSTANTS
    c1 = c1
    c2 = c2
    Changes = {c1, c2}
    Workers = {w1, w2}
    Devices = {"d"}
    DeviceOf <- OneDevice
    Keys = {"k", "l"}
    Values = {"old", "one", "two"}
    Factory <- MCFactory
    Plan <- LongPlan
    Samples = 3
    Grace = 1
    RuleCap = 0
    None = None
    Other = Other
    MaxDisturbances = 2
INVARIANTS
    OneWriterPerDevice
    UnprovenKeepsLease
    RunsOnce
    RolledBackClean
    NoOrphan
PROPERTIES
    SuccessIsWhole
SYMMETRY
    WorkerSymmetry
CHECK_DEADLOCK
    FALSE
