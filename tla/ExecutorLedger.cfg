SPECIFICATION Spec
CONSTANTS
    Threads = {t1, t2}
    r1 = r1
    r2 = r2
    r3 = r3
    Requests = {r1, r2, r3}
    None = None
    IncidentOf <- AssetIncidentOf
    AssetOf <- AssetAssetOf
    DomainOf <- AssetDomainOf
    MaxPerIncident = 2
    MaxPerAsset = 2
    MaxPerDomain = 2
    MaxConcurrency = 1
    Window = 1
    Cooldown = 1
    BackoffBase = 1
    BackoffMax = 2
    Faults = {"reserve", "final"}
    MaxTime = 2
    MaxCrashes = 1
INVARIANTS
    AtMostOnceCommit
    WriteAheadLedger
    PacingKept
PROPERTIES
    LedgerOnlyGrows
SYMMETRY
    ThreadSymmetry
