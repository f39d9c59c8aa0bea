SPECIFICATION FairSpec
CONSTANTS
    Threads = {t1, t2}
    r1 = r1
    r2 = r2
    r3 = r3
    Requests = {r1, r2, r3}
    None = None
    IncidentOf <- MCIncidentOf
    AssetOf <- MCAssetOf
    DomainOf <- MCDomainOf
    MaxPerIncident = 2
    MaxPerAsset = 2
    MaxPerDomain = 2
    MaxConcurrency = 1
    Window = 2
    Cooldown = 1
    BackoffBase = 1
    BackoffMax = 2
    Faults = {"final", "load", "rot"}
    MaxTime = 0
    MaxCrashes = 1
INVARIANTS
    ExclusiveDomain
    ConcurrencyLimit
PROPERTIES
    DomainFreed
