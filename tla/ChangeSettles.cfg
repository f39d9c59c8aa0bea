SPECIFICATION FairSpec
CONSTANTS
    c1 = c1
    c2 = c2
    Changes = {c1, c2}
    Workers = {w1}
    Devices = {"d"}
    DeviceOf <- OneDevice
    Keys = {"k"}
    Values = {"old", "one", "two"}
    Factory <- MCFactory
    Plan <- SinglePlan
    Samples = 3
    Grace = 1
    RuleCap = 1
    None = None
    Other = Other
    MaxDisturbances = 1
INVARIANTS
    RuleWithinCap
PROPERTIES
    Settles
CHECK_DEADLOCK
    FALSE
