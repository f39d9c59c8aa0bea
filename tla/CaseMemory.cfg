SPECIFICATION Spec

CONSTANTS
    RunIds = {r}
    ReflectIds = {f}
    ProcedureIds = {p}
    Gone = Gone
    MaxEdits = 3
    MaxFaults = 1
    MaxCrashes = 1
    MaxScripts = 1
    r = r
    f = f
    p = p

INVARIANTS
    BaselineTrue
    ErasureHolds
    AcknowledgedKept
    RolledBackGone

CHECK_DEADLOCK FALSE
