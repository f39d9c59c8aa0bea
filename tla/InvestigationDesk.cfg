SPECIFICATION Spec
CONSTANTS
    Alerts = {a}
    Suggestions = {b}
    Workers = {w, v}
    MaxSessions = 4
    Scopes = {"exact"}
    Grades = {"severe"}
    None = None
    MaxReports = 2
    MaxFaults = 1
    a = a
    b = b
    w = w
    v = v
SYMMETRY WorkerSymmetry
INVARIANTS
    RecordsAgree
    ClaimsTell
PROPERTIES
    TrailKept
CHECK_DEADLOCK FALSE
