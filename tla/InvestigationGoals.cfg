SPECIFICATION FairSpec
CONSTANTS
    Alerts = {a, d}
    Suggestions = {}
    Workers = {w}
    MaxSessions = 6
    Scopes = {"unresolved", "policy", "deny"}
    Grades = {"severe", "minor", "barred"}
    None = None
    MaxReports = 0
    MaxFaults = 2
    a = a
    d = d
    w = w
PROPERTIES
    EveryGoalDecided
CHECK_DEADLOCK FALSE
