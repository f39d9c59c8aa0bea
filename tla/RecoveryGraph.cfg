SPECIFICATION IncidentSpec
CONSTANTS
    a = a
    b = b
    c = c
    Actions = {a, b, c}
    Mechanism <- MCMechanism
    Impact <- MCImpact
    MaxActions = 3
    Facts = {"fact"}
    Required <- MCRequired
    MaxAge = 1
    Ages <- MCAges
    NoAction = NoAction
INVARIANTS
    OneChangeAtATime
    AttemptsDescend
    TrailTellsRun
CHECK_DEADLOCK
    FALSE
