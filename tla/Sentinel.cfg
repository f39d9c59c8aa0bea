SPECIFICATION Spec
CONSTANTS
    Keys = {k1}
    None = None
    ConfirmPolls = 2
    Cooldown = 1
    CooldownMax = 2
    Limit = 2
    Window = 2
    Faults = {}
    MaxTime = 3
    MaxPolls = 6
    MaxCrashes = 2
INVARIANTS
    WatchAccounted
    Spaced
    RepairBudget
CHECK_DEADLOCK FALSE
