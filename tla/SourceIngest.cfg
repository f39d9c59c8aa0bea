SPECIFICATION FairSpec
CONSTANTS
    MaxLines = 3
    MaxFiles = 3
    MaxTruncates = 1
    MaxDeaths = 1
    Blank = {1}
    Batch = 2
    Window = 1
    WarmLines = 1
INVARIANTS
    LossAccounted
    WindowKept
PROPERTIES
    EveryLineLands
