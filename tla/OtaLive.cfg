SPECIFICATION FairSpec
CONSTANTS
    Nodes = {"n1", "n2"}
    Images = {"A", "B"}
    Length <- MCLength
    BlockSize = 3
    SectorSize = 4
    FreeStart = 4
    Space <- MCSpace
    Lossy = {}
    BadFlash = {}
    MaxRuns = 2
PROPERTY UpdatesSucceed
CHECK_DEADLOCK FALSE
