SPECIFICATION Spec
CONSTANTS
    Nodes = {"n1", "n2"}
    Images = {"A", "B"}
    Length <- MCLength
    BlockSize = 3
    SectorSize = 4
    FreeStart = 4
    Space <- MCSpace
    Lossy = {"n1"}
    BadFlash = {"n2"}
    MaxRuns = 2
INVARIANTS
    BootsOneImage
    ListedNodesBootWhatWasSent
