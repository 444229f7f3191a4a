SPECIFICATION Spec
CONSTANTS
    r1 = r1
    n1 = n1
    n2 = n2
    Routers = {r1}
    MeshNodes = {n1, n2}
    ScanResults <- MCScanResults
    NumClients = 2
    HasOTA = TRUE
    MaxSectors = 2
    ScanMayFail = TRUE
INVARIANTS
    TimerMatchesFlag
    RetryPending
    StationMatchesList
    RescanOnlyAfterAllTried
    NoOrphanAP
    NoPhantomLink
PROPERTY WalkSpec
