SPECIFICATION FairSpec
CONSTANTS
    r1 = r1
    n1 = n1
    n2 = n2
    Routers = {r1}
    MeshNodes = {n1, n2}
    ScanResults <- MCMixedResults
    NumClients = 1
    HasOTA = FALSE
    MaxSectors = 1
    ScanMayFail = FALSE
PROPERTIES
    KeepsTrying
    MeshJoinResolves
    ServesWhenConnected
