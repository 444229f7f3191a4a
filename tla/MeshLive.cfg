SPECIFICATION FairSpec
CONSTANTS
    n1 = n1
    n2 = n2
    n3 = n3
    Nodes = {n1, n2}
    NumClients = 1
    SendBuffer = 1
    MaxOpens = 3
    MaxDown = 1
    MaxFaults = 2
PROPERTIES
    LoopsEnd
    AnnouncementsSettle
CHECK_DEADLOCK FALSE
