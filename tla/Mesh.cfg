SPECIFICATION Spec
CONSTANTS
    n1 = n1
    n2 = n2
    n3 = n3
    Nodes = {n1, n2, n3}
    NumClients = 1
    SendBuffer = 1
    MaxOpens = 3
    MaxDown = 2
    MaxFaults = 1
SYMMETRY Symmetry
INVARIANTS
    TypeOK
    LoopHasStaleSession
    InSequence
CHECK_DEADLOCK FALSE
