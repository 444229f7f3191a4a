SPECIFICATION Spec
CONSTANTS
    MaxPacket = 3
    NumClients = 1
    Totals <- SomeTotals
    MaxMessages = 2
INVARIANTS
    TypeOK
    HandedWhole
    LinesUndisturbed
