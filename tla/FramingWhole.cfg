SPECIFICATION FairSpec
CONSTANTS
    Slots = {0, 1}
    Lengths <- RoomyLengths
    MaxPacket = 4
    Mss = 2
    ShortWrites = FALSE
    MaxSent = 2
INVARIANTS
    LinesAreMessages
PROPERTY MessagesArrive
