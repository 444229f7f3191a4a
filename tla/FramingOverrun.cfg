SPECIFICATION Spec
CONSTANTS
    Slots = {1, 2}
    Lengths <- FullLengths
    MaxPacket = 4
    Mss = 3
    ShortWrites = TRUE
    MaxSent = 2
INVARIANT NoOverrun
