SPECIFICATION FairSpec
CONSTANTS
    QueueSize = 2
    Codes <- TwoCodes
    KvWords = 6
    CutAt = {5}
    Files = {"f"}
    Messages <- SomeMessages
    MaxCmds = 3
    MaxTimes = 3
INVARIANTS
    TypeOK
    QueueMatchesHeap
    PlayedAsAsked
    WholeSectionPlayed
PROPERTIES
    QueuedIsPlayed
    PlaysList
