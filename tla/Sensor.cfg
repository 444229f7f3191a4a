SPECIFICATION MCSpec
CONSTANTS
    Modulus = 6
    MaxGap = 1
    BootDelay = 1
    Debounce = 1
    Least = 0
    Threshold = 0
    Default = 1
    Otherwise = 1
    Most = 1
    Requests <- SomeRequests
    MinReading = 2
    MaxReading = 3
    MaxSamples = 5
    MaxStatuses = 3
INVARIANTS
    ReadingsCountedOnce
    TypeOK
    ReleasedWhenSettled
PROPERTIES
    RestartRestores
    StatusInTime
    RelayIsReported
