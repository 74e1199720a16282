SPECIFICATION FairSpec
CONSTANTS
    Devices = {d1, d2}
    NoDevice = NoDevice
    Garbled = Garbled
    Faults = TRUE
    SeqSize = 2
    MaxReplies = 2
INVARIANTS
    TypeOK
PROPERTIES
    TakesOwnSerial
    NeverAThirds
    CallReturns
