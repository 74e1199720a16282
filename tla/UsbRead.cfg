SPECIFICATION FairSpec
CONSTANTS
    NumBuffers = 3
    Faults = {"submit", "unplug"}
    PacketLength = 2
    MaxPackets = 4
INVARIANTS
    TypeOK
    ExitLeavesNoneInFlight
    HandedIsNotInFlight
    NoneOverwritten
    CallsAreTheReceived
PROPERTIES
    HandedInOrder
    KillEndsThread
    ArrivedIsHandedOver
CHECK_DEADLOCK FALSE
