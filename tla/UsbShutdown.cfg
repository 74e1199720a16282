SPECIFICATION Spec
CONSTANTS
    NumBuffers = 2
    Faults = {}
    PacketLength = 2
    MaxPackets = 4
INVARIANTS
    AllReturnedAtCleanUp
