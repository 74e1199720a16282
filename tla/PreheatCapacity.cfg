SPECIFICATION Spec
CONSTANTS
    Ports = {p1, p2, p3}
    Parts = {a, b}
    NoPort = NoPort
    NoPart = NoPart
    NumSlots = 2
    Seconds = 2
    ValueCap = 2
    Online = FALSE
    MaxChanges = 2
    ReadFaults = TRUE
    FailedReads = {"stale", "garbled"}
SYMMETRY Symmetric
INVARIANTS
    TableIsSound
PROPERTIES
    ImplementsBench
