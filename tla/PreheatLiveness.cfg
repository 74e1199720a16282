SPECIFICATION FairSpec
CONSTANTS
    Ports = {p1, p2}
    Parts = {a}
    NoPort = NoPort
    NoPart = NoPart
    NumSlots = 2
    Seconds = 2
    ValueCap = 2
    Online = TRUE
    MaxChanges = 1
    ReadFaults = FALSE
    FailedReads = {"stale", "garbled"}
PROPERTIES
    HeatingEndsInRecord
    StayingIsServed
    CountCatchesUp
    ImplementsBench
