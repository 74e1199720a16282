SPECIFICATION Spec
CONSTANTS
    Ports = {p1, p2}
    Parts = {a, b}
    NoPort = NoPort
    NoPart = NoPart
    NumSlots = 2
    Seconds = 2
    ValueCap = 2
    Online = TRUE
    MaxChanges = 1
    ReadFaults = FALSE
    FailedReads = {"stale", "garbled", "hang"}
SYMMETRY Symmetric
INVARIANTS
    TypeOK
    TableIsSound
    SlotsTrackConnected
    SlotShowsPluggedPart
    RecordIsEarned
PROPERTIES
    RecordsOnlyDue
CHECK_DEADLOCK FALSE
