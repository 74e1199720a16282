SPECIFICATION Spec
CONSTANTS
    Stations = {s1, s2}
    Workers = {s1, s2}
    WorkerOf <- OwnWorker
    Stages = {}
    MaxSeq = 1
    QueryFaults = {"next", "write"}
    Unset = Unset
SYMMETRY Symmetric
INVARIANTS
    TypeOK
    SerialsUnique
    AllocatedStaysFree
CHECK_DEADLOCK FALSE
