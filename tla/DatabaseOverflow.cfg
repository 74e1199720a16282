SPECIFICATION Spec
CONSTANTS
    Stations = {s1}
    Workers = {s1}
    WorkerOf <- OwnWorker
    Stages = {"bist"}
    MaxSeq = 1
    QueryFaults = {"next", "write"}
    Unset = Unset
INVARIANTS
    ExhaustionIsReported
CHECK_DEADLOCK FALSE
