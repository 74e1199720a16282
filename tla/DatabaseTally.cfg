SPECIFICATION Spec
CONSTANTS
    Stations = {s1, s2}
    Workers = {s1, s2}
    WorkerOf <- OwnWorker
    Stages = {"bist", "preheat"}
    MaxSeq = 0
    QueryFaults = {"count"}
    Unset = Unset
VIEW BetweenCounts
SYMMETRY Symmetric
PROPERTIES
    TallyAddsUp
CHECK_DEADLOCK FALSE
