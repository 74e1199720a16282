SPECIFICATION FairSpec
CONSTANTS
    Tasks = {t1, t2, t3}
    Clients = 2
    Intervals = {1, 2}
    Late = 1
    Infinite = Infinite
INVARIANTS
    TypeOK
    NoTaskLost
    WakeUpIsComing
    DelayIsBounded
PROPERTIES
    TaskRuns
    StopEndsThread
