SPECIFICATION FairSpec
CONSTANTS
    NumRows = 2
    MaxPolls = 3
    MaxQueue = 16
INVARIANTS
    TypeOK
    QuietWindowIsCurrent
    CountOfWrittenPoll
PROPERTIES
    HungShowsLastPoll
CHECK_DEADLOCK FALSE
