SPECIFICATION FairSpec
CONSTANTS
    Timeout = 20
    Idle = 4
    Scan = 3
    Poll = 2
    Grace = 2
    Prompt = 1
    PipeSize = 2
CHECK_DEADLOCK FALSE
INVARIANT StallIsNoticed
PROPERTY StalledMeansSilent
PROPERTY CommandEnds
