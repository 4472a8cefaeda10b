SPECIFICATION FairSpec
CONSTANTS
    ends = ends
    stays = stays
    Tasks = {}
    Default = {}
    MaxSeq = 2
    MaxTurn = 2
    MaxFault = 2
    MaxCrash = 1
    MaxRunning = 10
    MaxWait = 0
CHECK_DEADLOCK FALSE
INVARIANTS FramesInOrder
PROPERTIES FramesTold
