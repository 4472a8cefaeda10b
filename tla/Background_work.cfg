SPECIFICATION FairSpec
CONSTANTS
    ends = ends
    stays = stays
    Tasks = {ends, stays}
    Default = {ends}
    MaxSeq = 0
    MaxTurn = 1
    MaxFault = 1
    MaxCrash = 1
    MaxRunning = 10
    MaxWait = 1
CHECK_DEADLOCK FALSE
INVARIANTS ToldOnce OutcomeKept
PROPERTIES TurnsAlone OutcomeTold
