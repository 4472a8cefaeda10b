SPECIFICATION FairSpec
CONSTANTS
    i1 = i1
    i2 = i2
    t1 = t1
    t2 = t2
    Inputs <- MCInputs
    Turns <- MCTurns
    Overlap = FALSE
    MaxCrash = 2
    MaxFault = 1
CHECK_DEADLOCK FALSE
INVARIANTS TakenOnce NothingDropped
PROPERTIES AcceptedArrives
