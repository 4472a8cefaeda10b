SPECIFICATION FairSpec
CONSTANTS
    Calls = {c1}
    Turns = {t1, t2}
    Posts = {q1}
    MaxPass = 2
    MaxCrash = 1
    MaxFault = 1
    Overlap = FALSE
    NoCall = NoCall
INVARIANTS
    
    LostOnlyWhileOpening
PROPERTIES
    
    StopEndsWait
CHECK_DEADLOCK FALSE
